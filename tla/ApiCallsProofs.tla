--------------------------- MODULE ApiCallsProofs ---------------------------
(***************************************************************************)
(* Theorems about ApiCalls: for any calls, any labels, any RetryConfig and *)
(* any number of faults, a key stands for one job, a call takes effect at  *)
(* most once more than it was not told of,    what a caller is told is     *)
(* true, and a call is served by the handler of its operation.             *)
(***************************************************************************)
EXTENDS ApiCalls, FiniteSetTheorems, SequenceTheorems, TLAPS

-----------------------------------------------------------------------------
(* The tables of the clients and of the router.                            *)

(* The status each operation of the generated client expects is a success. *)
LEMMA OkIsSuccess ==
  ASSUME NEW o \in Operations
  PROVE  o.request.ok \in 200 .. 299
  BY DEF Operations, Operation, CancelExecution, CancelExecutionRequest, CancelJob,
     CancelJobRequest, CreateEndpoint, CreateEndpointRequest, CreateJob, CreateJobRequest,
     CreatePayloadSpec, CreatePayloadSpecRequest, DeleteEndpoint, DeleteEndpointRequest,
     DeletePayloadSpec, DeletePayloadSpecRequest, GetEndpoint, GetEndpointRequest,
     GetExecution, GetExecutionRequest, GetJob, GetJobRequest, GetJobStatus,
     GetJobStatusRequest, GetJobVersions, GetJobVersionsRequest, GetPayloadSpec,
     GetPayloadSpecRequest, ListEndpoints, ListEndpointsRequest, ListExecutionAttempts,
     ListExecutionAttemptsRequest, ListExecutionLogs, ListExecutionLogsRequest,
     ListJobExecutions, ListJobExecutionsRequest, ListJobs, ListJobsRequest,
     ListPayloadSpecs, ListPayloadSpecsRequest, UpdateEndpoint, UpdateEndpointRequest,
     UpdateJob, UpdateJobRequest, UpdatePayloadSpec, UpdatePayloadSpecRequest

(* Of the generated operations, one is called create_job. *)
LEMMA OneCreateJob ==
  ASSUME NEW o \in Operations, o.name = "create_job"
  PROVE  o = CreateJob
  BY DEF Operations, Operation, CancelExecution, CancelJob, CreateEndpoint,
     CreatePayloadSpec, DeleteEndpoint, DeletePayloadSpec, GetEndpoint, GetExecution, GetJob,
     GetJobStatus, GetJobVersions, GetPayloadSpec, ListEndpoints, ListExecutionAttempts,
     ListExecutionLogs, ListJobExecutions, ListJobs, ListPayloadSpecs, UpdateEndpoint,
     UpdateJob, UpdatePayloadSpec

(* It is the one that takes an idempotency key. *)
LEMMA KeyIsForCreateJob ==
  ASSUME NEW o \in Operations, "idempotency_key" \in o.members
  PROVE  o.name = "create_job"
  BY DEF Operations, Operation, CancelExecution, CancelExecutionInput, CancelJob,
     CancelJobInput, CreateEndpoint, CreateEndpointInput, CreateJob, CreateJobInput,
     CreatePayloadSpec, CreatePayloadSpecInput, DeleteEndpoint, DeleteEndpointInput,
     DeletePayloadSpec, DeletePayloadSpecInput, GetEndpoint, GetEndpointInput,
     GetExecution, GetExecutionInput, GetJob, GetJobInput, GetJobStatus,
     GetJobStatusInput, GetJobVersions, GetJobVersionsInput, GetPayloadSpec,
     GetPayloadSpecInput, ListEndpoints, ListEndpointsInput, ListExecutionAttempts,
     ListExecutionAttemptsInput, ListExecutionLogs, ListExecutionLogsInput,
     ListJobExecutions, ListJobExecutionsInput, ListJobs, ListJobsInput,
     ListPayloadSpecs, ListPayloadSpecsInput, UpdateEndpoint, UpdateEndpointInput,
     UpdateJob, UpdateJobInput, UpdatePayloadSpec, UpdatePayloadSpecInput

(* Both clients send create_job to the same place. *)
LEMMA CreateJobIsPosted ==
  ASSUME NEW o, \/ o \in Operations \/ o \in DashboardOperations, o.name = "create_job"
  PROVE  o.request.method = "POST" /\ o.request.path = <<"jobs">>
  <1>1. CASE o \in Operations
    BY <1>1, OneCreateJob DEF CreateJob, CreateJobRequest, Operation
  <1>2. CASE o \in DashboardOperations
    BY <1>2 DEF DashboardOperations, OrganizationCalls, WorkspaceCalls, JobListCalls,
       JobCalls, EndpointCalls, ExecutionCalls, ConfigCalls, PayloadSpecCalls, SecretCalls, ApiFn
  <1> QED
    BY <1>1, <1>2

(* The router sends it to one handler. *)
LEMMA PostedIsCreated ==
  ASSUME NEW r \in Reached("POST", <<"jobs">>)
  PROVE  r.handler = <<"jobs", "create">>
  <1> DEFINE kinds == {"orgs", "payload-specs", "configs", "secrets", "endpoints"}
  <1>1. r \in RouteTable /\ r.method = "POST" /\ Matches(r.path, <<"jobs">>)
    BY DEF Reached
  <1>2. \/ r.handler = <<"jobs", "create">>
        \/ \E k \in kinds : r.path = <<k>>
        \/ r.path \in {<<"orgs", Any, "workspaces">>, <<"jobs", Any, "cancel">>,
                       <<"executions", Any, "cancel">>}
    <2>1. CASE r \in ManagementRoutes
      BY <1>1, <2>1 DEF ManagementRoutes
    <2>2. CASE r \in ResourceRoutes
      BY <1>1, <2>2 DEF ResourceRoutes, Resource
    <2>3. CASE r \in JobRoutes
      BY <1>1, <2>3 DEF JobRoutes
    <2>4. CASE r \in ExecutionRoutes
      BY <1>1, <2>4 DEF ExecutionRoutes
    <2> QED
      BY <1>1, <2>1, <2>2, <2>3, <2>4 DEF RouteTable
  <1>3. ASSUME NEW k \in kinds, r.path = <<k>> PROVE FALSE
    <2>1. Len(<<"jobs">>) = 1 /\ <<"jobs">>[1] = "jobs" /\ <<k>>[1] = k /\ k # Any /\ k # "jobs"
      BY DEF Any
    <2>2. 1 \in 1 .. Len(<<"jobs">>)
      BY <2>1
    <2> QED
      BY <1>1, <1>3, <2>1, <2>2 DEF Matches
  <1>4. ASSUME NEW k, NEW l, r.path = <<k, Any, l>> PROVE FALSE
    <2>1. Len(<<"jobs">>) = 1 /\ Len(<<k, Any, l>>) = 3
      OBVIOUS
    <2>2. Len(r.path) = Len(<<"jobs">>)
      BY <1>1 DEF Matches
    <2>3. Len(r.path) = 3
      BY <1>4, <2>1
    <2> QED
      BY <2>1, <2>2, <2>3
  <1> QED
    BY <1>2, <1>3, <1>4

(* Whatever is not a GET reaches a handler that writes. *)
LEMMA WritesReachWrites ==
  ASSUME NEW r \in RouteTable
  PROVE  /\ r.method # "GET" => IsWrite(r.handler)
         /\ r.handler[2] \in {"create", "list", "get", "update", "delete", "cancel", "status",
              "versions", "list_executions", "list_attempts", "list_logs"}
         /\ r.handler[2] = "cancel" => r.handler[1] \in {"jobs", "executions"}
         /\ r.handler[1] = "executions" /\ r.method # "GET" => r.handler[2] = "cancel"
         /\ r.handler[1] = "jobs" /\ r.method # "GET" =>
              r.handler[2] \in {"create", "update", "cancel"}
  BY DEF RouteTable, ManagementRoutes, ResourceRoutes, Resource, JobRoutes, ExecutionRoutes,
     IsWrite

-----------------------------------------------------------------------------
(* The store and the handlers.                                             *)

Job == [status : {"ACTIVE", "RETIRED"}, trigger : {"IMMEDIATE", "DELAYED", "CRON", "none"},
        key : {Absent, "k"}]

StoreOK(s) ==
  /\ s = [named |-> s.named, used |-> s.used, exec |-> s.exec, jobs |-> s.jobs]
  /\ s.exec \in {"PENDING", "SUCCESS", "CANCELLED"}
  /\ s.jobs \in Seq(Job)

(* One row at most has the key. *)
KeyOnce(s) == \A m, n \in WithKey("k", s) : m = n

(* From store s to store t, the key stays with the row that has it. *)
KeepsKey(s, t) == WithKey("k", s) # {} => WithKey("k", t) = WithKey("k", s)

(* What every handler makes of a store. *)
Sound(rep, s) ==
  /\ StoreOK(rep.store) /\ KeepsKey(s, rep.store)
  /\ KeyOnce(s) => KeyOnce(rep.store)
  /\ rep.status \in {200, 201, 204, 400, 401, 404, 409}

LEMMA SameSound ==
  ASSUME NEW s, StoreOK(s), NEW status \in {200, 201, 204, 400, 401, 404, 409}, NEW data
  PROVE  /\ Sound(Reply(status, data, s), s)
         /\ Reply(status, data, s).status = status /\ Reply(status, data, s).store = s
         /\ Reply(status, data, s).data = data
  BY DEF Sound, Reply, KeepsKey

LEMMA NamedIs ==
  ASSUME NEW s, StoreOK(s), NEW S
  PROVE  LET t == [s EXCEPT !.named = S] IN
         StoreOK(t) /\ t.named = S /\ t.jobs = s.jobs /\ t.exec = s.exec
  <1>1. PICK t : t = [s EXCEPT !.named = S]
    OBVIOUS
  <1>2. t = [named |-> S, used |-> s.used, exec |-> s.exec, jobs |-> s.jobs]
    BY <1>1 DEF StoreOK
  <1>3. StoreOK(t) /\ t.named = S /\ t.jobs = s.jobs /\ t.exec = s.exec
    BY <1>2 DEF StoreOK
  <1> QED
    BY <1>1, <1>3

LEMMA ExecIs ==
  ASSUME NEW s, StoreOK(s), NEW e \in {"PENDING", "SUCCESS", "CANCELLED"}
  PROVE  LET t == [s EXCEPT !.exec = e] IN
         StoreOK(t) /\ t.exec = e /\ t.jobs = s.jobs
  <1>1. PICK t : t = [s EXCEPT !.exec = e]
    OBVIOUS
  <1>2. t = [named |-> s.named, used |-> s.used, exec |-> e, jobs |-> s.jobs]
    BY <1>1 DEF StoreOK
  <1>3. StoreOK(t) /\ t.exec = e /\ t.jobs = s.jobs
    BY <1>2 DEF StoreOK
  <1> QED
    BY <1>1, <1>3

LEMMA JobsIs ==
  ASSUME NEW s, StoreOK(s), NEW q \in Seq(Job)
  PROVE  LET t == [s EXCEPT !.jobs = q] IN StoreOK(t) /\ t.jobs = q
  <1>1. PICK t : t = [s EXCEPT !.jobs = q]
    OBVIOUS
  <1>2. t = [named |-> s.named, used |-> s.used, exec |-> s.exec, jobs |-> q]
    BY <1>1 DEF StoreOK
  <1>3. StoreOK(t) /\ t.jobs = q
    BY <1>2 DEF StoreOK
  <1> QED
    BY <1>1, <1>3

(* A store with the same jobs has the key where it was. *)
LEMMA SameJobs ==
  ASSUME NEW s, NEW t, t.jobs = s.jobs
  PROVE  WithKey("k", t) = WithKey("k", s) /\ KeepsKey(s, t) /\ (KeyOnce(s) => KeyOnce(t))
  <1>1. WithKey("k", t) = WithKey("k", s)
    BY DEF WithKey
  <1> QED
    BY <1>1 DEF KeepsKey, KeyOnce

LEMMA NamedSound ==
  ASSUME NEW s, StoreOK(s), NEW kind, NEW verb, NEW name
  PROVE  LET rep == NamedHandler(kind, verb, name, s) IN
         /\ Sound(rep, s)
         /\ verb \in {"create", "delete"} /\ rep.status \in {200, 201, 204} => rep.store # s
  <1> DEFINE row == <<kind, name>>
             more == [s EXCEPT !.named = @ \cup {row}]
             less == [s EXCEPT !.named = @ \ {row}]
             rep == NamedHandler(kind, verb, name, s)
  <1>1. PICK t : t = more
    OBVIOUS
  <1>2. StoreOK(t) /\ t.named = s.named \cup {row} /\ t.jobs = s.jobs
    BY <1>1, NamedIs
  <1>3. PICK u : u = less
    OBVIOUS
  <1>4. StoreOK(u) /\ u.named = s.named \ {row} /\ u.jobs = s.jobs
    BY <1>3, NamedIs
  <1>5. /\ Sound(Reply(201, name, t), s) /\ Reply(201, name, t).store = t
        /\ row \notin s.named => t # s
    BY <1>2, SameJobs DEF Sound, Reply
  <1>6. /\ Sound(Reply(204, Absent, u), s) /\ Reply(204, Absent, u).store = u
        /\ row \in s.named => u # s
    BY <1>4, SameJobs DEF Sound, Reply
  <1>7. \/ rep = Reply(200, Absent, s) /\ verb = "list"
        \/ rep = Reply(409, Absent, s)
        \/ rep = Reply(201, name, t) /\ row \notin s.named
        \/ rep = Reply(404, Absent, s)
        \/ rep = Reply(204, Absent, u) /\ row \in s.named
        \/ rep = Reply(200, name, s) /\ verb \notin {"create", "delete"}
    BY <1>1, <1>3 DEF NamedHandler
  <1> HIDE DEF rep
  <1>8. Sound(rep, s)
    BY <1>5, <1>6, <1>7, SameSound
  <1>9. verb \in {"create", "delete"} /\ rep.status \in {200, 201, 204} => rep.store # s
    <2>1. Reply(409, Absent, s).status = 409 /\ Reply(404, Absent, s).status = 404
      BY DEF Reply
    <2> QED
      BY <1>5, <1>6, <1>7, <2>1
  <1> QED
    BY <1>8, <1>9 DEF rep

LEMMA ExecutionSound ==
  ASSUME NEW s, StoreOK(s), NEW verb, NEW id
  PROVE  LET rep == ExecutionHandler(verb, id, s) IN
         /\ Sound(rep, s)
         /\ verb = "cancel" /\ rep.status \in {200, 201, 204} => rep.store # s
  <1> DEFINE rep == ExecutionHandler(verb, id, s)
  <1>1. PICK t : t = [s EXCEPT !.exec = "CANCELLED"]
    OBVIOUS
  <1>2. StoreOK(t) /\ t.exec = "CANCELLED" /\ t.jobs = s.jobs
    BY <1>1, ExecIs
  <1>3. /\ Sound(Reply(200, id, t), s) /\ Reply(200, id, t).store = t
        /\ s.exec = "PENDING" => t # s
    BY <1>2, SameJobs DEF Sound, Reply
  <1>4. \/ rep = Reply(404, Absent, s) \/ rep = Reply(409, Absent, s)
        \/ rep = Reply(200, id, t) /\ s.exec = "PENDING"
        \/ rep = Reply(200, id, s) /\ verb # "cancel"
    BY <1>1 DEF ExecutionHandler
  <1> HIDE DEF rep
  <1>5. Sound(rep, s)
    BY <1>3, <1>4, SameSound
  <1>6. verb = "cancel" /\ rep.status \in {200, 201, 204} => rep.store # s
    BY <1>3, <1>4, SameSound
  <1> QED
    BY <1>5, <1>6 DEF rep

(* A job is added at the end. *)
LEMMA AddJobIs ==
  ASSUME NEW s, StoreOK(s), NEW key \in {Absent, "k"},
         NEW trigger \in {"IMMEDIATE", "DELAYED", "CRON", "none"}
  PROVE  LET t == AddJob(key, trigger, s) IN
         /\ StoreOK(t) /\ Len(t.jobs) = Len(s.jobs) + 1 /\ t # s
         /\ WithKey("k", t) =
              WithKey("k", s) \cup (IF key = "k" THEN {Len(s.jobs) + 1} ELSE {})
  <1> DEFINE job == [status |-> "ACTIVE", trigger |-> trigger, key |-> key]
  <1>1. PICK q : q = Append(s.jobs, job)
    OBVIOUS
  <1>2. s.jobs \in Seq(Job) /\ job \in Job /\ Len(s.jobs) \in Nat
    BY DEF StoreOK, Job
  <1>3. /\ q \in Seq(Job) /\ Len(q) = Len(s.jobs) + 1 /\ q[Len(s.jobs) + 1].key = key
        /\ \A n \in 1 .. Len(s.jobs) : q[n] = s.jobs[n]
    BY <1>1, <1>2
  <1>4. PICK t : t = AddJob(key, trigger, s)
    OBVIOUS
  <1>5. StoreOK(t) /\ t.jobs = q
    BY <1>1, <1>3, <1>4, JobsIs DEF AddJob
  <1>6. t # s
    BY <1>2, <1>3, <1>5
  <1>7. DOMAIN t.jobs = 1 .. Len(s.jobs) + 1 /\ DOMAIN s.jobs = 1 .. Len(s.jobs)
    BY <1>2, <1>3, <1>5
  <1>8. Absent # "k"
    BY ApiCallsAssumption
  <1>9. WithKey("k", t) = WithKey("k", s) \cup (IF key = "k" THEN {Len(s.jobs) + 1} ELSE {})
    BY <1>2, <1>3, <1>5, <1>7, <1>8 DEF WithKey
  <1> QED
    BY <1>3, <1>4, <1>5, <1>6, <1>9

(* A job is retired where it is. *)
LEMMA RetiredIs ==
  ASSUME NEW s, StoreOK(s), NEW n \in DOMAIN s.jobs
  PROVE  LET t == [s EXCEPT !.jobs[n].status = "RETIRED"] IN
         /\ StoreOK(t) /\ Len(t.jobs) = Len(s.jobs)
         /\ s.jobs[n].status # "RETIRED" => t # s
         /\ WithKey("k", t) = WithKey("k", s)
  <1>1. s.jobs \in Seq(Job) /\ Len(s.jobs) \in Nat /\ DOMAIN s.jobs = 1 .. Len(s.jobs)
        /\ s.jobs[n] \in Job
    BY DEF StoreOK
  <1>2. PICK job : job = [s.jobs[n] EXCEPT !.status = "RETIRED"]
    OBVIOUS
  <1>3. job \in Job /\ job.status = "RETIRED" /\ job.key = s.jobs[n].key
    BY <1>1, <1>2 DEF Job
  <1>4. PICK q : q = [s.jobs EXCEPT ![n] = job]
    OBVIOUS
  <1>5. /\ q \in Seq(Job) /\ Len(q) = Len(s.jobs) /\ DOMAIN q = 1 .. Len(s.jobs) /\ q[n] = job
        /\ \A m \in 1 .. Len(s.jobs) : m # n => q[m] = s.jobs[m]
    BY <1>1, <1>3, <1>4
  <1>6. PICK t : t = [s EXCEPT !.jobs[n].status = "RETIRED"]
    OBVIOUS
  <1>7. t = [s EXCEPT !.jobs = q]
    BY <1>2, <1>4, <1>6 DEF StoreOK
  <1>8. StoreOK(t) /\ t.jobs = q
    BY <1>5, <1>7, JobsIs
  <1>9. s.jobs[n].status # "RETIRED" => t # s
    BY <1>3, <1>5, <1>8
  <1>10. WithKey("k", t) = WithKey("k", s)
    BY <1>1, <1>3, <1>5, <1>8 DEF WithKey
  <1> QED
    BY <1>5, <1>6, <1>8, <1>9, <1>10

(* A create with a key finds the row that has it, or makes it. *)
LEMMA CreateJobSound ==
  ASSUME NEW s, StoreOK(s), NEW key \in {Absent, "k"},
         NEW trigger \in {"IMMEDIATE", "DELAYED", "CRON", "none"}
  PROVE  LET rep == CreateJobHandler(key, trigger, s) IN
         /\ Sound(rep, s)
         /\ key = Absent /\ rep.status \in {200, 201, 204} => rep.store # s
         /\ key = "k" /\ KeyOnce(s) =>
              \E n : WithKey("k", rep.store) = {n} /\ rep.data = JobIds[n]
  <1> DEFINE rep == CreateJobHandler(key, trigger, s)
  <1>1. PICK t : t = AddJob(key, trigger, s)
    OBVIOUS
  <1>2. /\ StoreOK(t) /\ t # s
        /\ WithKey("k", t) = WithKey("k", s) \cup (IF key = "k" THEN {Len(s.jobs) + 1} ELSE {})
    BY <1>1, AddJobIs
  <1>3. WithKey(Absent, s) = {}
    BY DEF WithKey
  <1>4. CASE WithKey(key, s) # {}
    <2>1. key = "k" /\ WithKey("k", s) # {}
      BY <1>3, <1>4
    <2>2. PICK n : n = CHOOSE m \in WithKey("k", s) : TRUE
      OBVIOUS
    <2>3. n \in WithKey("k", s)
      BY <2>1, <2>2
    <2>4. rep = Reply(200, JobIds[n], s)
      BY <1>4, <2>1, <2>2 DEF CreateJobHandler
    <2>5. KeyOnce(s) => WithKey("k", s) = {n}
      BY <2>3 DEF KeyOnce
    <2>6. Sound(rep, s) /\ rep.data = JobIds[n] /\ rep.store = s
      BY <2>4, SameSound
    <2>7. key # Absent
      BY <2>1, ApiCallsAssumption
    <2> QED
      BY <2>5, <2>6, <2>7
  <1>6. CASE WithKey(key, s) = {} /\ trigger = "DELAYED" /\ key = Absent
    <2>1. rep = Reply(400, Absent, s)
      BY <1>6 DEF CreateJobHandler
    <2>2. Sound(rep, s) /\ rep.status = 400
      BY <2>1, SameSound
    <2>3. key # "k"
      BY <1>6, ApiCallsAssumption
    <2> QED
      BY <2>2, <2>3
  <1>5. CASE WithKey(key, s) = {} /\ ~ (trigger = "DELAYED" /\ key = Absent)
    <2>1. rep = Reply(201, JobIds[Len(s.jobs) + 1], t)
      BY <1>1, <1>5 DEF CreateJobHandler, NextId
    <2> HIDE DEF rep
    <2>2. rep.store = t /\ rep.status = 201 /\ rep.data = JobIds[Len(s.jobs) + 1]
      BY <2>1 DEF Reply
    <2>3. key = "k" => WithKey("k", t) = {Len(s.jobs) + 1} /\ WithKey("k", s) = {}
      BY <1>2, <1>5
    <2>4. key # "k" => WithKey("k", t) = WithKey("k", s)
      BY <1>2
    <2>5. KeepsKey(s, t) /\ (KeyOnce(s) => KeyOnce(t))
      BY <2>3, <2>4 DEF KeepsKey, KeyOnce
    <2>6. Sound(rep, s)
      BY <1>2, <2>2, <2>5 DEF Sound
    <2>7. key = "k" => \E n : WithKey("k", rep.store) = {n} /\ rep.data = JobIds[n]
      BY <2>2, <2>3
    <2>8. key = Absent => rep.store # s
      BY <1>2, <2>2
    <2> QED
      BY <2>6, <2>7, <2>8 DEF rep
  <1> QED
    BY <1>4, <1>5, <1>6

LEMMA UpdateJobSound ==
  ASSUME NEW s, StoreOK(s), NEW n \in DOMAIN s.jobs
  PROVE  Sound(UpdateJobHandler(n, s), s)
  <1>1. PICK t : t = [s EXCEPT !.jobs[n].status = "RETIRED"]
    OBVIOUS
  <1>2. StoreOK(t) /\ WithKey("k", t) = WithKey("k", s)
    BY <1>1, RetiredIs
  <1>3. PICK u : u = AddJob(Absent, "CRON", t)
    OBVIOUS
  <1>4. StoreOK(u) /\ WithKey("k", u) = WithKey("k", s)
    <2>1. Absent # "k"
      BY ApiCallsAssumption
    <2>2. Absent \in {Absent, "k"} /\ "CRON" \in {"IMMEDIATE", "DELAYED", "CRON", "none"}
      OBVIOUS
    <2>3. /\ StoreOK(u)
          /\ WithKey("k", u) =
               WithKey("k", t) \cup (IF Absent = "k" THEN {Len(t.jobs) + 1} ELSE {})
      BY <1>2, <1>3, <2>2, AddJobIs
    <2> QED
      BY <1>2, <2>1, <2>3
  <1>5. \/ UpdateJobHandler(n, s) = Reply(409, Absent, s)
        \/ UpdateJobHandler(n, s) = Reply(200, NextId(s), u)
    BY <1>1, <1>3 DEF UpdateJobHandler
  <1>6. Sound(Reply(200, NextId(s), u), s)
    BY <1>4 DEF Sound, Reply, KeepsKey, KeyOnce
  <1> QED
    BY <1>5, <1>6, SameSound

LEMMA CancelJobSound ==
  ASSUME NEW s, StoreOK(s), NEW n \in DOMAIN s.jobs
  PROVE  LET rep == CancelJobHandler(n, s) IN
         Sound(rep, s) /\ (rep.status \in {200, 201, 204} => rep.store # s)
  <1> DEFINE rep == CancelJobHandler(n, s)
  <1>1. PICK t : t = [s EXCEPT !.jobs[n].status = "RETIRED"]
    OBVIOUS
  <1>2. /\ StoreOK(t) /\ WithKey("k", t) = WithKey("k", s)
        /\ s.jobs[n].status # "RETIRED" => t # s
    BY <1>1, RetiredIs
  <1>3. \/ rep = Reply(409, Absent, s)
        \/ rep = Reply(200, JobIds[n], t) /\ s.jobs[n].status # "RETIRED"
    BY <1>1 DEF CancelJobHandler
  <1>4. Sound(Reply(200, JobIds[n], t), s) /\ Reply(200, JobIds[n], t).store = t
    BY <1>2 DEF Sound, Reply, KeepsKey, KeyOnce
  <1>5. Sound(Reply(409, Absent, s), s) /\ Reply(409, Absent, s).status = 409
    BY SameSound
  <1> QED
    BY <1>2, <1>3, <1>4, <1>5

(* What the handlers read of a call's arguments. *)
Given(in) == in.key \in {Absent, "k"} /\ in.trigger \in {"IMMEDIATE", "DELAYED", "CRON", "none"}

(* The answer to a create with the key names the row that has it. *)
NamesKey(rep) == \E n : WithKey("k", rep.store) = {n} /\ rep.data = JobIds[n]

LEMMA JobSound ==
  ASSUME NEW s, StoreOK(s), NEW in, Given(in), NEW verb, NEW id
  PROVE  LET rep == JobHandler(verb, id, in, s) IN
         /\ Sound(rep, s)
         /\ verb = "create" /\ in.key = Absent /\ rep.status \in {200, 201, 204} =>
              rep.store # s
         /\ verb = "create" /\ in.key = "k" /\ KeyOnce(s) => NamesKey(rep)
         /\ verb = "cancel" /\ rep.status \in {200, 201, 204} => rep.store # s
  <1> DEFINE rep == JobHandler(verb, id, in, s)
  <1>1. CASE verb = "create"
    <2>1. rep = CreateJobHandler(in.key, in.trigger, s)
      BY <1>1 DEF JobHandler
    <2>2. /\ Sound(rep, s)
          /\ in.key = Absent /\ rep.status \in {200, 201, 204} => rep.store # s
          /\ in.key = "k" /\ KeyOnce(s) => NamesKey(rep)
      BY <2>1, CreateJobSound DEF Given, NamesKey
    <2> QED
      BY <1>1, <2>2
  <1>2. CASE verb = "list"
    BY <1>2, SameSound DEF JobHandler
  <1>3. CASE verb \notin {"create", "list"} /\ Numbers(id, s) = {}
    <2>1. rep = Reply(404, Absent, s)
      BY <1>3 DEF JobHandler
    <2>2. Sound(rep, s) /\ rep.status = 404
      BY <2>1, SameSound
    <2> QED
      BY <1>3, <2>2
  <1>4. CASE verb \notin {"create", "list"} /\ Numbers(id, s) # {}
    <2>1. PICK n : n = CHOOSE m \in Numbers(id, s) : TRUE
      OBVIOUS
    <2>2. n \in Numbers(id, s)
      BY <1>4, <2>1
    <2>3. n \in DOMAIN s.jobs
      BY <2>2 DEF Numbers
    <2>4. CASE verb = "update"
      <3>1. rep = UpdateJobHandler(n, s)
        BY <1>4, <2>1, <2>4 DEF JobHandler
      <3> QED
        BY <2>3, <2>4, <3>1, UpdateJobSound
    <2>5. CASE verb = "cancel"
      <3>1. rep = CancelJobHandler(n, s)
        BY <1>4, <2>1, <2>5 DEF JobHandler
      <3> QED
        BY <2>3, <2>5, <3>1, CancelJobSound
    <2>6. CASE verb \notin {"update", "cancel"}
      <3>1. rep = Reply(200, id, s)
        BY <1>4, <2>1, <2>6 DEF JobHandler
      <3> QED
        BY <1>4, <2>6, <3>1, SameSound
    <2> QED
      BY <2>4, <2>5, <2>6
  <1> QED
    BY <1>1, <1>2, <1>3, <1>4

(* A write that succeeds changes the store, except for an update, which
   writes the row anew, and a create that finds its key. *)
LEMMA HandleSound ==
  ASSUME NEW s, StoreOK(s), NEW in, Given(in), NEW r \in RouteTable, NEW target
  PROVE  LET rep == Handle(r.handler, target, in, s) IN
         /\ Sound(rep, s)
         /\ r.handler = <<"jobs", "create">> /\ in.key = "k" /\ KeyOnce(s) => NamesKey(rep)
         /\ r.method # "GET" /\ rep.status \in {200, 201, 204} /\ in.key = Absent =>
              rep.store # s \/ r.handler[2] = "update"
  <1> DEFINE h == r.handler
             rep == Handle(h, target, in, s)
  <1>1. CASE h[1] = "jobs"
    <2>1. rep = JobHandler(h[2], target, in, s)
      BY <1>1 DEF Handle
    <2>2. r.method # "GET" => h[2] \in {"create", "update", "cancel"}
      BY <1>1, WritesReachWrites
    <2>3. h = <<"jobs", "create">> => h[2] = "create"
      OBVIOUS
    <2> HIDE DEF rep, h
    <2>4. /\ Sound(rep, s)
          /\ h[2] = "create" /\ in.key = Absent /\ rep.status \in {200, 201, 204} =>
               rep.store # s
          /\ h[2] = "create" /\ in.key = "k" /\ KeyOnce(s) => NamesKey(rep)
          /\ h[2] = "cancel" /\ rep.status \in {200, 201, 204} => rep.store # s
      BY <2>1, JobSound
    <2> QED
      BY <2>2, <2>3, <2>4 DEF rep, h
  <1>2. CASE h[1] = "executions"
    <2>1. rep = ExecutionHandler(h[2], target, s)
      BY <1>2 DEF Handle
    <2>2. r.method # "GET" => h[2] = "cancel"
      BY <1>2, WritesReachWrites
    <2>3. h # <<"jobs", "create">>
      BY <1>2
    <2> HIDE DEF rep, h
    <2>4. Sound(rep, s) /\ (h[2] = "cancel" /\ rep.status \in {200, 201, 204} => rep.store # s)
      BY <2>1, ExecutionSound
    <2> QED
      BY <2>2, <2>3, <2>4 DEF rep, h
  <1>3. CASE h[1] \notin {"jobs", "executions"}
    <2>1. h # <<"jobs", "create">>
      BY <1>3
    <2>2. CASE h[1] = "workspaces" /\ <<"organizations", target>> \notin s.named
      <3>1. rep = Reply(404, Absent, s)
        BY <2>2 DEF Handle
      <3>2. Sound(rep, s) /\ rep.status = 404
        BY <3>1, SameSound
      <3> QED
        BY <2>1, <3>2
    <2>3. CASE ~ (h[1] = "workspaces" /\ <<"organizations", target>> \notin s.named)
      <3>1. PICK name : rep = NamedHandler(h[1], h[2], name, s)
        BY <1>3, <2>3 DEF Handle
      <3>2. r.method # "GET" => h[2] \in {"create", "update", "delete"}
        BY <1>3, WritesReachWrites DEF IsWrite
      <3> HIDE DEF rep, h
      <3>3. /\ Sound(rep, s)
            /\ h[2] \in {"create", "delete"} /\ rep.status \in {200, 201, 204} => rep.store # s
        BY <3>1, NamedSound
      <3> QED
        BY <2>1, <3>2, <3>3 DEF rep, h
    <2> QED
      BY <2>2, <2>3
  <1> QED
    BY <1>1, <1>2, <1>3

(* Whatever comes to the front door: the handlers are reached through a route
   that matches, or not at all. *)
LEMMA AnswerSound ==
  ASSUME NEW s, StoreOK(s), NEW in, Given(in), NEW req
  PROVE  LET a == Answer(in, req, s) IN
         /\ Sound(a.reply, s)
         /\ req.method = "POST" /\ req.path = <<"jobs">> /\ in.key = "k" /\ KeyOnce(s)
              /\ a.reply.status \in {200, 201, 204} => NamesKey(a.reply)
         /\ req.method # "GET" /\ in.key = Absent /\ a.reply.status \in {200, 201, 204} =>
              /\ a.handler # Absent /\ IsWrite(a.handler)
              /\ a.reply.store # s \/ a.handler[2] = "update"
  <1> DEFINE a == Answer(in, req, s)
             hits == Reached(req.method, req.path)
             Turned(status) ==
               [reply |-> Reply(status, Absent, s), handler |-> Absent, target |-> Absent]
  <1>1. ASSUME NEW status \in {400, 401, 404}, a = Turned(status)
        PROVE  Sound(a.reply, s) /\ a.reply.status \notin {200, 201, 204}
    <2>1. a.reply = Reply(status, Absent, s)
      BY <1>1
    <2>2. status \in {200, 201, 204, 400, 401, 404, 409}
      OBVIOUS
    <2> HIDE DEF a
    <2>3. Sound(a.reply, s) /\ a.reply.status = status
      BY <2>1, <2>2, SameSound
    <2> QED
      BY <2>3
  <1>2. CASE authenticate(AuthMode, in.access.credential, FALSE) # "authenticated"
    BY <1>1, <1>2 DEF Answer
  <1>3. CASE authenticate(AuthMode, in.access.credential, FALSE) = "authenticated" /\ hits = {}
    BY <1>1, <1>3 DEF Answer
  <1>4. CASE authenticate(AuthMode, in.access.credential, FALSE) = "authenticated" /\ hits # {}
    <2>1. PICK r : r = CHOOSE q \in hits : TRUE
      OBVIOUS
    <2>2. r \in hits
      BY <1>4, <2>1
    <2>3. r \in RouteTable /\ r.method = req.method
      BY <2>2 DEF Reached
    <2>4. CASE FrontDoor(r.handler, in.access) # 200
      <3>1. FrontDoor(r.handler, in.access) \in {400, 404}
        BY <2>4 DEF FrontDoor, ResolveWorkspace
      <3>2. a = Turned(FrontDoor(r.handler, in.access))
        BY <1>4, <2>1, <2>4 DEF Answer
      <3> QED
        BY <1>1, <3>1, <3>2
    <2>5. CASE FrontDoor(r.handler, in.access) = 200
      <3>1. PICK target : target = Captured(r, req.path)
        OBVIOUS
      <3>2. PICK rep : rep = Handle(r.handler, target, in, s)
        OBVIOUS
      <3>3. a = [reply |-> rep, handler |-> r.handler, target |-> target]
        BY <1>4, <2>1, <2>5, <3>1, <3>2 DEF Answer
      <3>4. /\ Sound(rep, s)
            /\ r.handler = <<"jobs", "create">> /\ in.key = "k" /\ KeyOnce(s) => NamesKey(rep)
            /\ r.method # "GET" /\ rep.status \in {200, 201, 204} /\ in.key = Absent =>
                 rep.store # s \/ r.handler[2] = "update"
        BY <2>3, <3>2, HandleSound
      <3>5. req.method = "POST" /\ req.path = <<"jobs">> => r.handler = <<"jobs", "create">>
        BY <2>2, PostedIsCreated
      <3>6. r.method # "GET" => IsWrite(r.handler)
        BY <2>3, WritesReachWrites
      <3>7. r.handler # Absent
        BY <2>3, ApiCallsAssumption
      <3> HIDE DEF a
      <3>8. a.reply = rep /\ a.handler = r.handler
        BY <3>3
      <3> QED
        BY <2>3, <3>4, <3>5, <3>6, <3>7, <3>8 DEF a
    <2> QED
      BY <2>4, <2>5
  <1> QED
    BY <1>2, <1>3, <1>4

-----------------------------------------------------------------------------
(* The inductive invariant.                                                *)

Tables ==
  /\ input = [c \in Calls |-> input[c]] /\ sent = [c \in Calls |-> sent[c]]
  /\ wire = [c \in Calls |-> wire[c]] /\ answer = [c \in Calls |-> answer[c]]
  /\ result = [c \in Calls |-> result[c]] /\ ledger = [c \in Calls |-> ledger[c]]

(* The requests of a call that took effect or may still. *)
Effects(c) == Cardinality(wire[c]) + ledger[c].applied

Success(c) ==
  \/ phase[c] = "answered" /\ answer[c].status \in 200 .. 299
  \/ phase[c] = "done" /\ result[c].outcome = "Ok"

Shape(c) ==
  /\ wire[c] \subseteq 1 .. attempt[c]
  /\ phase[c] # "new" => attempt[c] <= input[c].attempts
  /\ (answer[c] # Absent) => phase[c] \in {"answered", "done"}
  /\ (result[c] # Absent) => phase[c] = "done"
  /\ ledger[c] = [served |-> ledger[c].served, applied |-> ledger[c].applied,
                  lost |-> ledger[c].lost]
  /\ ledger[c].applied \in Nat /\ ledger[c].lost \in Nat

(* A call that has begun is of an operation of its client, and what it sends
   is that operation's request. *)
Asked(c) ==
  /\ phase[c] = "new" => attempt[c] = 0
  /\ phase[c] \in {"waiting", "answered", "failed"} => attempt[c] # 0
  /\ attempt[c] = 0 => ledger[c] = NoLedger
  /\ phase[c] # "new" =>
       /\ OpOf(input[c]) \in OperationsOf(input[c].client)
       /\ input[c] \in Arguments(input[c].client, OpOf(input[c]))
  /\ attempt[c] # 0 =>
       /\ sent[c].method = OpOf(input[c]).request.method
       /\ sent[c].path = PathOf(input[c].client, OpOf(input[c]), input[c].label)

(* Every request beyond the first is made when nothing is left of the one
   before it, or is paid for by the answer that was lost or was a 500 after a
   commit. *)
Paid(c) ==
  /\ Effects(c) <= 1 + ledger[c].lost
  /\ Retryable(c) => Effects(c) <= ledger[c].lost
  /\ phase[c] # "new" /\ input[c].attempts = 1 => Effects(c) <= 1

(* While nothing took effect in silence, the server has the latest request at
   most, and what took effect is what the caller is told. *)
Heard(c) ==
  ledger[c].lost = 0 =>
    /\ wire[c] # {} => phase[c] = "waiting" /\ wire[c] = {attempt[c]}
    /\ ledger[c].applied > 0 => Success(c)

(* A success is the effect of this call, or of the one that had its key. *)
Made(c) ==
  Success(c) /\ Writes(input[c]) =>
    ledger[c].applied > 0 \/ (input[c].op = "create_job" /\ input[c].key # Absent)

(* It names the row that has the key. *)
Keyed(c) ==
  Success(c) =>
    /\ phase[c] = "done" => result[c].data = DataOf(input[c], answer[c].data)
    /\ input[c].op = "create_job" /\ input[c].key = "k" =>
         \E n \in WithKey("k", store) :
           WithKey("k", store) = {n} /\ answer[c].data = JobIds[n]

CallOK(c) == Shape(c) /\ Asked(c) /\ Paid(c) /\ Heard(c) /\ Made(c) /\ Keyed(c)

StoreInv == StoreOK(store) /\ Len(store.jobs) <= Len(JobIds) /\ KeyOnce(store)

IInv ==
  /\ Tables /\ StoreInv
  /\ phase \in [Calls -> {"new", "waiting", "answered", "failed", "done"}]
  /\ attempt \in [Calls -> Nat] /\ faults \in 0 .. MaxFaults
  /\ \A c \in Calls : CallOK(c)

-----------------------------------------------------------------------------
(* The arguments of a call and its requests.                               *)

LEMMA ArgumentsAre ==
  ASSUME NEW client, NEW o \in OperationsOf(client), NEW in \in Arguments(client, o)
  PROVE  /\ Given(in) /\ in.attempts \in Nat \ {0} /\ in.op = o.name /\ in.client = client
         /\ in.key # Absent => in.op = "create_job"
  <1>1. /\ in.op = o.name /\ in.client = client
        /\ in.key \in (IF Takes(client, o, "idempotency_key") THEN {Absent, "k"} ELSE {Absent})
        /\ in.trigger \in (IF Takes(client, o, "trigger") THEN {"IMMEDIATE", "DELAYED", "CRON"}
                          ELSE {"none"})
        /\ in.attempts \in (IF client = "sdk" THEN MaxAttempts ELSE {1})
    BY DEF Arguments
  <1>2. in.attempts \in Nat \ {0}
    <2>1. MaxAttempts \subseteq Nat \ {0} /\ 1 \in Nat \ {0}
      BY ApiCallsAssumption
    <2> QED
      BY <1>1, <2>1
  <1>3. Given(in)
    BY <1>1 DEF Given
  <1>4. Takes(client, o, "idempotency_key") => o.name = "create_job"
    BY KeyIsForCreateJob DEF Takes, OperationsOf
  <1> QED
    BY <1>1, <1>2, <1>3, <1>4

LEMMA CreateJobPath ==
  ASSUME NEW client, NEW label, NEW o \in OperationsOf(client), o.name = "create_job"
  PROVE  o.request.method = "POST" /\ PathOf(client, o, label) = <<"jobs">>
  <1>1. o.request.method = "POST" /\ o.request.path = <<"jobs">>
    BY CreateJobIsPosted DEF OperationsOf
  <1>2. ~ TakesLabel(o)
    <2>1. DOMAIN <<"jobs">> = 1 .. 1 /\ <<"jobs">>[1] = "jobs"
      OBVIOUS
    <2>2. \A i \in 1 .. 1 : i = 1
      OBVIOUS
    <2>3. \A i \in DOMAIN o.request.path : o.request.path[i] # "{}"
      BY <1>1, <2>1, <2>2
    <2> QED
      BY <2>3 DEF TakesLabel, Label
  <1> QED
    BY <1>1, <1>2 DEF PathOf

(* What a success means to both clients. *)
LEMMA SuccessIs2xx ==
  ASSUME NEW in, OpOf(in) \in OperationsOf(in.client), NEW status
  PROVE  Succeeds(in, status) <=> status \in 200 .. 299
  BY OkIsSuccess DEF Succeeds, OperationsOf

(* The data of create_job is read by both. *)
LEMMA DataIsRead ==
  ASSUME NEW in, OpOf(in) \in OperationsOf(in.client), OpOf(in).name = "create_job", NEW data
  PROVE  DataOf(in, data) = data
  <1>1. CASE in.client = "sdk"
    <2>1. OpOf(in) = CreateJob
      BY <1>1, OneCreateJob DEF OperationsOf
    <2>2. "data" \in OpOf(in).reads
      BY <2>1 DEF CreateJob, Operation, CreateJobReads
    <2> QED
      BY <2>2 DEF DataOf
  <1>2. CASE in.client # "sdk"
    BY <1>2 DEF DataOf
  <1> QED
    BY <1>1, <1>2

LEMMA Facts ==
  ASSUME IInv, NEW c \in Calls
  PROVE  /\ Tables /\ StoreOK(store) /\ KeyOnce(store)
         /\ phase[c] \in {"new", "waiting", "answered", "failed", "done"}
         /\ attempt[c] \in Nat /\ faults \in Nat /\ MaxFaults \in Nat
         /\ CallOK(c) /\ Shape(c) /\ Asked(c) /\ Paid(c) /\ Heard(c) /\ Made(c) /\ Keyed(c)
         /\ wire[c] \subseteq 1 .. attempt[c] /\ ledger[c].applied \in Nat
         /\ ledger[c].lost \in Nat
  <1>1. MaxFaults \in Nat
    BY ApiCallsAssumption
  <1>2. CallOK(c) /\ Shape(c) /\ Asked(c) /\ Paid(c) /\ Heard(c) /\ Made(c) /\ Keyed(c)
    BY DEF IInv, CallOK
  <1> QED
    BY <1>1, <1>2 DEF IInv, StoreInv, Shape

LEMMA WireIsFinite ==
  ASSUME IInv, NEW c \in Calls
  PROVE  /\ IsFiniteSet(wire[c]) /\ Cardinality(wire[c]) \in Nat
         /\ \A n \in wire[c] : /\ Cardinality(wire[c] \ {n}) = Cardinality(wire[c]) - 1
                               /\ Cardinality(wire[c]) > 0
         /\ \A n \in Nat \ wire[c] :
              Cardinality(wire[c] \cup {n}) = Cardinality(wire[c]) + 1
  <1>1. IsFiniteSet(1 .. attempt[c])
    <2>1. 1 \in Int /\ attempt[c] \in Int
      BY Facts
    <2> QED
      BY <2>1, FS_Interval
  <1>2. IsFiniteSet(wire[c])
    BY <1>1, Facts, FS_Subset
  <1>3. Cardinality(wire[c]) \in Nat
    BY <1>2, FS_CardinalityType
  <1>4. ASSUME NEW n \in wire[c]
        PROVE  Cardinality(wire[c] \ {n}) = Cardinality(wire[c]) - 1 /\ Cardinality(wire[c]) > 0
    <2>1. wire[c] # {}
      OBVIOUS
    <2>2. Cardinality(wire[c]) # 0
      BY <1>2, <2>1, FS_EmptySet
    <2>3. Cardinality(wire[c] \ {n}) = Cardinality(wire[c]) - 1
      BY <1>2, FS_RemoveElement
    <2> QED
      BY <1>3, <2>2, <2>3
  <1>5. ASSUME NEW n \in Nat \ wire[c]
        PROVE  Cardinality(wire[c] \cup {n}) = Cardinality(wire[c]) + 1
    BY <1>2, FS_AddElement
  <1> QED
    BY <1>2, <1>3, <1>4, <1>5

(* What the server does for one call leaves the others as they are, and their
   keys where they were. *)
Same(c) ==
  /\ input'[c] = input[c] /\ sent'[c] = sent[c] /\ phase'[c] = phase[c]
  /\ attempt'[c] = attempt[c] /\ wire'[c] = wire[c] /\ answer'[c] = answer[c]
  /\ result'[c] = result[c] /\ ledger'[c] = ledger[c]

LEMMA SameCall ==
  ASSUME IInv, NEW c \in Calls, Same(c), KeepsKey(store, store')
  PROVE  CallOK(c)'
  <1>1. Shape(c)' /\ Asked(c)'
    BY Facts DEF Same, Shape, Asked
  <1>2. Success(c)' <=> Success(c)
    BY DEF Same, Success
  <1>3. Paid(c)'
    BY Facts DEF Same, Paid, Effects, Retryable
  <1>4. Heard(c)' /\ Made(c)'
    BY <1>2, Facts DEF Same, Heard, Made
  <1>5. Keyed(c)'
    BY <1>2, Facts DEF Same, Keyed, KeepsKey
  <1> QED
    BY <1>1, <1>3, <1>4, <1>5 DEF CallOK

LEMMA StepIInv ==
  ASSUME IInv, NEW c \in Calls, Tables', StoreInv', KeepsKey(store, store'),
         phase' \in [Calls -> {"new", "waiting", "answered", "failed", "done"}],
         attempt' \in [Calls -> Nat], faults' \in 0 .. MaxFaults,
         \A d \in Calls \ {c} : Same(d), CallOK(c)'
  PROVE  IInv'
  <1>1. ASSUME NEW d \in Calls PROVE CallOK(d)'
    BY SameCall
  <1> QED
    BY <1>1 DEF IInv

(* A store that did not change. *)
LEMMA SameStore ==
  ASSUME IInv, store' = store
  PROVE  StoreInv' /\ KeepsKey(store, store')
  BY DEF IInv, StoreInv, StoreOK, KeyOnce, WithKey, KeepsKey

-----------------------------------------------------------------------------
(* The server serves a request.                                            *)

Hears(c, n, status, data) ==
  IF phase[c] = "waiting" /\ attempt[c] = n
  THEN phase'[c] = "answered" /\ answer'[c] = [status |-> status, data |-> data]
  ELSE phase'[c] = phase[c] /\ answer'[c] = answer[c]

(* The answer to the latest request is the caller's; that of an earlier one
   is one that was lost. *)
LEMMA ServedCall ==
  ASSUME IInv, NEW c \in Calls, NEW n \in wire[c], NEW status \in Int, NEW data, NEW S,
         NEW ap \in {ledger[c].applied, ledger[c].applied + 1},
         NEW lo \in {ledger[c].lost, ledger[c].lost + 1},
         wire'[c] = wire[c] \ {n}, Hears(c, n, status, data),
         ledger'[c] = [served |-> S, applied |-> ap, lost |-> lo],
         input'[c] = input[c], sent'[c] = sent[c], attempt'[c] = attempt[c],
         result'[c] = result[c],
         ap # ledger[c].applied => status \in 200 .. 299 \/ lo # ledger[c].lost,
         status \in 200 .. 299 /\ Writes(input[c]) =>
           ap > 0 \/ (input[c].op = "create_job" /\ input[c].key # Absent),
         status \in 200 .. 299 /\ input[c].op = "create_job" /\ input[c].key = "k" =>
           \E m \in WithKey("k", store') : WithKey("k", store') = {m} /\ data = JobIds[m],
         KeepsKey(store, store')
  PROVE  CallOK(c)'
  <1>1. /\ ledger'[c].applied = ap /\ ledger'[c].lost = lo
        /\ lo \in Nat /\ (lo = ledger[c].lost \/ lo = ledger[c].lost + 1)
        /\ ap \in Nat /\ ap <= ledger[c].applied + 1 /\ ap >= ledger[c].applied
        /\ attempt[c] \in Nat /\ attempt[c] # 0 /\ n \in 1 .. attempt[c]
        /\ ledger[c].applied \in Nat /\ ledger[c].lost \in Nat
    BY Facts
  <1>2. phase[c] # "new"
    BY <1>1, Facts DEF Asked
  <1>3. Shape(c)'
    <2>1. wire'[c] \subseteq 1 .. attempt[c]
      BY Facts
    <2>2. (answer'[c] # Absent) => phase'[c] \in {"answered", "done"}
      BY Facts DEF Hears, Shape
    <2>3. (result'[c] # Absent) => phase'[c] = "done"
      BY Facts DEF Hears, Shape
    <2>4. phase'[c] # "new" => attempt[c] <= input[c].attempts
      BY <1>2, Facts DEF Shape
    <2>5. /\ ledger'[c] = [served |-> ledger'[c].served, applied |-> ledger'[c].applied,
                           lost |-> ledger'[c].lost]
      OBVIOUS
    <2> QED
      BY <1>1, <2>1, <2>2, <2>3, <2>4, <2>5 DEF Shape
  <1>4. Asked(c)'
    BY <1>1, <1>2, Facts DEF Asked, Hears
  <1>5. Cardinality(wire'[c]) = Cardinality(wire[c]) - 1 /\ Cardinality(wire[c]) \in Nat
    BY WireIsFinite
  <1>6. Effects(c)' <= Effects(c) /\ Effects(c)' \in Int /\ Effects(c) \in Int
        /\ (ap = ledger[c].applied => Effects(c)' <= Effects(c) - 1)
    BY <1>1, <1>5 DEF Effects
  <1>7. Effects(c) <= 1 + ledger[c].lost /\ (Retryable(c) => Effects(c) <= ledger[c].lost)
        /\ (input[c].attempts = 1 => Effects(c) <= 1)
    BY <1>2, Facts DEF Paid
  <1>8. CASE phase[c] = "waiting" /\ attempt[c] = n
    <2>1. phase'[c] = "answered" /\ answer'[c].status = status /\ answer'[c].data = data
      BY <1>8 DEF Hears
    <2>2. Success(c)' <=> status \in 200 .. 299
      BY <2>1 DEF Success
    <2>3. Retryable(c)' => ap = ledger[c].applied \/ lo = ledger[c].lost + 1
      BY <1>1, <2>1 DEF Retryable
    <2>4. Paid(c)'
      BY <1>1, <1>6, <1>7, <2>3 DEF Paid
    <2>5. ~ Success(c)
      BY <1>8 DEF Success
    <2>6. ledger[c].lost = 0 => wire[c] = {n} /\ ledger[c].applied = 0
      BY <1>1, <1>8, <2>5, Facts DEF Heard
    <2>7. Heard(c)'
      BY <1>1, <2>2, <2>6 DEF Heard
    <2>8. Made(c)'
      BY <1>1, <2>2 DEF Made
    <2>9. Keyed(c)'
      BY <2>1, <2>2 DEF Keyed
    <2> QED
      BY <1>3, <1>4, <2>4, <2>7, <2>8, <2>9 DEF CallOK
  <1>9. CASE ~ (phase[c] = "waiting" /\ attempt[c] = n)
    <2>1. phase'[c] = phase[c] /\ answer'[c] = answer[c]
      BY <1>9 DEF Hears
    <2>2. Success(c)' <=> Success(c)
      BY <2>1 DEF Success
    <2>3. Retryable(c)' <=> Retryable(c)
      BY <2>1 DEF Retryable
    <2>4. Paid(c)'
      BY <1>1, <1>6, <1>7, <2>3 DEF Paid
    <2>5. ledger[c].lost # 0
      BY <1>9, Facts DEF Heard
    <2>6. Heard(c)'
      BY <1>1, <2>5 DEF Heard
    <2>7. Made(c)'
      BY <1>1, <2>2, Facts DEF Made
    <2>8. Keyed(c)'
      BY <2>1, <2>2, Facts DEF Keyed, KeepsKey
    <2> QED
      BY <1>3, <1>4, <2>4, <2>6, <2>7, <2>8 DEF CallOK
  <1> QED
    BY <1>8, <1>9

LEMMA TableStep ==
  ASSUME NEW f, f = [x \in Calls |-> f[x]], NEW c \in Calls, NEW y, NEW g,
         g = [f EXCEPT ![c] = y]
  PROVE  /\ g = [x \in Calls |-> g[x]] /\ g[c] = y
         /\ \A d \in Calls \ {c} : g[d] = f[d]
  OBVIOUS

LEMMA DeliverIs ==
  ASSUME IInv, NEW c \in Calls, NEW n, NEW status, NEW data, Deliver(c, n, status, data)
  PROVE  /\ Hears(c, n, status, data)
         /\ phase' \in [Calls -> {"new", "waiting", "answered", "failed", "done"}]
         /\ answer' = [x \in Calls |-> answer'[x]]
         /\ \A d \in Calls \ {c} : phase'[d] = phase[d] /\ answer'[d] = answer[d]
  <1>1. CASE phase[c] = "waiting" /\ attempt[c] = n
    <2>1. PICK y : y = [status |-> status, data |-> data]
      OBVIOUS
    <2>2. phase' = [phase EXCEPT ![c] = "answered"] /\ answer' = [answer EXCEPT ![c] = y]
      BY <1>1, <2>1 DEF Deliver
    <2>3. phase' \in [Calls -> {"new", "waiting", "answered", "failed", "done"}]
          /\ phase'[c] = "answered" /\ \A d \in Calls \ {c} : phase'[d] = phase[d]
      BY <2>2 DEF IInv
    <2>4. /\ answer' = [x \in Calls |-> answer'[x]] /\ answer'[c] = y
          /\ \A d \in Calls \ {c} : answer'[d] = answer[d]
      BY <2>2, TableStep DEF IInv, Tables
    <2> QED
      BY <1>1, <2>1, <2>3, <2>4 DEF Hears
  <1>2. CASE ~ (phase[c] = "waiting" /\ attempt[c] = n)
    <2>1. phase' = phase /\ answer' = answer
      BY <1>2 DEF Deliver
    <2> QED
      BY <1>2, <2>1 DEF Hears, IInv, Tables
  <1> QED
    BY <1>1, <1>2

(* Everything but the caller's phase and answer, the wire, the ledger and the
   store. *)
Still == input' = input /\ sent' = sent /\ attempt' = attempt /\ result' = result

(* A request is served: the call it is of, the other calls, the tables. *)
LEMMA ServedIInv ==
  ASSUME IInv, NEW c \in Calls, NEW n \in wire[c], NEW status \in Int, NEW data, NEW S,
         NEW ap \in {ledger[c].applied, ledger[c].applied + 1},
         NEW lo \in {ledger[c].lost, ledger[c].lost + 1},
         wire' = [wire EXCEPT ![c] = wire[c] \ {n}], Deliver(c, n, status, data),
         ledger' = [ledger EXCEPT ![c] =
                      [served |-> S, applied |-> ap, lost |-> lo]],
         Still, faults' \in 0 .. MaxFaults, StoreInv', KeepsKey(store, store'),
         ap # ledger[c].applied => status \in 200 .. 299 \/ lo # ledger[c].lost,
         status \in 200 .. 299 /\ Writes(input[c]) =>
           ap > 0 \/ (input[c].op = "create_job" /\ input[c].key # Absent),
         status \in 200 .. 299 /\ input[c].op = "create_job" /\ input[c].key = "k" =>
           \E m \in WithKey("k", store') : WithKey("k", store') = {m} /\ data = JobIds[m]
  PROVE  IInv'
  <1>1. /\ Hears(c, n, status, data)
        /\ phase' \in [Calls -> {"new", "waiting", "answered", "failed", "done"}]
        /\ answer' = [x \in Calls |-> answer'[x]]
        /\ \A d \in Calls \ {c} : phase'[d] = phase[d] /\ answer'[d] = answer[d]
    BY DeliverIs
  <1>2. /\ wire' = [x \in Calls |-> wire'[x]] /\ wire'[c] = wire[c] \ {n}
        /\ \A d \in Calls \ {c} : wire'[d] = wire[d]
    BY TableStep, Facts DEF Tables
  <1>3. PICK y : y = [served |-> S, applied |-> ap, lost |-> lo]
    OBVIOUS
  <1>4. /\ ledger' = [x \in Calls |-> ledger'[x]] /\ ledger'[c] = y
        /\ \A d \in Calls \ {c} : ledger'[d] = ledger[d]
    <2>1. ledger' = [ledger EXCEPT ![c] = y]
      BY <1>3
    <2> QED
      BY <2>1, TableStep, Facts DEF Tables
  <1>5. Tables' /\ attempt' \in [Calls -> Nat]
    BY <1>1, <1>2, <1>4, Facts DEF Tables, Still, IInv
  <1>6. \A d \in Calls \ {c} : Same(d)
    BY <1>1, <1>2, <1>4 DEF Same, Still
  <1>7. /\ input'[c] = input[c] /\ sent'[c] = sent[c] /\ attempt'[c] = attempt[c]
        /\ result'[c] = result[c]
    BY DEF Still
  <1>8. CallOK(c)'
    BY <1>1, <1>2, <1>3, <1>4, <1>7, ServedCall, ZenonT(60)
  <1> QED
    BY <1>1, <1>5, <1>6, <1>8, StepIInv

(* What is on the wire has arguments, and goes where its operation says. *)
LEMMA OnTheWire ==
  ASSUME IInv, NEW c \in Calls, NEW n \in wire[c]
  PROVE  /\ Given(input[c]) /\ phase[c] # "new"
         /\ input[c].key # Absent => input[c].op = "create_job"
         /\ sent[c].method = OpOf(input[c]).request.method
         /\ input[c].op = "create_job" => sent[c].method = "POST" /\ sent[c].path = <<"jobs">>
         /\ Writes(input[c]) => sent[c].method # "GET"
  <1>1. attempt[c] # 0 /\ phase[c] # "new"
    BY Facts DEF Asked
  <1>2. /\ OpOf(input[c]) \in OperationsOf(input[c].client)
        /\ input[c] \in Arguments(input[c].client, OpOf(input[c]))
        /\ sent[c].method = OpOf(input[c]).request.method
        /\ sent[c].path = PathOf(input[c].client, OpOf(input[c]), input[c].label)
    BY <1>1, Facts DEF Asked
  <1>3. /\ Given(input[c]) /\ input[c].op = OpOf(input[c]).name
        /\ input[c].key # Absent => input[c].op = "create_job"
    BY <1>2, ArgumentsAre
  <1>4. input[c].op = "create_job" => sent[c].method = "POST" /\ sent[c].path = <<"jobs">>
    BY <1>2, <1>3, CreateJobPath
  <1> QED
    BY <1>1, <1>2, <1>3, <1>4 DEF Writes

LEMMA ServeIInv ==
  ASSUME IInv, NEW c \in Calls, NEW n \in wire[c], Serve(c, n)
  PROVE  IInv'
  <1>1. PICK a : /\ a = Answer(input[c], sent[c], store)
                 /\ Len(a.reply.store.jobs) <= Len(JobIds) /\ ServeAs(c, n, a)
    BY DEF Serve
  <1>2. /\ Sound(a.reply, store)
        /\ sent[c].method = "POST" /\ sent[c].path = <<"jobs">> /\ input[c].key = "k"
             /\ a.reply.status \in {200, 201, 204} => NamesKey(a.reply)
        /\ sent[c].method # "GET" /\ input[c].key = Absent
             /\ a.reply.status \in {200, 201, 204} =>
             /\ a.handler # Absent /\ IsWrite(a.handler)
             /\ a.reply.store # store \/ a.handler[2] = "update"
    BY <1>1, AnswerSound, OnTheWire, Facts, SMTT(40)
  <1>3. /\ a.reply.status \in Int
        /\ a.reply.status \in 200 .. 299 => a.reply.status \in {200, 201, 204}
    BY <1>2 DEF Sound
  <1>4. /\ wire' = [wire EXCEPT ![c] = wire[c] \ {n}] /\ store' = a.reply.store
        /\ Deliver(c, n, a.reply.status, a.reply.data) /\ Still /\ faults' = faults
    BY <1>1 DEF ServeAs, Still
  <1>5. StoreInv' /\ KeepsKey(store, store')
    <2>1. StoreOK(a.reply.store) /\ KeepsKey(store, a.reply.store) /\ KeyOnce(a.reply.store)
      BY <1>2, Facts DEF Sound
    <2>2. store' = a.reply.store /\ Len(a.reply.store.jobs) <= Len(JobIds)
      BY <1>1, <1>4
    <2>3. StoreOK(store') /\ KeepsKey(store, store') /\ KeyOnce(store')
      BY <2>1, <2>2, Zenon
    <2> QED
      BY <2>2, <2>3, Zenon DEF StoreInv
  <1> DEFINE S == IF a.handler = Absent THEN ledger[c].served
                  ELSE ledger[c].served \cup {[handler |-> a.handler, target |-> a.target]}
             ap == IF TookEffect(a) THEN ledger[c].applied + 1 ELSE ledger[c].applied
  <1>6. ledger' = [ledger EXCEPT ![c] = [served |-> S, applied |-> ap, lost |-> ledger[c].lost]]
    BY <1>1 DEF ServeAs
  <1>7. ap \in {ledger[c].applied, ledger[c].applied + 1}
        /\ (TookEffect(a) => ap = ledger[c].applied + 1)
        /\ (~ TookEffect(a) => ap = ledger[c].applied)
    OBVIOUS
  <1> HIDE DEF S, ap
  <1>8. ap \in {ledger[c].applied, ledger[c].applied + 1}
        /\ (ap # ledger[c].applied => a.reply.status \in 200 .. 299)
    BY <1>7 DEF TookEffect
  <1>9. a.reply.status \in 200 .. 299 /\ Writes(input[c]) =>
          ap > 0 \/ (input[c].op = "create_job" /\ input[c].key # Absent)
    <2> SUFFICES ASSUME a.reply.status \in 200 .. 299, Writes(input[c]), input[c].key = Absent
                 PROVE  ap > 0
      BY OnTheWire
    <2>1. TookEffect(a)
      BY <1>2, <1>3, OnTheWire DEF TookEffect
    <2> QED
      BY <1>7, <2>1, Facts
  <1>10. a.reply.status \in 200 .. 299 /\ input[c].op = "create_job" /\ input[c].key = "k" =>
           \E m \in WithKey("k", store') : WithKey("k", store') = {m} /\ a.reply.data = JobIds[m]
    <2> SUFFICES ASSUME a.reply.status \in 200 .. 299, input[c].op = "create_job",
                        input[c].key = "k"
                 PROVE  \E m \in WithKey("k", store') :
                          WithKey("k", store') = {m} /\ a.reply.data = JobIds[m]
      OBVIOUS
    <2>1. NamesKey(a.reply)
      BY <1>2, <1>3, OnTheWire
    <2>2. PICK m : WithKey("k", a.reply.store) = {m} /\ a.reply.data = JobIds[m]
      BY <2>1 DEF NamesKey
    <2> QED
      BY <1>4, <2>2
  <1>11. faults' \in 0 .. MaxFaults
    BY <1>4 DEF IInv
  <1>12. PICK status, data, served, applied :
           /\ status = a.reply.status /\ data = a.reply.data /\ served = S /\ applied = ap
    OBVIOUS
  <1>13. /\ status \in Int /\ Deliver(c, n, status, data)
         /\ applied \in {ledger[c].applied, ledger[c].applied + 1}
         /\ applied # ledger[c].applied => status \in 200 .. 299
         /\ status \in 200 .. 299 /\ Writes(input[c]) =>
              applied > 0 \/ (input[c].op = "create_job" /\ input[c].key # Absent)
    BY <1>3, <1>4, <1>8, <1>9, <1>12
  <1>14. ledger' = [ledger EXCEPT ![c] =
                      [served |-> served, applied |-> applied, lost |-> ledger[c].lost]]
    BY <1>6, <1>12
  <1>15. status \in 200 .. 299 /\ input[c].op = "create_job" /\ input[c].key = "k" =>
           \E m \in WithKey("k", store') : WithKey("k", store') = {m} /\ data = JobIds[m]
    BY <1>10, <1>12
  <1>16. wire' = [wire EXCEPT ![c] = wire[c] \ {n}] /\ Still
    BY <1>4
  <1> QED
    BY <1>5, <1>11, <1>13, <1>14, <1>15, <1>16, ServedIInv

LEMMA ServeRacedIInv ==
  ASSUME IInv, NEW c \in Calls, NEW n \in wire[c], ServeRaced(c, n)
  PROVE  IInv'
  <1>1. PICK a : /\ wire' = [wire EXCEPT ![c] = wire[c] \ {n}]
                 /\ Deliver(c, n, IF input[c].trigger = "DELAYED" THEN 500 ELSE 409, Absent)
                 /\ ledger' = [ledger EXCEPT ![c].served =
                                 @ \cup {[handler |-> a.handler, target |-> a.target]}]
                 /\ UNCHANGED <<input, sent, attempt, result, store, faults>>
    BY DEF ServeRaced
  <1>2. PICK S : S = ledger[c].served \cup {[handler |-> a.handler, target |-> a.target]}
    OBVIOUS
  <1>3. ledger' = [ledger EXCEPT ![c] =
                     [served |-> S, applied |-> ledger[c].applied, lost |-> ledger[c].lost]]
    <2>1. PICK l : l = ledger[c]
      OBVIOUS
    <2>2. l = [served |-> l.served, applied |-> l.applied, lost |-> l.lost]
      BY <2>1, Facts DEF Shape
    <2>3. [l EXCEPT !.served = S] = [served |-> S, applied |-> l.applied, lost |-> l.lost]
      BY <2>2
    <2>4. ledger' = [ledger EXCEPT ![c] = [l EXCEPT !.served = S]]
      BY <1>1, <1>2, <2>1, Facts DEF Tables
    <2> QED
      BY <2>1, <2>3, <2>4
  <1>4. Still /\ faults' \in 0 .. MaxFaults /\ StoreInv' /\ KeepsKey(store, store')
    BY <1>1, SameStore DEF Still, IInv
  <1>5. PICK status \in {409, 500} : Deliver(c, n, status, Absent)
    BY <1>1
  <1>6. status \in Int /\ status \notin 200 .. 299
    OBVIOUS
  <1>7. wire' = [wire EXCEPT ![c] = wire[c] \ {n}]
    BY <1>1
  <1> QED
    BY <1>3, <1>4, <1>5, <1>6, <1>7, ServedIInv, ZenonT(60)

LEMMA ServeErrorIInv ==
  ASSUME IInv, NEW c \in Calls, NEW n \in wire[c], ServeError(c, n)
  PROVE  IInv'
  <1>1. /\ wire' = [wire EXCEPT ![c] = wire[c] \ {n}]
        /\ Deliver(c, n, 500, Absent) /\ faults < MaxFaults /\ faults' = faults + 1
        /\ UNCHANGED <<input, sent, attempt, result, store, ledger>>
    BY DEF ServeError
  <1>2. ledger' = [ledger EXCEPT ![c] = [served |-> ledger[c].served,
                     applied |-> ledger[c].applied, lost |-> ledger[c].lost]]
    <2>1. ledger = [ledger EXCEPT ![c] = ledger[c]]
      BY Facts DEF Tables
    <2> QED
      BY <1>1, <2>1, Facts DEF Shape
  <1>3. Still /\ faults' \in 0 .. MaxFaults /\ StoreInv' /\ KeepsKey(store, store')
    BY <1>1, SameStore, Facts DEF Still, IInv
  <1>4. 500 \in Int /\ 500 \notin 200 .. 299
    OBVIOUS
  <1> QED
    BY <1>1, <1>2, <1>3, <1>4, ServedIInv, ZenonT(60)

LEMMA ServeUnacknowledgedIInv ==
  ASSUME IInv, NEW c \in Calls, NEW n \in wire[c], ServeUnacknowledged(c, n)
  PROVE  IInv'
  <1>1. PICK a : /\ a = Answer(input[c], sent[c], store)
                 /\ Len(a.reply.store.jobs) <= Len(JobIds) /\ faults < MaxFaults
                 /\ wire' = [wire EXCEPT ![c] = wire[c] \ {n}]
                 /\ store' = a.reply.store /\ Deliver(c, n, 500, Absent)
                 /\ ledger' = [ledger EXCEPT ![c] =
                      [served |-> ledger[c].served
                                    \cup {[handler |-> a.handler, target |-> a.target]},
                       applied |-> ledger[c].applied + 1, lost |-> ledger[c].lost + 1]]
                 /\ faults' = faults + 1 /\ UNCHANGED <<input, sent, attempt, result>>
    BY DEF ServeUnacknowledged
  <1>2. PICK S, ap, lo :
          /\ S = ledger[c].served \cup {[handler |-> a.handler, target |-> a.target]}
          /\ ap = ledger[c].applied + 1 /\ lo = ledger[c].lost + 1
    OBVIOUS
  <1>3. ledger' = [ledger EXCEPT ![c] = [served |-> S, applied |-> ap, lost |-> lo]]
    BY <1>1, <1>2
  <1>4. ap # ledger[c].applied /\ lo # ledger[c].lost
    BY <1>2, Facts
  <1>5. Sound(a.reply, store)
    BY <1>1, AnswerSound, OnTheWire, Facts, SMTT(40)
  <1>6. StoreInv' /\ KeepsKey(store, store')
    <2>1. StoreOK(a.reply.store) /\ KeepsKey(store, a.reply.store) /\ KeyOnce(a.reply.store)
      BY <1>5, Facts DEF Sound
    <2>2. StoreOK(store') /\ KeepsKey(store, store') /\ KeyOnce(store')
      BY <1>1, <2>1, Zenon
    <2> QED
      BY <1>1, <2>2, Zenon DEF StoreInv
  <1>7. Still /\ faults' \in 0 .. MaxFaults
    BY <1>1, Facts DEF Still, IInv
  <1>8. 500 \in Int /\ 500 \notin 200 .. 299
    OBVIOUS
  <1> QED
    BY <1>1, <1>2, <1>3, <1>4, <1>6, <1>7, <1>8, ServedIInv, ZenonT(60)

-----------------------------------------------------------------------------
(* The network and the client.                                             *)

(* Only what a table says of one call has changed. *)
Row(f, g, c) == g = [x \in Calls |-> g[x]] /\ \A d \in Calls \ {c} : g[d] = f[d]

LEMMA RowStep ==
  ASSUME NEW f, f = [x \in Calls |-> f[x]], NEW c \in Calls, NEW y, NEW g,
         g = [f EXCEPT ![c] = y]
  PROVE  Row(f, g, c) /\ g[c] = y
  BY TableStep DEF Row

LEMMA RowSame ==
  ASSUME NEW f, f = [x \in Calls |-> f[x]], NEW c \in Calls, NEW g, g = f
  PROVE  Row(f, g, c) /\ g[c] = f[c]
  BY DEF Row

(* A step of one call that leaves the store alone. *)
LEMMA ClientIInv ==
  ASSUME IInv, NEW c \in Calls, store' = store, faults' \in 0 .. MaxFaults,
         phase' \in [Calls -> {"new", "waiting", "answered", "failed", "done"}],
         attempt' \in [Calls -> Nat],
         \A d \in Calls \ {c} : phase'[d] = phase[d] /\ attempt'[d] = attempt[d],
         Row(input, input', c), Row(sent, sent', c), Row(wire, wire', c),
         Row(answer, answer', c), Row(result, result', c), Row(ledger, ledger', c),
         CallOK(c)'
  PROVE  IInv'
  <1>1. Tables' /\ \A d \in Calls \ {c} : Same(d)
    BY DEF Tables, Same, Row
  <1> QED
    BY <1>1, SameStore, StepIInv

LEMMA ConnectionLostIInv ==
  ASSUME IInv, NEW c \in Calls, ConnectionLost(c)
  PROVE  IInv'
  <1>1. /\ phase[c] = "waiting" /\ attempt[c] \in wire[c] /\ faults < MaxFaults
        /\ wire' = [wire EXCEPT ![c] = wire[c] \ {attempt[c]}]
        /\ phase' = [phase EXCEPT ![c] = "failed"] /\ faults' = faults + 1
        /\ UNCHANGED <<input, sent, attempt, answer, result, store, ledger>>
    BY DEF ConnectionLost
  <1>2. ASSUME wire'[c] = wire[c] \ {attempt[c]}, phase'[c] = "failed"
        PROVE  CallOK(c)'
    <2>1. Shape(c)' /\ Asked(c)'
      BY <1>1, <1>2, Facts DEF Shape, Asked
    <2>2. ~ Success(c) /\ ~ Success(c)' /\ ~ Retryable(c)
      BY <1>1, <1>2 DEF Success, Retryable
    <2>3. Cardinality(wire'[c]) = Cardinality(wire[c]) - 1 /\ Cardinality(wire[c]) \in Nat
      BY <1>1, <1>2, WireIsFinite
    <2>4. Paid(c)'
      BY <1>1, <1>2, <2>3, Facts DEF Paid, Effects
    <2>5. Heard(c)'
      BY <1>1, <1>2, <2>2, Facts DEF Heard
    <2>6. Made(c)' /\ Keyed(c)'
      BY <2>2 DEF Made, Keyed
    <2> QED
      BY <2>1, <2>4, <2>5, <2>6 DEF CallOK
  <1>3. faults' \in 0 .. MaxFaults
    BY <1>1, Facts
  <1>4. Row(wire, wire', c) /\ wire'[c] = wire[c] \ {attempt[c]}
    BY <1>1, RowStep, Facts DEF Tables
  <1>5. /\ phase' \in [Calls -> {"new", "waiting", "answered", "failed", "done"}]
        /\ attempt' \in [Calls -> Nat] /\ phase'[c] = "failed"
        /\ \A d \in Calls \ {c} : phase'[d] = phase[d] /\ attempt'[d] = attempt[d]
    BY <1>1 DEF IInv
  <1>6. /\ Row(input, input', c) /\ Row(sent, sent', c) /\ Row(answer, answer', c)
        /\ Row(result, result', c) /\ Row(ledger, ledger', c) /\ store' = store
    BY <1>1, RowSame, Facts DEF Tables
  <1>7. CallOK(c)'
    BY <1>2, <1>4, <1>5
  <1> QED
    BY <1>3, <1>4, <1>5, <1>6, <1>7, ClientIInv

LEMMA AnswerLostIInv ==
  ASSUME IInv, NEW c \in Calls, AnswerLost(c)
  PROVE  IInv'
  <1>1. /\ phase[c] = "waiting" /\ attempt[c] \in wire[c] /\ faults < MaxFaults
        /\ ledger' = [ledger EXCEPT ![c].lost = @ + 1]
        /\ phase' = [phase EXCEPT ![c] = "failed"] /\ faults' = faults + 1
        /\ UNCHANGED <<input, sent, attempt, wire, answer, result, store>>
    BY DEF AnswerLost
  <1>2. PICK l : l = [served |-> ledger[c].served, applied |-> ledger[c].applied,
                      lost |-> ledger[c].lost + 1]
    OBVIOUS
  <1>3. ledger' = [ledger EXCEPT ![c] = l]
    <2>1. PICK k : k = ledger[c]
      OBVIOUS
    <2>2. k = [served |-> k.served, applied |-> k.applied, lost |-> k.lost]
      BY <2>1, Facts DEF Shape
    <2>3. [k EXCEPT !.lost = k.lost + 1] = l
      BY <1>2, <2>1, <2>2
    <2>4. ledger' = [ledger EXCEPT ![c] = [k EXCEPT !.lost = k.lost + 1]]
      BY <1>1, <2>1, Facts DEF Tables
    <2> QED
      BY <2>3, <2>4
  <1>4. ASSUME ledger'[c] = l, phase'[c] = "failed"
        PROVE  CallOK(c)'
    <2>1. /\ ledger'[c].applied = ledger[c].applied /\ ledger'[c].lost = ledger[c].lost + 1
          /\ ledger'[c] = [served |-> ledger'[c].served, applied |-> ledger'[c].applied,
                           lost |-> ledger'[c].lost]
      BY <1>2, <1>4
    <2>2. Shape(c)'
      <3>1. answer[c] = Absent /\ result[c] = Absent
        BY <1>1, Facts DEF Shape
      <3>2. ledger'[c].applied \in Nat /\ ledger'[c].lost \in Nat
        <4>1. ledger[c].applied \in Nat /\ ledger[c].lost \in Nat
          BY Facts
        <4> QED
          BY <2>1, <4>1
      <3>3. wire[c] \subseteq 1 .. attempt[c]
        BY Facts
      <3>4. attempt[c] <= input[c].attempts
        BY <1>1, Facts DEF Shape
      <3> QED
        BY <1>1, <1>4, <2>1, <3>1, <3>2, <3>3, <3>4 DEF Shape
    <2>3. Asked(c)'
      BY <1>1, <1>4, Facts DEF Asked
    <2>4. ~ Success(c)'
      BY <1>4 DEF Success
    <2>5. Cardinality(wire[c]) \in Nat
      BY WireIsFinite
    <2>6. Paid(c)'
      BY <1>1, <1>4, <2>1, <2>5, Facts DEF Paid, Effects
    <2>7. Heard(c)'
      BY <2>1, Facts DEF Heard
    <2>8. Made(c)' /\ Keyed(c)'
      BY <2>4 DEF Made, Keyed
    <2> QED
      BY <2>2, <2>3, <2>6, <2>7, <2>8 DEF CallOK
  <1>5. faults' \in 0 .. MaxFaults
    BY <1>1, Facts
  <1>6. Row(ledger, ledger', c) /\ ledger'[c] = l
    BY <1>3, RowStep, Facts DEF Tables
  <1>7. /\ phase' \in [Calls -> {"new", "waiting", "answered", "failed", "done"}]
        /\ attempt' \in [Calls -> Nat] /\ phase'[c] = "failed"
        /\ \A d \in Calls \ {c} : phase'[d] = phase[d] /\ attempt'[d] = attempt[d]
    BY <1>1 DEF IInv
  <1>8. /\ Row(input, input', c) /\ Row(sent, sent', c) /\ Row(answer, answer', c)
        /\ Row(result, result', c) /\ Row(wire, wire', c) /\ store' = store
    BY <1>1, RowSame, Facts DEF Tables
  <1>9. CallOK(c)'
    BY <1>4, <1>6, <1>7
  <1> QED
    BY <1>5, <1>6, <1>7, <1>8, <1>9, ClientIInv

LEMMA RetryIInv ==
  ASSUME IInv, NEW c \in Calls, Retry(c)
  PROVE  IInv'
  <1>1. /\ Retryable(c) /\ attempt[c] < input[c].attempts
        /\ attempt' = [attempt EXCEPT ![c] = attempt[c] + 1]
        /\ wire' = [wire EXCEPT ![c] = wire[c] \cup {attempt[c] + 1}]
        /\ phase' = [phase EXCEPT ![c] = "waiting"]
        /\ answer' = [answer EXCEPT ![c] = Absent]
        /\ UNCHANGED <<input, sent, result, store, faults, ledger>>
    BY DEF Retry, MayRetry
  <1>2. phase[c] \in {"failed", "answered"} /\ attempt[c] # 0 /\ attempt[c] \in Nat
    BY <1>1, Facts DEF Retryable, Asked
  <1>3. input[c].attempts \in Nat \ {0}
    <2>1. /\ OpOf(input[c]) \in OperationsOf(input[c].client)
          /\ input[c] \in Arguments(input[c].client, OpOf(input[c]))
      BY <1>2, Facts DEF Asked
    <2> QED
      BY <2>1, ArgumentsAre
  <1>4. ~ Success(c)
    BY <1>1 DEF Success, Retryable
  <1>5. ASSUME attempt'[c] = attempt[c] + 1, wire'[c] = wire[c] \cup {attempt[c] + 1},
               phase'[c] = "waiting", answer'[c] = Absent
        PROVE  CallOK(c)'
    <2>1. Shape(c)'
      <3>1. wire'[c] \subseteq 1 .. attempt'[c]
        BY <1>2, <1>5, Facts
      <3>2. attempt'[c] <= input[c].attempts
        BY <1>1, <1>2, <1>3, <1>5
      <3>3. result[c] = Absent
        BY <1>2, Facts DEF Shape
      <3> QED
        BY <1>1, <1>5, <3>1, <3>2, <3>3, Facts DEF Shape
    <2>2. Asked(c)'
      <3>1. attempt'[c] # 0
        BY <1>2, <1>5
      <3> QED
        BY <1>1, <1>2, <1>5, <3>1, Facts DEF Asked
    <2>3. ~ Success(c)' /\ ~ Retryable(c)'
      BY <1>5 DEF Success, Retryable
    <2>4. attempt[c] + 1 \in Nat \ wire[c]
      BY <1>2, Facts
    <2>5. /\ Cardinality(wire'[c]) = Cardinality(wire[c]) + 1 /\ Cardinality(wire[c]) \in Nat
      BY <1>5, <2>4, WireIsFinite
    <2>6. input[c].attempts # 1
      BY <1>1, <1>2, <1>3
    <2>7. Paid(c)'
      BY <1>1, <2>3, <2>5, <2>6, Facts DEF Paid, Effects
    <2>8. Heard(c)'
      <3>1. ledger[c].lost = 0 => wire[c] = {} /\ ~ (ledger[c].applied > 0)
        BY <1>2, <1>4, Facts DEF Heard
      <3>2. ledger[c].lost = 0 => wire'[c] = {attempt'[c]}
        BY <1>5, <3>1
      <3> QED
        BY <1>1, <1>5, <3>1, <3>2 DEF Heard
    <2>9. Made(c)' /\ Keyed(c)'
      BY <2>3 DEF Made, Keyed
    <2> QED
      BY <2>1, <2>2, <2>7, <2>8, <2>9 DEF CallOK
  <1>6. faults' \in 0 .. MaxFaults
    BY <1>1 DEF IInv
  <1>7. attempt[c] + 1 \in Nat
    BY <1>2
  <1>8. Row(wire, wire', c) /\ wire'[c] = wire[c] \cup {attempt[c] + 1}
    BY <1>1, RowStep, Facts DEF Tables
  <1>9. Row(answer, answer', c) /\ answer'[c] = Absent
    BY <1>1, RowStep, Facts DEF Tables
  <1>10. /\ phase' \in [Calls -> {"new", "waiting", "answered", "failed", "done"}]
         /\ phase'[c] = "waiting" /\ \A d \in Calls \ {c} : phase'[d] = phase[d]
    BY <1>1 DEF IInv
  <1>11. /\ attempt' \in [Calls -> Nat] /\ attempt'[c] = attempt[c] + 1
         /\ \A d \in Calls \ {c} : attempt'[d] = attempt[d]
    BY <1>1, <1>7 DEF IInv
  <1>12. /\ Row(input, input', c) /\ Row(sent, sent', c)
         /\ Row(result, result', c) /\ Row(ledger, ledger', c) /\ store' = store
    BY <1>1, RowSame, Facts DEF Tables
  <1>13. CallOK(c)'
    BY <1>5, <1>8, <1>9, <1>10, <1>11
  <1> QED
    BY <1>6, <1>8, <1>9, <1>10, <1>11, <1>12, <1>13, ClientIInv

LEMMA ResultIs ==
  ASSUME IInv, NEW c \in Calls, phase[c] \in {"answered", "failed"}
  PROVE  /\ ResultOf(c).outcome = "Ok" <=> Success(c)
         /\ Success(c) => ResultOf(c).data = DataOf(input[c], answer[c].data)
  <1>1. OpOf(input[c]) \in OperationsOf(input[c].client)
    BY Facts DEF Asked
  <1>2. CASE phase[c] = "failed"
    <2>1. ResultOf(c) = [outcome |-> "DispatchFailure", data |-> Absent]
      BY <1>2 DEF ResultOf
    <2> QED
      BY <1>2, <2>1 DEF Success
  <1>3. CASE phase[c] = "answered" /\ answer[c].status \in 200 .. 299
    <2>1. Succeeds(input[c], answer[c].status)
      BY <1>1, <1>3, SuccessIs2xx
    <2>2. ResultOf(c) = [outcome |-> "Ok", data |-> DataOf(input[c], answer[c].data)]
      BY <1>3, <2>1 DEF ResultOf
    <2> QED
      BY <1>3, <2>2 DEF Success
  <1>4. CASE phase[c] = "answered" /\ answer[c].status \notin 200 .. 299
    <2>1. ~ Succeeds(input[c], answer[c].status)
      BY <1>1, <1>4, SuccessIs2xx
    <2>2. ResultOf(c) = [outcome |-> ErrorOf(input[c], answer[c].status), data |-> Absent]
      BY <1>4, <2>1 DEF ResultOf
    <2>3. ErrorOf(input[c], answer[c].status) \in {Absent, "Unhandled"}
      BY DEF ErrorOf, parse_error_metadata
    <2>4. Absent # "Ok"
      BY ApiCallsAssumption
    <2>5. ResultOf(c).outcome # "Ok"
      BY <2>2, <2>3, <2>4
    <2> QED
      BY <1>4, <2>5 DEF Success
  <1> QED
    BY <1>2, <1>3, <1>4

LEMMA FinishIInv ==
  ASSUME IInv, NEW c \in Calls, Finish(c)
  PROVE  IInv'
  <1>1. /\ phase[c] \in {"answered", "failed"}
        /\ result' = [result EXCEPT ![c] = ResultOf(c)]
        /\ phase' = [phase EXCEPT ![c] = "done"]
        /\ UNCHANGED <<input, sent, attempt, wire, answer, store, faults, ledger>>
    BY DEF Finish
  <1>2. PICK r : r = ResultOf(c)
    OBVIOUS
  <1>3. /\ r.outcome = "Ok" <=> Success(c)
        /\ Success(c) => r.data = DataOf(input[c], answer[c].data)
    BY <1>1, <1>2, ResultIs
  <1>4. Row(result, result', c) /\ result'[c] = r
    BY <1>1, <1>2, RowStep, Facts DEF Tables
  <1>5. /\ phase' \in [Calls -> {"new", "waiting", "answered", "failed", "done"}]
        /\ attempt' \in [Calls -> Nat] /\ phase'[c] = "done"
        /\ \A d \in Calls \ {c} : phase'[d] = phase[d] /\ attempt'[d] = attempt[d]
    BY <1>1 DEF IInv
  <1>6. /\ Row(input, input', c) /\ Row(sent, sent', c) /\ Row(answer, answer', c)
        /\ Row(wire, wire', c) /\ Row(ledger, ledger', c) /\ store' = store
        /\ faults' \in 0 .. MaxFaults
    BY <1>1, RowSame, Facts DEF Tables, IInv
  <1>7. Success(c)' <=> Success(c)
    BY <1>3, <1>4, <1>5 DEF Success
  <1>8. Shape(c)' /\ Asked(c)'
    BY <1>1, <1>5, Facts DEF Shape, Asked
  <1>9. Paid(c)'
    <2>1. ~ Retryable(c)' /\ phase[c] # "new"
      BY <1>1, <1>5 DEF Retryable
    <2> QED
      BY <1>1, <2>1, Facts DEF Paid, Effects
  <1>10. Heard(c)'
    BY <1>1, <1>7, Facts DEF Heard
  <1>11. Made(c)'
    BY <1>1, <1>7, Facts DEF Made
  <1>12. Keyed(c)'
    <2> SUFFICES ASSUME Success(c)
                 PROVE  /\ result'[c].data = DataOf(input[c], answer[c].data)
                        /\ input[c].op = "create_job" /\ input[c].key = "k" =>
                             \E n \in WithKey("k", store) :
                               WithKey("k", store) = {n} /\ answer[c].data = JobIds[n]
      BY <1>1, <1>7 DEF Keyed
    <2> QED
      BY <1>3, <1>4, Facts DEF Keyed
  <1>13. CallOK(c)'
    BY <1>8, <1>9, <1>10, <1>11, <1>12 DEF CallOK
  <1> QED
    BY <1>4, <1>5, <1>6, <1>13, ClientIInv

LEMMA BeginIInv ==
  ASSUME IInv, NEW c \in Calls, NEW in, Begin(c, in)
  PROVE  IInv'
  <1>1. PICK o : o = OpOf(in)
    OBVIOUS
  <1>2. /\ phase[c] = "new" /\ o \in OperationsOf(in.client) /\ in \in Arguments(in.client, o)
        /\ input' = [input EXCEPT ![c] = in]
        /\ UNCHANGED <<answer, store, faults, ledger>>
    BY <1>1 DEF Begin
  <1>3. in.attempts \in Nat \ {0}
    BY <1>2, ArgumentsAre
  <1>4. Row(input, input', c) /\ input'[c] = in
    BY <1>2, RowStep, Facts DEF Tables
  <1>5. /\ Row(answer, answer', c) /\ Row(ledger, ledger', c) /\ store' = store
        /\ faults' \in 0 .. MaxFaults
    BY <1>2, RowSame, Facts DEF Tables, IInv
  <1>6. /\ attempt[c] = 0 /\ ledger[c] = NoLedger /\ answer[c] = Absent /\ result[c] = Absent
    BY <1>2, Facts DEF Asked, Shape
  <1>7. ledger[c].applied = 0 /\ ledger[c].lost = 0
    BY <1>6 DEF NoLedger
  <1>8. wire[c] = {} /\ Cardinality({}) = 0
    <2>1. 1 .. 0 = {}
      OBVIOUS
    <2> QED
      BY <1>6, <2>1, Facts, FS_EmptySet
  <1> DEFINE LedgerIs(l) == /\ l = [served |-> l.served, applied |-> l.applied, lost |-> l.lost]
                            /\ l.applied \in Nat /\ l.lost \in Nat
  <1>9. LedgerIs(ledger'[c])
    <2>1. ledger'[c] = [served |-> {}, applied |-> 0, lost |-> 0]
      BY <1>2, <1>6 DEF NoLedger
    <2> QED
      BY <2>1
  <1>10. CASE Refuses(in.client, o, in.label)
    <2>1. PICK r : r = [outcome |-> "BuildError", data |-> Absent]
      OBVIOUS
    <2>2. /\ phase' = [phase EXCEPT ![c] = "done"] /\ result' = [result EXCEPT ![c] = r]
          /\ UNCHANGED <<sent, attempt, wire>>
      BY <1>1, <1>10, <2>1 DEF Begin
    <2>3. Row(result, result', c) /\ result'[c] = r
      BY <2>2, RowStep, Facts DEF Tables
    <2>4. /\ phase' \in [Calls -> {"new", "waiting", "answered", "failed", "done"}]
          /\ attempt' \in [Calls -> Nat] /\ phase'[c] = "done"
          /\ \A d \in Calls \ {c} : phase'[d] = phase[d] /\ attempt'[d] = attempt[d]
      BY <2>2 DEF IInv
    <2>5. Row(sent, sent', c) /\ Row(wire, wire', c)
      BY <2>2, RowSame, Facts DEF Tables
    <2>6. ~ Success(c)' /\ ~ Retryable(c)'
      BY <2>1, <2>3, <2>4 DEF Success, Retryable
    <2>7. Shape(c)'
      <3>1. attempt'[c] <= input'[c].attempts /\ wire'[c] = {} /\ answer'[c] = Absent
        BY <1>2, <1>3, <1>4, <1>6, <1>8, <2>2
      <3> QED
        BY <1>9, <2>4, <3>1 DEF Shape
    <2>8. Asked(c)'
      BY <1>1, <1>2, <1>4, <1>6, <2>2, <2>4 DEF Asked
    <2>9. Paid(c)'
      <3>1. Effects(c)' = 0 /\ ledger'[c].lost = 0
        BY <1>2, <1>7, <1>8, <2>2 DEF Effects
      <3> QED
        BY <2>6, <3>1 DEF Paid
    <2>10. Heard(c)' /\ Made(c)' /\ Keyed(c)'
      BY <1>2, <1>7, <1>8, <2>2, <2>6 DEF Heard, Made, Keyed
    <2>11. CallOK(c)'
      BY <2>7, <2>8, <2>9, <2>10 DEF CallOK
    <2> QED
      BY <1>4, <1>5, <2>3, <2>4, <2>5, <2>11, ClientIInv
  <1>11. CASE ~ Refuses(in.client, o, in.label)
    <2>1. PICK req : req = [method |-> o.request.method, path |-> PathOf(in.client, o, in.label)]
      OBVIOUS
    <2>2. /\ phase' = [phase EXCEPT ![c] = "waiting"] /\ sent' = [sent EXCEPT ![c] = req]
          /\ attempt' = [attempt EXCEPT ![c] = 1] /\ wire' = [wire EXCEPT ![c] = {1}]
          /\ result' = result
      BY <1>1, <1>11, <2>1 DEF Begin
    <2>3. Row(sent, sent', c) /\ sent'[c] = req
      BY <2>2, RowStep, Facts DEF Tables
    <2>4. Row(wire, wire', c) /\ wire'[c] = {1}
      BY <2>2, RowStep, Facts DEF Tables
    <2>5. Row(result, result', c)
      BY <2>2, RowSame, Facts DEF Tables
    <2>6. /\ phase' \in [Calls -> {"new", "waiting", "answered", "failed", "done"}]
          /\ phase'[c] = "waiting" /\ \A d \in Calls \ {c} : phase'[d] = phase[d]
      BY <2>2 DEF IInv
    <2>7. /\ attempt' \in [Calls -> Nat] /\ attempt'[c] = 1
          /\ \A d \in Calls \ {c} : attempt'[d] = attempt[d]
      BY <2>2 DEF IInv
    <2>8. ~ Success(c)' /\ ~ Retryable(c)'
      BY <2>6 DEF Success, Retryable
    <2>9. Shape(c)'
      <3>1. /\ attempt'[c] <= input'[c].attempts /\ wire'[c] \subseteq 1 .. 1
            /\ answer'[c] = Absent /\ result'[c] = Absent
        BY <1>2, <1>3, <1>4, <1>6, <2>2, <2>4, <2>7
      <3> QED
        BY <1>9, <2>6, <2>7, <3>1 DEF Shape
    <2>10. Asked(c)'
      BY <1>1, <1>2, <1>4, <2>1, <2>3, <2>6, <2>7 DEF Asked
    <2>11. Cardinality({1}) = 1
      BY FS_Singleton
    <2>12. Paid(c)'
      <3>1. Effects(c)' = 1 /\ ledger'[c].lost = 0
        BY <1>2, <1>7, <2>4, <2>11 DEF Effects
      <3> QED
        BY <2>8, <3>1 DEF Paid
    <2>13. Heard(c)'
      BY <1>2, <1>7, <2>4, <2>6, <2>7 DEF Heard
    <2>14. Made(c)' /\ Keyed(c)'
      BY <2>8 DEF Made, Keyed
    <2>15. CallOK(c)'
      BY <2>9, <2>10, <2>12, <2>13, <2>14 DEF CallOK
    <2> QED
      BY <1>4, <1>5, <2>3, <2>4, <2>5, <2>6, <2>7, <2>15, ClientIInv
  <1> QED
    BY <1>10, <1>11

(* A worker ends the execution: no job and no call has changed. *)
LEMMA SettleIInv ==
  ASSUME IInv, Settle
  PROVE  IInv'
  <1>1. PICK t : t = [store EXCEPT !.exec = "SUCCESS"]
    OBVIOUS
  <1>2. /\ store' = t
        /\ UNCHANGED <<input, sent, phase, attempt, wire, answer, result, faults, ledger>>
    BY <1>1 DEF Settle
  <1>3. StoreOK(t) /\ t.jobs = store.jobs
    BY <1>1, ExecIs DEF IInv, StoreInv
  <1>4. KeepsKey(store, t) /\ (KeyOnce(store) => KeyOnce(t))
    BY <1>3, SameJobs
  <1>5. StoreInv' /\ KeepsKey(store, store')
    BY <1>2, <1>3, <1>4 DEF IInv, StoreInv, StoreOK, KeyOnce, WithKey
  <1>6. ASSUME NEW c \in Calls PROVE CallOK(c)'
    BY <1>2, <1>5, SameCall DEF Same
  <1>7. Tables'
    BY <1>2 DEF IInv, Tables
  <1> QED
    BY <1>2, <1>5, <1>6, <1>7 DEF IInv

LEMMA InitIInv == Init => IInv
  <1> SUFFICES ASSUME Init PROVE IInv
    OBVIOUS
  <1>1. PICK j : j = [status |-> "ACTIVE", trigger |-> "CRON", key |-> Absent]
    OBVIOUS
  <1>2. /\ store = [named |-> store.named, used |-> store.used, exec |-> store.exec,
                    jobs |-> store.jobs]
        /\ store.exec = "PENDING" /\ store.jobs = <<j>>
    BY <1>1 DEF Init
  <1>3. j \in Job /\ j.key = Absent
    BY <1>1 DEF Job
  <1>4. <<j>> \in Seq(Job) /\ Len(<<j>>) = 1 /\ DOMAIN <<j>> = {1} /\ <<j>>[1] = j
    BY <1>3
  <1>5. StoreInv
    <2>1. WithKey("k", store) = {}
      <3>1. Absent # "k"
        BY ApiCallsAssumption
      <3> QED
        BY <1>2, <1>3, <1>4, <3>1 DEF WithKey
    <2>2. Len(JobIds) = 5
      BY DEF JobIds
    <2> QED
      BY <1>2, <1>4, <2>1, <2>2 DEF StoreInv, StoreOK, KeyOnce
  <1>6. Tables /\ phase \in [Calls -> {"new", "waiting", "answered", "failed", "done"}]
        /\ attempt \in [Calls -> Nat]
    BY DEF Init, Tables
  <1>7. faults \in 0 .. MaxFaults
    BY ApiCallsAssumption DEF Init
  <1>8. ASSUME NEW c \in Calls PROVE CallOK(c)
    <2>1. /\ phase[c] = "new" /\ attempt[c] = 0 /\ wire[c] = {} /\ answer[c] = Absent
          /\ result[c] = Absent /\ ledger[c] = NoLedger
      BY DEF Init
    <2>2. /\ ledger[c].applied = 0 /\ ledger[c].lost = 0
          /\ ledger[c] = [served |-> ledger[c].served, applied |-> ledger[c].applied,
                          lost |-> ledger[c].lost]
      BY <2>1 DEF NoLedger
    <2>3. ~ Success(c) /\ ~ Retryable(c)
      BY <2>1 DEF Success, Retryable
    <2>4. Shape(c) /\ Asked(c)
      BY <2>1, <2>2 DEF Shape, Asked
    <2>5. Paid(c)
      BY <2>1, <2>2, <2>3, FS_EmptySet DEF Paid, Effects
    <2>6. Heard(c) /\ Made(c) /\ Keyed(c)
      BY <2>1, <2>2, <2>3 DEF Heard, Made, Keyed
    <2> QED
      BY <2>4, <2>5, <2>6 DEF CallOK
  <1> QED
    BY <1>5, <1>6, <1>7, <1>8 DEF IInv

LEMMA NextIInv == IInv /\ [Next]_vars => IInv'
  <1> SUFFICES ASSUME IInv, [Next]_vars PROVE IInv'
    OBVIOUS
  <1>1. CASE Next
    <2>1. ASSUME NEW c \in Calls, NEW in \in Menu(c, input), Begin(c, in) PROVE IInv'
      BY <2>1, BeginIInv
    <2>2. ASSUME NEW c \in Calls, Server(c) PROVE IInv'
      BY <2>2, ServeIInv, ServeRacedIInv, ServeErrorIInv, ServeUnacknowledgedIInv DEF Server
    <2>3. ASSUME NEW c \in Calls, Client(c) PROVE IInv'
      BY <2>3, RetryIInv, FinishIInv DEF Client
    <2>4. ASSUME NEW c \in Calls, ConnectionLost(c) \/ AnswerLost(c) PROVE IInv'
      BY <2>4, ConnectionLostIInv, AnswerLostIInv
    <2> QED
      BY <1>1, <2>1, <2>2, <2>3, <2>4, SettleIInv DEF Next
  <1>2. CASE UNCHANGED vars
    <2>1. /\ input' = input /\ sent' = sent /\ phase' = phase /\ attempt' = attempt
          /\ wire' = wire /\ answer' = answer /\ result' = result /\ store' = store
          /\ faults' = faults /\ ledger' = ledger
      BY <1>2 DEF vars
    <2>2. ASSUME NEW c \in Calls PROVE CallOK(c)'
      BY <2>1, SameStore, SameCall DEF Same
    <2>3. Tables' /\ StoreInv'
      BY <2>1, SameStore DEF IInv, Tables
    <2> QED
      BY <2>1, <2>2, <2>3 DEF IInv
  <1> QED
    BY <1>1, <1>2

-----------------------------------------------------------------------------
(* The theorems.                                                           *)

(* The inductive invariant of the calls: what is on the wire, what was served
   and what the caller was told stay in step through Begin, the server, the
   network and the client's retries. *)
THEOREM Invariance == Spec => []IInv
  BY InitIInv, NextIInv, PTL DEF Spec

(* JobIds are told apart. *)
LEMMA JobIdsDiffer ==
  ASSUME NEW m \in 1 .. 5, NEW n \in 1 .. 5, JobIds[m] = JobIds[n]
  PROVE  m = n
  <1>1. /\ JobIds[1] = "j1" /\ JobIds[2] = "j2" /\ JobIds[3] = "j3" /\ JobIds[4] = "j4"
        /\ JobIds[5] = "j5"
    BY DEF JobIds
  <1>2. m \in {1, 2, 3, 4, 5} /\ n \in {1, 2, 3, 4, 5}
    OBVIOUS
  <1> QED
    BY <1>1, <1>2

(* A call never makes more requests than its RetryConfig allows, an answer and
   a result come when the phase says so, and whatever is retried, lost or
   served late, one row at most has the key and each create_job that succeeded
   with it names that row. *)
THEOREM KeysNameOneJob == Spec => []CallsInv
  <1>1. IInv => TypeOK
    BY DEF IInv, TypeOK, CallOK, Shape, StoreInv, StoreOK
  <1>2. IInv => KeyedJobOnce
    <2> SUFFICES ASSUME IInv PROVE KeyedJobOnce
      OBVIOUS
    <2>1. Cardinality(WithKey("k", store)) <= 1
      <3>1. CASE WithKey("k", store) = {}
        BY <3>1, FS_EmptySet
      <3>2. CASE WithKey("k", store) # {}
        <4>1. PICK n : n \in WithKey("k", store)
          BY <3>2
        <4>2. WithKey("k", store) = {n}
          BY <4>1 DEF IInv, StoreInv, KeyOnce
        <4> QED
          BY <4>2, FS_Singleton
      <3> QED
        BY <3>1, <3>2
    <2>2. ASSUME NEW c \in Calls, phase[c] = "done", result[c].outcome = "Ok",
                 input[c].op = "create_job", input[c].key = "k"
          PROVE  Numbers(result[c].data, store) = WithKey("k", store)
      <3>1. Success(c)
        BY <2>2 DEF Success
      <3>2. PICK n \in WithKey("k", store) :
              WithKey("k", store) = {n} /\ answer[c].data = JobIds[n]
        BY <2>2, <3>1, Facts DEF Keyed
      <3>3. result[c].data = JobIds[n]
        <4>1. /\ OpOf(input[c]) \in OperationsOf(input[c].client)
              /\ input[c] \in Arguments(input[c].client, OpOf(input[c]))
          BY <2>2, Facts DEF Asked
        <4>2. OpOf(input[c]).name = "create_job"
          BY <2>2, <4>1, ArgumentsAre
        <4> QED
          BY <2>2, <3>1, <3>2, <4>1, <4>2, DataIsRead, Facts DEF Keyed
      <3>4. n \in DOMAIN store.jobs /\ DOMAIN store.jobs \subseteq 1 .. 5
        <4>1. Len(JobIds) = 5
          BY DEF JobIds
        <4>2. /\ DOMAIN store.jobs = 1 .. Len(store.jobs) /\ Len(store.jobs) \in Nat
              /\ Len(store.jobs) <= 5
          BY <4>1 DEF IInv, StoreInv, StoreOK
        <4> QED
          BY <3>2, <4>2 DEF WithKey
      <3>5. \A m \in DOMAIN store.jobs : JobIds[m] = JobIds[n] => m = n
        BY <3>4, JobIdsDiffer
      <3> QED
        BY <3>2, <3>3, <3>4, <3>5 DEF Numbers
    <2> QED
      BY <2>1, <2>2 DEF KeyedJobOnce
  <1> QED
    BY <1>1, <1>2, Invariance, PTL DEF CallsInv

(* A write that both clients report as a success was made, by this call or,
   for a key, by the one that had it; one that was refused left nothing behind
   unless an attempt took effect without a word to the caller: its answer was
   lost, or it was a 500 after a commit. *)
THEOREM CallersAreToldTheTruth == Spec => []AnswersTellTruth
  <1>1. IInv => AnswersTellTruth
    <2> SUFFICES ASSUME IInv, NEW c \in Calls, phase[c] = "done"
                 PROVE  /\ result[c].outcome = "Ok" /\ Writes(input[c]) =>
                             \/ ledger[c].applied > 0
                             \/ input[c].op = "create_job" /\ input[c].key # Absent
                        /\ result[c].outcome \notin {"Ok", "DispatchFailure"} =>
                             ledger[c].applied = 0 \/ ledger[c].lost > 0
      BY DEF AnswersTellTruth
    <2>1. Success(c) <=> result[c].outcome = "Ok"
      BY DEF Success
    <2>2. ledger[c].applied \in Nat /\ ledger[c].lost \in Nat
      BY Facts
    <2> QED
      BY <2>1, <2>2, Facts DEF Made, Heard
  <1> QED
    BY <1>1, Invariance, PTL

(* A call takes effect once, and once more at most for each attempt whose
   answer was not heard or was a 500 after a commit. *)
THEOREM RepeatsArePaidFor == Spec => []EffectsArePaidFor
  <1>1. IInv => EffectsArePaidFor
    <2> SUFFICES ASSUME IInv, NEW c \in Calls
                 PROVE  /\ ledger[c].applied <= 1 + ledger[c].lost
                        /\ phase[c] # "new" /\ input[c].attempts = 1 => ledger[c].applied <= 1
      BY DEF EffectsArePaidFor
    <2>1. /\ Cardinality(wire[c]) \in Nat /\ ledger[c].applied \in Nat /\ ledger[c].lost \in Nat
      BY WireIsFinite, Facts
    <2>2. /\ Effects(c) <= 1 + ledger[c].lost
          /\ phase[c] # "new" /\ input[c].attempts = 1 => Effects(c) <= 1
      BY Facts DEF Paid
    <2> QED
      BY <2>1, <2>2 DEF Effects
  <1> QED
    BY <1>1, Invariance, PTL
-----------------------------------------------------------------------------
(* Which handler serves which operation.                                   *)

(* What both clients ask for, by name: the method, the first segment of the
   path, and whether it is of all, of one, or a verb. *)
Asks(name, method, kind, what) ==
  \/ name = "list_organizations" /\ method = "GET" /\ kind = "orgs" /\ what = "all"
  \/ name = "get_organization" /\ method = "GET" /\ kind = "orgs" /\ what = "one"
  \/ name = "create_organization" /\ method = "POST" /\ kind = "orgs" /\ what = "all"
  \/ name = "update_organization" /\ method = "PUT" /\ kind = "orgs" /\ what = "one"
  \/ name = "list_workspaces" /\ method = "GET" /\ kind = "orgs" /\ what = "workspaces"
  \/ name = "create_workspace" /\ method = "POST" /\ kind = "orgs" /\ what = "workspaces"
  \/ name = "list_payload_specs" /\ method = "GET" /\ kind = "payload-specs" /\ what = "all"
  \/ name = "get_payload_spec" /\ method = "GET" /\ kind = "payload-specs" /\ what = "one"
  \/ name = "create_payload_spec" /\ method = "POST" /\ kind = "payload-specs" /\ what = "all"
  \/ name = "update_payload_spec" /\ method = "PUT" /\ kind = "payload-specs" /\ what = "one"
  \/ name = "delete_payload_spec" /\ method = "DELETE" /\ kind = "payload-specs" /\ what = "one"
  \/ name = "list_configs" /\ method = "GET" /\ kind = "configs" /\ what = "all"
  \/ name = "create_config" /\ method = "POST" /\ kind = "configs" /\ what = "all"
  \/ name = "update_config" /\ method = "PUT" /\ kind = "configs" /\ what = "one"
  \/ name = "delete_config" /\ method = "DELETE" /\ kind = "configs" /\ what = "one"
  \/ name = "list_secrets" /\ method = "GET" /\ kind = "secrets" /\ what = "all"
  \/ name = "create_secret" /\ method = "POST" /\ kind = "secrets" /\ what = "all"
  \/ name = "update_secret" /\ method = "PUT" /\ kind = "secrets" /\ what = "one"
  \/ name = "delete_secret" /\ method = "DELETE" /\ kind = "secrets" /\ what = "one"
  \/ name = "list_endpoints" /\ method = "GET" /\ kind = "endpoints" /\ what = "all"
  \/ name = "get_endpoint" /\ method = "GET" /\ kind = "endpoints" /\ what = "one"
  \/ name = "create_endpoint" /\ method = "POST" /\ kind = "endpoints" /\ what = "all"
  \/ name = "update_endpoint" /\ method = "PUT" /\ kind = "endpoints" /\ what = "one"
  \/ name = "delete_endpoint" /\ method = "DELETE" /\ kind = "endpoints" /\ what = "one"
  \/ name = "list_jobs" /\ method = "GET" /\ kind = "jobs" /\ what = "all"
  \/ name = "get_job" /\ method = "GET" /\ kind = "jobs" /\ what = "one"
  \/ name = "create_job" /\ method = "POST" /\ kind = "jobs" /\ what = "all"
  \/ name = "update_job" /\ method = "PUT" /\ kind = "jobs" /\ what = "one"
  \/ name = "cancel_job" /\ method = "POST" /\ kind = "jobs" /\ what = "cancel"
  \/ name = "get_job_status" /\ method = "GET" /\ kind = "jobs" /\ what = "status"
  \/ name = "get_job_versions" /\ method = "GET" /\ kind = "jobs" /\ what = "versions"
  \/ name = "list_job_executions" /\ method = "GET" /\ kind = "jobs" /\ what = "executions"
  \/ name = "get_execution" /\ method = "GET" /\ kind = "executions" /\ what = "one"
  \/ name = "cancel_execution" /\ method = "POST" /\ kind = "executions" /\ what = "cancel"
  \/ name = "list_execution_attempts" /\ method = "GET" /\ kind = "executions" /\ what = "attempts"
  \/ name = "list_execution_logs" /\ method = "GET" /\ kind = "executions" /\ what = "logs"

(* Where the router leads it: the five routes of a plain resource, and the
   routes of its own that a kind has. *)
PlainRoute(method, what, does) ==
  \/ method = "GET" /\ what = "all" /\ does = "list"
  \/ method = "GET" /\ what = "one" /\ does = "get"
  \/ method = "POST" /\ what = "all" /\ does = "create"
  \/ method = "PUT" /\ what = "one" /\ does = "update"
  \/ method = "DELETE" /\ what = "one" /\ does = "delete"

OwnRoute(method, what, does) ==
  \/ method = "POST" /\ what = "cancel" /\ does = "cancel"
  \/ method = "GET" /\ what = "status" /\ does = "status"
  \/ method = "GET" /\ what = "versions" /\ does = "versions"
  \/ method = "GET" /\ what = "executions" /\ does = "list_executions"
  \/ method = "GET" /\ what = "attempts" /\ does = "list_attempts"
  \/ method = "GET" /\ what = "logs" /\ does = "list_logs"

Leads(method, kind, what, module, does) ==
  \/ kind = "orgs" /\ module = "organizations" /\ PlainRoute(method, what, does)
  \/ kind = "orgs" /\ what = "workspaces" /\ module = "workspaces"
       /\ \/ method = "GET" /\ does = "list"
          \/ method = "POST" /\ does = "create"
  \/ kind = "orgs" /\ what = "member" /\ module = "workspaces"
  \/ kind = "payload-specs" /\ module = "payload_specs" /\ PlainRoute(method, what, does)
  \/ kind = "configs" /\ module = "configs" /\ PlainRoute(method, what, does)
  \/ kind = "secrets" /\ module = "secrets" /\ PlainRoute(method, what, does)
  \/ kind = "endpoints" /\ module = "endpoints" /\ PlainRoute(method, what, does)
  \/ kind = "jobs" /\ module = "jobs" /\ PlainRoute(method, what, does)
  \/ kind = "jobs" /\ module = "jobs" /\ OwnRoute(method, what, does)
  \/ kind = "executions" /\ module = "executions" /\ PlainRoute(method, what, does)
  \/ kind = "executions" /\ module = "executions" /\ OwnRoute(method, what, does)

(* The two put together: who serves what. *)
Serves(name, module, does) ==
  \/ name = "list_organizations" /\ module = "organizations" /\ does = "list"
  \/ name = "get_organization" /\ module = "organizations" /\ does = "get"
  \/ name = "create_organization" /\ module = "organizations" /\ does = "create"
  \/ name = "update_organization" /\ module = "organizations" /\ does = "update"
  \/ name = "list_workspaces" /\ module = "workspaces" /\ does = "list"
  \/ name = "create_workspace" /\ module = "workspaces" /\ does = "create"
  \/ name = "list_payload_specs" /\ module = "payload_specs" /\ does = "list"
  \/ name = "get_payload_spec" /\ module = "payload_specs" /\ does = "get"
  \/ name = "create_payload_spec" /\ module = "payload_specs" /\ does = "create"
  \/ name = "update_payload_spec" /\ module = "payload_specs" /\ does = "update"
  \/ name = "delete_payload_spec" /\ module = "payload_specs" /\ does = "delete"
  \/ name = "list_configs" /\ module = "configs" /\ does = "list"
  \/ name = "create_config" /\ module = "configs" /\ does = "create"
  \/ name = "update_config" /\ module = "configs" /\ does = "update"
  \/ name = "delete_config" /\ module = "configs" /\ does = "delete"
  \/ name = "list_secrets" /\ module = "secrets" /\ does = "list"
  \/ name = "create_secret" /\ module = "secrets" /\ does = "create"
  \/ name = "update_secret" /\ module = "secrets" /\ does = "update"
  \/ name = "delete_secret" /\ module = "secrets" /\ does = "delete"
  \/ name = "list_endpoints" /\ module = "endpoints" /\ does = "list"
  \/ name = "get_endpoint" /\ module = "endpoints" /\ does = "get"
  \/ name = "create_endpoint" /\ module = "endpoints" /\ does = "create"
  \/ name = "update_endpoint" /\ module = "endpoints" /\ does = "update"
  \/ name = "delete_endpoint" /\ module = "endpoints" /\ does = "delete"
  \/ name = "list_jobs" /\ module = "jobs" /\ does = "list"
  \/ name = "get_job" /\ module = "jobs" /\ does = "get"
  \/ name = "create_job" /\ module = "jobs" /\ does = "create"
  \/ name = "update_job" /\ module = "jobs" /\ does = "update"
  \/ name = "cancel_job" /\ module = "jobs" /\ does = "cancel"
  \/ name = "get_job_status" /\ module = "jobs" /\ does = "status"
  \/ name = "get_job_versions" /\ module = "jobs" /\ does = "versions"
  \/ name = "list_job_executions" /\ module = "jobs" /\ does = "list_executions"
  \/ name = "get_execution" /\ module = "executions" /\ does = "get"
  \/ name = "cancel_execution" /\ module = "executions" /\ does = "cancel"
  \/ name = "list_execution_attempts" /\ module = "executions" /\ does = "list_attempts"
  \/ name = "list_execution_logs" /\ module = "executions" /\ does = "list_logs"
(* What is asked and where it leads agree on the handler. *)
LEMMA Agree ==
  ASSUME NEW name, NEW method, NEW kind, NEW what, NEW module, NEW does,
         Asks(name, method, kind, what), Leads(method, kind, what, module, does)
  PROVE  Serves(name, module, does)
  BY DEF Asks, Leads, PlainRoute, OwnRoute, Serves

(* No handler serves two operations, and no operation has two handlers. *)
LEMMA Differ ==
  ASSUME NEW a, NEW m, NEW d, Serves(a, m, d), NEW b, NEW p, NEW e, Serves(b, p, e)
  PROVE  a = b <=> m = p /\ d = e
  BY DEF Serves

(* What a path of the tables is of. *)
What(p) ==
  IF Len(p) = 1 THEN "all" ELSE IF Len(p) = 2 THEN "one"
  ELSE IF Len(p) = 3 THEN p[3] ELSE "member"

Kinds == {"orgs", "payload-specs", "configs", "secrets", "endpoints", "jobs", "executions"}
Verbs ==
  {"workspaces", "cancel", "status", "versions", "executions", "attempts", "logs"}

(* The templates of both clients and of the router: a kind, a label or what
   the router captures, a verb. *)
Template(p) ==
  /\ DOMAIN p = 1 .. Len(p) /\ Len(p) \in {1, 2, 3, 4} /\ p[1] \in Kinds
  /\ Len(p) > 1 => p[2] = Any
  /\ Len(p) > 2 => p[3] \in Verbs

(* One mark stands for the segment that is filled in or captured; none of the
   other segments is that mark, nor the second half of a label with a slash. *)
LEMMA LabelIsAny == Label = Any /\ Id = Any
  BY DEF Label, Any, Id

LEMMA PlainSegments ==
  /\ \A k \in Kinds : k # Any
  /\ \A v \in Verbs : v # Any /\ v # "right"
  BY Zenon DEF Any, Kinds, Verbs

(* Every row of the router's table is a row of Leads. *)
LEMMA ResourceLeads ==
  ASSUME NEW k \in Kinds, NEW m, NEW r \in Resource(k, m),
         \/ k = "payload-specs" /\ m = "payload_specs"
         \/ k \in {"configs", "secrets", "endpoints"} /\ m = k
  PROVE  /\ Leads(r.method, r.path[1], What(r.path), r.handler[1], r.handler[2])
         /\ Template(r.path) /\ r.handler = <<r.handler[1], r.handler[2]>>
  <1>1. /\ r.path[1] = k /\ r.handler[1] = m /\ r.handler = <<r.handler[1], r.handler[2]>>
        /\ \/ r.method = "POST" /\ What(r.path) = "all" /\ r.handler[2] = "create"
           \/ r.method = "GET" /\ What(r.path) = "all" /\ r.handler[2] = "list"
           \/ r.method = "GET" /\ What(r.path) = "one" /\ r.handler[2] = "get"
           \/ r.method = "PUT" /\ What(r.path) = "one" /\ r.handler[2] = "update"
           \/ r.method = "DELETE" /\ What(r.path) = "one" /\ r.handler[2] = "delete"
    BY DEF Resource, What
  <1>2. Template(r.path)
    BY DEF Resource, Template
  <1> QED
    BY <1>1, <1>2 DEF Leads, PlainRoute

LEMMA RouteLeads ==
  ASSUME NEW r \in RouteTable
  PROVE  /\ Leads(r.method, r.path[1], What(r.path), r.handler[1], r.handler[2])
         /\ Template(r.path) /\ r.handler = <<r.handler[1], r.handler[2]>>
  <1>1. CASE r \in ManagementRoutes
    <2>1. Leads(r.method, r.path[1], What(r.path), r.handler[1], r.handler[2])
      BY <1>1 DEF ManagementRoutes, Leads, PlainRoute, OwnRoute, What
    <2>2. /\ DOMAIN r.path = 1 .. Len(r.path) /\ Len(r.path) \in {1, 2, 3, 4} /\ r.path[1] \in Kinds
          /\ r.handler = <<r.handler[1], r.handler[2]>>
      BY <1>1 DEF ManagementRoutes, Kinds
    <2>3. Len(r.path) > 1 => r.path[2] = Any
      BY <1>1 DEF ManagementRoutes
    <2>4. Len(r.path) > 2 => r.path[3] \in Verbs
      BY <1>1 DEF ManagementRoutes, Verbs
    <2> QED
      BY <2>1, <2>2, <2>3, <2>4 DEF Template
  <1>2. CASE r \in ResourceRoutes
    <2>1. "payload-specs" \in Kinds /\ "configs" \in Kinds /\ "secrets" \in Kinds
          /\ "endpoints" \in Kinds
      BY DEF Kinds
    <2>2. CASE r \in Resource("payload-specs", "payload_specs")
      <3>1. PICK k, m : k = "payload-specs" /\ m = "payload_specs"
        OBVIOUS
      <3>2. k \in Kinds /\ r \in Resource(k, m)
        BY <2>1, <2>2, <3>1
      <3> QED
        BY <3>1, <3>2, ResourceLeads
    <2>3. CASE r \in Resource("configs", "configs")
      <3>1. PICK k, m : k = "configs" /\ m = "configs"
        OBVIOUS
      <3>2. k \in Kinds /\ r \in Resource(k, m)
        BY <2>1, <2>3, <3>1
      <3> QED
        BY <3>1, <3>2, ResourceLeads
    <2>4. CASE r \in Resource("secrets", "secrets")
      <3>1. PICK k, m : k = "secrets" /\ m = "secrets"
        OBVIOUS
      <3>2. k \in Kinds /\ r \in Resource(k, m)
        BY <2>1, <2>4, <3>1
      <3> QED
        BY <3>1, <3>2, ResourceLeads
    <2>5. CASE r \in Resource("endpoints", "endpoints")
      <3>1. PICK k, m : k = "endpoints" /\ m = "endpoints"
        OBVIOUS
      <3>2. k \in Kinds /\ r \in Resource(k, m)
        BY <2>1, <2>5, <3>1
      <3> QED
        BY <3>1, <3>2, ResourceLeads
    <2> QED
      BY <1>2, <2>2, <2>3, <2>4, <2>5 DEF ResourceRoutes
  <1>3. CASE r \in JobRoutes
    <2>1. Leads(r.method, r.path[1], What(r.path), r.handler[1], r.handler[2])
      BY <1>3 DEF JobRoutes, Leads, PlainRoute, OwnRoute, What
    <2>2. /\ DOMAIN r.path = 1 .. Len(r.path) /\ Len(r.path) \in {1, 2, 3, 4} /\ r.path[1] \in Kinds
          /\ r.handler = <<r.handler[1], r.handler[2]>>
      BY <1>3 DEF JobRoutes, Kinds
    <2>3. Len(r.path) > 1 => r.path[2] = Any
      BY <1>3 DEF JobRoutes
    <2>4. Len(r.path) > 2 => r.path[3] \in Verbs
      BY <1>3 DEF JobRoutes, Verbs
    <2> QED
      BY <2>1, <2>2, <2>3, <2>4 DEF Template
  <1>4. CASE r \in ExecutionRoutes
    <2>1. Leads(r.method, r.path[1], What(r.path), r.handler[1], r.handler[2])
      BY <1>4 DEF ExecutionRoutes, Leads, PlainRoute, OwnRoute, What
    <2>2. /\ DOMAIN r.path = 1 .. Len(r.path) /\ Len(r.path) \in {1, 2, 3, 4} /\ r.path[1] \in Kinds
          /\ r.handler = <<r.handler[1], r.handler[2]>>
      BY <1>4 DEF ExecutionRoutes, Kinds
    <2>3. Len(r.path) > 1 => r.path[2] = Any
      BY <1>4 DEF ExecutionRoutes
    <2>4. Len(r.path) > 2 => r.path[3] \in Verbs
      BY <1>4 DEF ExecutionRoutes, Verbs
    <2> QED
      BY <2>1, <2>2, <2>3, <2>4 DEF Template
  <1> QED
    BY <1>1, <1>2, <1>3, <1>4 DEF RouteTable

(* Every operation of either client is a row of Asks. *)
LEMMA DashboardAsks ==
  ASSUME NEW o \in DashboardOperations
  PROVE  /\ Asks(o.name, o.request.method, o.request.path[1], What(o.request.path))
         /\ Template(o.request.path) /\ Len(o.request.path) \in {1, 2, 3}
  <1>1. CASE o \in OrganizationCalls \cup WorkspaceCalls \cup JobListCalls
    <2>1. Asks(o.name, o.request.method, o.request.path[1], What(o.request.path))
      BY <1>1 DEF OrganizationCalls, WorkspaceCalls, JobListCalls, ApiFn, Asks, What
    <2>2. /\ DOMAIN o.request.path = 1 .. Len(o.request.path) /\ Len(o.request.path) \in {1, 2, 3}
          /\ o.request.path[1] \in Kinds
      BY <1>1 DEF OrganizationCalls, WorkspaceCalls, JobListCalls, ApiFn, Kinds
    <2>3. Len(o.request.path) > 1 => o.request.path[2] = Id
      BY <1>1 DEF OrganizationCalls, WorkspaceCalls, JobListCalls, ApiFn
    <2>4. Len(o.request.path) > 2 => o.request.path[3] \in Verbs
      BY <1>1 DEF OrganizationCalls, WorkspaceCalls, JobListCalls, ApiFn, Verbs
    <2>5. Template(o.request.path)
      BY <2>2, <2>3, <2>4, LabelIsAny DEF Template
    <2> QED
      BY <2>1, <2>2, <2>5
  <1>2. CASE o \in JobCalls
    <2>1. Asks(o.name, o.request.method, o.request.path[1], What(o.request.path))
      BY <1>2 DEF JobCalls, ApiFn, Asks, What
    <2>2. /\ DOMAIN o.request.path = 1 .. Len(o.request.path) /\ Len(o.request.path) \in {1, 2, 3}
          /\ o.request.path[1] \in Kinds
      BY <1>2 DEF JobCalls, ApiFn, Kinds
    <2>3. Len(o.request.path) > 1 => o.request.path[2] = Id
      BY <1>2 DEF JobCalls, ApiFn
    <2>4. Len(o.request.path) > 2 => o.request.path[3] \in Verbs
      BY <1>2 DEF JobCalls, ApiFn, Verbs
    <2>5. Template(o.request.path)
      BY <2>2, <2>3, <2>4, LabelIsAny DEF Template
    <2> QED
      BY <2>1, <2>2, <2>5
  <1>3. CASE o \in ExecutionCalls
    <2>1. Asks(o.name, o.request.method, o.request.path[1], What(o.request.path))
      BY <1>3 DEF ExecutionCalls, ApiFn, Asks, What
    <2>2. /\ DOMAIN o.request.path = 1 .. Len(o.request.path) /\ Len(o.request.path) \in {1, 2, 3}
          /\ o.request.path[1] \in Kinds
      BY <1>3 DEF ExecutionCalls, ApiFn, Kinds
    <2>3. Len(o.request.path) > 1 => o.request.path[2] = Id
      BY <1>3 DEF ExecutionCalls, ApiFn
    <2>4. Len(o.request.path) > 2 => o.request.path[3] \in Verbs
      BY <1>3 DEF ExecutionCalls, ApiFn, Verbs
    <2>5. Template(o.request.path)
      BY <2>2, <2>3, <2>4, LabelIsAny DEF Template
    <2> QED
      BY <2>1, <2>2, <2>5
  <1>4. CASE o \in EndpointCalls \cup PayloadSpecCalls
    <2>1. Asks(o.name, o.request.method, o.request.path[1], What(o.request.path))
      BY <1>4 DEF EndpointCalls, PayloadSpecCalls, ApiFn, Asks, What
    <2>2. /\ DOMAIN o.request.path = 1 .. Len(o.request.path) /\ Len(o.request.path) \in {1, 2, 3}
          /\ o.request.path[1] \in Kinds
      BY <1>4 DEF EndpointCalls, PayloadSpecCalls, ApiFn, Kinds
    <2>3. Len(o.request.path) > 1 => o.request.path[2] = Id
      BY <1>4 DEF EndpointCalls, PayloadSpecCalls, ApiFn
    <2>4. Len(o.request.path) > 2 => o.request.path[3] \in Verbs
      BY <1>4 DEF EndpointCalls, PayloadSpecCalls, ApiFn, Verbs
    <2>5. Template(o.request.path)
      BY <2>2, <2>3, <2>4, LabelIsAny DEF Template
    <2> QED
      BY <2>1, <2>2, <2>5
  <1>5. CASE o \in ConfigCalls \cup SecretCalls
    <2>1. Asks(o.name, o.request.method, o.request.path[1], What(o.request.path))
      BY <1>5 DEF ConfigCalls, SecretCalls, ApiFn, Asks, What
    <2>2. /\ DOMAIN o.request.path = 1 .. Len(o.request.path) /\ Len(o.request.path) \in {1, 2, 3}
          /\ o.request.path[1] \in Kinds
      BY <1>5 DEF ConfigCalls, SecretCalls, ApiFn, Kinds
    <2>3. Len(o.request.path) > 1 => o.request.path[2] = Id
      BY <1>5 DEF ConfigCalls, SecretCalls, ApiFn
    <2>4. Len(o.request.path) > 2 => o.request.path[3] \in Verbs
      BY <1>5 DEF ConfigCalls, SecretCalls, ApiFn, Verbs
    <2>5. Template(o.request.path)
      BY <2>2, <2>3, <2>4, LabelIsAny DEF Template
    <2> QED
      BY <2>1, <2>2, <2>5
  <1> QED
    BY <1>1, <1>2, <1>3, <1>4, <1>5 DEF DashboardOperations

LEMMA OperationAsks ==
  ASSUME NEW o \in Operations
  PROVE  /\ Asks(o.name, o.request.method, o.request.path[1], What(o.request.path))
         /\ Template(o.request.path) /\ Len(o.request.path) \in {1, 2, 3}
  <1>1. CASE o \in {CancelExecution, CancelJob, CreateEndpoint, CreateJob,
                   CreatePayloadSpec, DeleteEndpoint,
                   DeletePayloadSpec}
    <2>1. Asks(o.name, o.request.method, o.request.path[1], What(o.request.path))
      BY <1>1 DEF Operation, CancelExecution, CancelExecutionRequest, CancelJob,
       CancelJobRequest, CreateEndpoint, CreateEndpointRequest, CreateJob,
       CreateJobRequest, CreatePayloadSpec, CreatePayloadSpecRequest,
       DeleteEndpoint, DeleteEndpointRequest, DeletePayloadSpec,
       DeletePayloadSpecRequest, Asks, What
    <2>2. /\ DOMAIN o.request.path = 1 .. Len(o.request.path) /\ Len(o.request.path) \in {1, 2, 3}
          /\ o.request.path[1] \in Kinds
      BY <1>1 DEF Operation, CancelExecution, CancelExecutionRequest, CancelJob,
       CancelJobRequest, CreateEndpoint, CreateEndpointRequest, CreateJob,
       CreateJobRequest, CreatePayloadSpec, CreatePayloadSpecRequest,
       DeleteEndpoint, DeleteEndpointRequest, DeletePayloadSpec,
       DeletePayloadSpecRequest, Kinds
    <2>3. Len(o.request.path) > 1 => o.request.path[2] = Label
      BY <1>1 DEF Operation, CancelExecution, CancelExecutionRequest, CancelJob,
       CancelJobRequest, CreateEndpoint, CreateEndpointRequest, CreateJob,
       CreateJobRequest, CreatePayloadSpec, CreatePayloadSpecRequest,
       DeleteEndpoint, DeleteEndpointRequest, DeletePayloadSpec,
       DeletePayloadSpecRequest
    <2>4. Len(o.request.path) > 2 => o.request.path[3] \in Verbs
      BY <1>1 DEF Operation, CancelExecution, CancelExecutionRequest, CancelJob,
       CancelJobRequest, CreateEndpoint, CreateEndpointRequest, CreateJob,
       CreateJobRequest, CreatePayloadSpec, CreatePayloadSpecRequest,
       DeleteEndpoint, DeleteEndpointRequest, DeletePayloadSpec,
       DeletePayloadSpecRequest, Verbs
    <2>5. Template(o.request.path)
      BY <2>2, <2>3, <2>4, LabelIsAny DEF Template
    <2> QED
      BY <2>1, <2>2, <2>5
  <1>2. CASE o \in {GetEndpoint, GetExecution, GetJob, GetJobStatus, GetJobVersions,
                   GetPayloadSpec, ListEndpoints}
    <2>1. Asks(o.name, o.request.method, o.request.path[1], What(o.request.path))
      BY <1>2 DEF Operation, GetEndpoint, GetEndpointRequest, GetExecution,
       GetExecutionRequest, GetJob, GetJobRequest, GetJobStatus,
       GetJobStatusRequest, GetJobVersions, GetJobVersionsRequest, GetPayloadSpec,
       GetPayloadSpecRequest, ListEndpoints, ListEndpointsRequest, Asks, What
    <2>2. /\ DOMAIN o.request.path = 1 .. Len(o.request.path) /\ Len(o.request.path) \in {1, 2, 3}
          /\ o.request.path[1] \in Kinds
      BY <1>2 DEF Operation, GetEndpoint, GetEndpointRequest, GetExecution,
       GetExecutionRequest, GetJob, GetJobRequest, GetJobStatus,
       GetJobStatusRequest, GetJobVersions, GetJobVersionsRequest, GetPayloadSpec,
       GetPayloadSpecRequest, ListEndpoints, ListEndpointsRequest, Kinds
    <2>3. Len(o.request.path) > 1 => o.request.path[2] = Label
      BY <1>2 DEF Operation, GetEndpoint, GetEndpointRequest, GetExecution,
       GetExecutionRequest, GetJob, GetJobRequest, GetJobStatus,
       GetJobStatusRequest, GetJobVersions, GetJobVersionsRequest, GetPayloadSpec,
       GetPayloadSpecRequest, ListEndpoints, ListEndpointsRequest
    <2>4. Len(o.request.path) > 2 => o.request.path[3] \in Verbs
      BY <1>2 DEF Operation, GetEndpoint, GetEndpointRequest, GetExecution,
       GetExecutionRequest, GetJob, GetJobRequest, GetJobStatus,
       GetJobStatusRequest, GetJobVersions, GetJobVersionsRequest, GetPayloadSpec,
       GetPayloadSpecRequest, ListEndpoints, ListEndpointsRequest, Verbs
    <2>5. Template(o.request.path)
      BY <2>2, <2>3, <2>4, LabelIsAny DEF Template
    <2> QED
      BY <2>1, <2>2, <2>5
  <1>3. CASE o \in {ListExecutionAttempts, ListExecutionLogs, ListJobExecutions, ListJobs,
                   ListPayloadSpecs, UpdateEndpoint, UpdateJob,
                   UpdatePayloadSpec}
    <2>1. Asks(o.name, o.request.method, o.request.path[1], What(o.request.path))
      BY <1>3 DEF Operation, ListExecutionAttempts, ListExecutionAttemptsRequest,
       ListExecutionLogs, ListExecutionLogsRequest, ListJobExecutions,
       ListJobExecutionsRequest, ListJobs, ListJobsRequest, ListPayloadSpecs,
       ListPayloadSpecsRequest, UpdateEndpoint, UpdateEndpointRequest, UpdateJob,
       UpdateJobRequest, UpdatePayloadSpec, UpdatePayloadSpecRequest, Asks, What
    <2>2. /\ DOMAIN o.request.path = 1 .. Len(o.request.path) /\ Len(o.request.path) \in {1, 2, 3}
          /\ o.request.path[1] \in Kinds
      BY <1>3 DEF Operation, ListExecutionAttempts, ListExecutionAttemptsRequest,
       ListExecutionLogs, ListExecutionLogsRequest, ListJobExecutions,
       ListJobExecutionsRequest, ListJobs, ListJobsRequest, ListPayloadSpecs,
       ListPayloadSpecsRequest, UpdateEndpoint, UpdateEndpointRequest, UpdateJob,
       UpdateJobRequest, UpdatePayloadSpec, UpdatePayloadSpecRequest, Kinds
    <2>3. Len(o.request.path) > 1 => o.request.path[2] = Label
      BY <1>3 DEF Operation, ListExecutionAttempts, ListExecutionAttemptsRequest,
       ListExecutionLogs, ListExecutionLogsRequest, ListJobExecutions,
       ListJobExecutionsRequest, ListJobs, ListJobsRequest, ListPayloadSpecs,
       ListPayloadSpecsRequest, UpdateEndpoint, UpdateEndpointRequest, UpdateJob,
       UpdateJobRequest, UpdatePayloadSpec, UpdatePayloadSpecRequest
    <2>4. Len(o.request.path) > 2 => o.request.path[3] \in Verbs
      BY <1>3 DEF Operation, ListExecutionAttempts, ListExecutionAttemptsRequest,
       ListExecutionLogs, ListExecutionLogsRequest, ListJobExecutions,
       ListJobExecutionsRequest, ListJobs, ListJobsRequest, ListPayloadSpecs,
       ListPayloadSpecsRequest, UpdateEndpoint, UpdateEndpointRequest, UpdateJob,
       UpdateJobRequest, UpdatePayloadSpec, UpdatePayloadSpecRequest, Verbs
    <2>5. Template(o.request.path)
      BY <2>2, <2>3, <2>4, LabelIsAny DEF Template
    <2> QED
      BY <2>1, <2>2, <2>5
  <1> QED
    BY <1>1, <1>2, <1>3 DEF Operations

(* A label that stays one segment, with the rest of the path behind it. *)
Says(client, label) ==
  client = "dashboard" => UrlReads[label] = <<label>> /\ label \notin Cutting

(* What a client puts on the wire, segment by segment. *)
LEMMA PathIs ==
  ASSUME NEW client, NEW o, NEW label, NEW p, p = o.request.path, Template(p),
         Len(p) \in {1, 2, 3}, TakesLabel(o) => Says(client, label)
  PROVE  LET q == PathOf(client, o, label) IN
         /\ TakesLabel(o) <=> Len(p) > 1
         /\ q[1] = p[1] /\ Len(q) = Len(p)
         /\ Len(p) > 1 => q[2] = label
         /\ Len(p) > 2 => q[3] = p[3]
  <1>1. TakesLabel(o) <=> Len(p) > 1
    BY LabelIsAny, PlainSegments DEF Template, TakesLabel
  <1>2. CASE Len(p) = 1
    BY <1>1, <1>2 DEF PathOf
  <1>3. CASE Len(p) > 1
    <2>1. \A j \in DOMAIN p : p[j] = Label <=> j = 2
      BY <1>3, LabelIsAny, PlainSegments DEF Template
    <2>2. 2 = CHOOSE j \in DOMAIN p : p[j] = Label
      BY <1>3, <2>1 DEF Template
    <2>3. PICK w : w = Segments(client, label)
      OBVIOUS
    <2>4. PathOf(client, o, label) = SubSeq(p, 1, 2 - 1) \o w \o SubSeq(p, 2 + 1, Len(p))
      BY <1>1, <1>3, <2>2, <2>3 DEF PathOf, Says
    <2>5. w = <<label>>
      BY <1>1, <1>3, <2>3 DEF Segments, Says
    <2>6. PICK u, v : u = SubSeq(p, 1, 1) /\ v = SubSeq(p, 3, Len(p))
      OBVIOUS
    <2> DEFINE S == {p[1], p[3], label}
    <2>7. p[1] \in S /\ p[3] \in S /\ label \in S
      OBVIOUS
    <2> HIDE DEF S
    <2>8. u \in Seq(S) /\ Len(u) = 1 /\ u[1] = p[1]
      <3>1. \A i \in 1 .. 1 : p[i] \in S
        BY <2>7
      <3>2. /\ SubSeq(p, 1, 1) \in Seq(S) /\ Len(SubSeq(p, 1, 1)) = 1
            /\ \A i \in 1 .. 1 - 1 + 1 : SubSeq(p, 1, 1)[i] = p[1 + i - 1]
        BY <3>1, SubSeqProperties
      <3> QED
        BY <2>6, <3>2
    <2>9. v \in Seq(S) /\ Len(v) = Len(p) - 2 /\ (Len(p) > 2 => v[1] = p[3])
      <3>1. PICK n \in 2 .. 3 : n = Len(p)
        BY <1>3 DEF Template
      <3>2. \A i \in 3 .. n : p[i] \in S
        BY <2>7
      <3>3. /\ SubSeq(p, 3, n) \in Seq(S) /\ Len(SubSeq(p, 3, n)) = n - 2
            /\ \A i \in 1 .. n - 3 + 1 : SubSeq(p, 3, n)[i] = p[3 + i - 1]
        BY <3>2, SubSeqProperties
      <3> QED
        BY <2>6, <3>1, <3>3
    <2>10. w \in Seq(S) /\ Len(w) = 1 /\ w[1] = label
      BY <2>5, <2>7
    <2>11. PICK x, q : x = u \o w /\ q = x \o v
      OBVIOUS
    <2>12. /\ x \in Seq(S) /\ Len(x) = 1 + Len(w) /\ x[1] = p[1]
           /\ \A i \in 1 .. Len(w) : x[i + 1] = w[i]
      <3>1. /\ x \in Seq(S) /\ Len(x) = Len(u) + Len(w)
            /\ \A i \in 1 .. Len(u) + Len(w) : x[i] = IF i <= Len(u) THEN u[i] ELSE w[i - Len(u)]
        BY <2>8, <2>10, <2>11, ConcatProperties
      <3> QED
        BY <2>8, <2>10, <3>1
    <2>13. Len(p) \in 2 .. 3
      BY <1>3 DEF Template
    <2>14. /\ Len(q) = Len(x) + Len(v) /\ \A i \in 1 .. Len(x) : q[i] = x[i]
           /\ \A i \in 1 .. Len(v) : q[i + Len(x)] = v[i]
      <3>1. /\ Len(q) = Len(x) + Len(v)
            /\ \A i \in 1 .. Len(x) + Len(v) : q[i] = IF i <= Len(x) THEN x[i] ELSE v[i - Len(x)]
        <4>1. PICK y, z : y = x /\ z = v
          OBVIOUS
        <4>2. y \in Seq(S) /\ z \in Seq(S) /\ q = y \o z
          BY <2>9, <2>11, <2>12, <4>1
        <4>3. /\ Len(q) = Len(y) + Len(z)
              /\ \A i \in 1 .. Len(y) + Len(z) : q[i] = IF i <= Len(y) THEN y[i] ELSE z[i - Len(y)]
          BY <4>2, ConcatProperties
        <4> QED
          BY <4>1, <4>3
      <3>2. Len(x) \in Nat /\ Len(v) \in Nat
        BY <2>9, <2>12, LenProperties
      <3> QED
        BY <3>1, <3>2
    <2>15. q = PathOf(client, o, label)
      BY <2>4, <2>6, <2>11
    <2>16. Len(x) = 2 /\ x[1] = p[1] /\ x[1 + 1] = label
      BY <2>10, <2>12
    <2>17. Len(q) = Len(p) /\ q[1] = p[1] /\ q[2] = label
      BY <2>9, <2>13, <2>14, <2>16
    <2>18. Len(p) > 2 => q[1 + 2] = p[3]
      BY <2>9, <2>13, <2>14, <2>16
    <2> QED
      BY <1>1, <1>3, <2>15, <2>17, <2>18
  <1>4. Len(p) = 1 \/ Len(p) > 1
    <2>1. PICK n \in {1, 2, 3} : n = Len(p)
      OBVIOUS
    <2>2. n = 1 \/ n > 1
      OBVIOUS
    <2> QED
      BY <2>1, <2>2
  <1> QED
    BY <1>2, <1>3, <1>4

(* What a call asks for, and the handler that serves it. *)
ServedWell(in, s) ==
  /\ in.access.credential # "none" \/ AuthMode = "Disabled"
  /\ Verbatim(in) =>
       /\ TakesLabel(OpOf(in)) => s.target = in.label
       /\ s.handler = <<s.handler[1], s.handler[2]>>
       /\ Serves(in.op, s.handler[1], s.handler[2])

(* A request reaches the route its operation is a template of. *)
LEMMA ReachedIs ==
  ASSUME NEW client, NEW o \in Operations \cup DashboardOperations, NEW label,
         TakesLabel(o) => Says(client, label),
         NEW r \in Reached(o.request.method, PathOf(client, o, label))
  PROVE  /\ Serves(o.name, r.handler[1], r.handler[2])
         /\ r.handler = <<r.handler[1], r.handler[2]>>
         /\ TakesLabel(o) => Captured(r, PathOf(client, o, label)) = label
  <1>1. PICK p, t, q : p = o.request.path /\ t = r.path /\ q = PathOf(client, o, label)
    OBVIOUS
  <1>2. /\ Asks(o.name, o.request.method, p[1], What(p))
        /\ Template(p) /\ Len(p) \in {1, 2, 3}
    BY <1>1, DashboardAsks, OperationAsks
  <1>3. r \in RouteTable /\ r.method = o.request.method /\ Matches(t, q)
    BY <1>1 DEF Reached
  <1>4. /\ Leads(r.method, t[1], What(t), r.handler[1], r.handler[2])
        /\ Template(t) /\ r.handler = <<r.handler[1], r.handler[2]>>
    BY <1>1, <1>3, RouteLeads
  <1>5. /\ TakesLabel(o) <=> Len(p) > 1
        /\ q[1] = p[1] /\ Len(q) = Len(p)
        /\ Len(p) > 1 => q[2] = label
        /\ Len(p) > 2 => q[3] = p[3]
    BY <1>1, <1>2, PathIs
  <1>6. Len(t) = Len(q) /\ \A i \in 1 .. Len(q) : t[i] # Any => t[i] = q[i]
    BY <1>3 DEF Matches
  <1>7. Len(q) \in {1, 2, 3, 4} /\ t[1] = q[1] /\ (Len(q) > 2 => t[3] = q[3])
    <2>1. Len(q) \in {1, 2, 3, 4}
      BY <1>4, <1>6 DEF Template
    <2>2. t[1] # Any /\ (Len(q) > 2 => t[3] # Any)
      BY <1>4, <1>6, PlainSegments DEF Template
    <2> QED
      BY <1>6, <2>1, <2>2
  <1>10. What(t) = What(p) /\ t[1] = p[1]
    BY <1>2, <1>5, <1>6, <1>7 DEF What
  <1>11. Serves(o.name, r.handler[1], r.handler[2])
    BY <1>2, <1>3, <1>4, <1>10, Agree
  <1>12. ASSUME Len(p) > 1 PROVE Captured(r, q) = label
    <2>1. \A i \in 1 .. Len(q) : t[i] = Any <=> i = 2
      BY <1>2, <1>4, <1>5, <1>6, <1>12, PlainSegments DEF Template
    <2>2. PICK at : at = {i \in 1 .. Len(q) : r.path[i] = Any}
      OBVIOUS
    <2>3. at = {2}
      BY <1>1, <1>2, <1>5, <1>12, <2>1, <2>2
    <2>4. (CHOOSE i \in at : \A j \in at : i <= j) = 2
      BY <2>3
    <2>5. Captured(r, q) = q[2]
      BY <2>2, <2>3, <2>4 DEF Captured
    <2> QED
      BY <1>5, <1>12, <2>5
  <1> QED
    BY <1>1, <1>4, <1>5, <1>11, <1>12

(* Both clients and the router agree on who does what. *)
LEMMA ServedWellIsAsked ==
  ASSUME NEW in, NEW s, ServedWell(in, s), Verbatim(in), NEW h \in HandlerOf
  PROVE  h.handler = s.handler <=> h.name = in.op
  <1>1. PICK o \in Operations \cup DashboardOperations :
          \E r \in Reached(o.request.method, PathOf("sdk", o, "a")) :
            h = [name |-> o.name, handler |-> r.handler]
    BY DEF HandlerOf
  <1>2. /\ Serves(h.name, h.handler[1], h.handler[2])
        /\ h.handler = <<h.handler[1], h.handler[2]>>
    <2>1. PICK r \in Reached(o.request.method, PathOf("sdk", o, "a")) :
            h = [name |-> o.name, handler |-> r.handler]
      BY <1>1
    <2>2. Says("sdk", "a")
      BY DEF Says
    <2>3. /\ Serves(o.name, r.handler[1], r.handler[2])
          /\ r.handler = <<r.handler[1], r.handler[2]>>
      BY <2>2, ReachedIs
    <2>4. h.name = o.name /\ h.handler = r.handler
      BY <2>1
    <2> QED
      BY <2>3, <2>4
  <1>3. h.name = in.op <=> h.handler[1] = s.handler[1] /\ h.handler[2] = s.handler[2]
    BY <1>2, Differ DEF ServedWell
  <1>4. h.handler = s.handler <=> h.handler[1] = s.handler[1] /\ h.handler[2] = s.handler[2]
    BY <1>2 DEF ServedWell
  <1> QED
    BY <1>3, <1>4

(* What the front door answers with is the handler of the operation. *)
LEMMA AnswerServes ==
  ASSUME NEW in, NEW req, NEW s, OpOf(in) \in OperationsOf(in.client),
         in \in Arguments(in.client, OpOf(in)), req.method = OpOf(in).request.method,
         req.path = PathOf(in.client, OpOf(in), in.label), NEW a, a = Answer(in, req, s),
         a.handler # Absent
  PROVE  ServedWell(in, [handler |-> a.handler, target |-> a.target])
  <1> DEFINE hits == Reached(req.method, req.path)
  <1>1. /\ authenticate(AuthMode, in.access.credential, FALSE) = "authenticated"
        /\ hits # {}
    BY DEF Answer
  <1>2. PICK r : r = CHOOSE x \in hits : TRUE
    OBVIOUS
  <1>3. r \in hits
    BY <1>1, <1>2
  <1>4. FrontDoor(r.handler, in.access) = 200
    BY <1>1, <1>2 DEF Answer
  <1>5. a.handler = r.handler /\ a.target = Captured(r, req.path)
    BY <1>1, <1>2, <1>4 DEF Answer
  <1>6. in.access.credential # "none" \/ AuthMode = "Disabled"
    BY <1>1 DEF authenticate
  <1>7. in.op = OpOf(in).name
    BY ArgumentsAre
  <1>8. ASSUME Verbatim(in)
        PROVE  /\ Serves(in.op, r.handler[1], r.handler[2])
               /\ r.handler = <<r.handler[1], r.handler[2]>>
               /\ TakesLabel(OpOf(in)) => Captured(r, req.path) = in.label
    <2>1. PICK o : o = OpOf(in)
      OBVIOUS
    <2>2. /\ o \in Operations \cup DashboardOperations
          /\ r \in Reached(o.request.method, PathOf(in.client, o, in.label))
          /\ TakesLabel(o) => Says(in.client, in.label)
      BY <1>3, <1>8, <2>1 DEF OperationsOf, Verbatim, Says
    <2>3. /\ Serves(o.name, r.handler[1], r.handler[2])
          /\ r.handler = <<r.handler[1], r.handler[2]>>
          /\ TakesLabel(o) => Captured(r, PathOf(in.client, o, in.label)) = in.label
      BY <2>2, ReachedIs
    <2> QED
      BY <1>7, <2>1, <2>3
  <1>9. PICK t : t = [handler |-> a.handler, target |-> a.target]
    OBVIOUS
  <1>10. t.handler = r.handler /\ t.target = Captured(r, req.path)
    BY <1>5, <1>9
  <1>11. ServedWell(in, t)
    BY <1>6, <1>8, <1>10 DEF ServedWell
  <1> QED
    BY <1>9, <1>11

(* The history of what was served. *)
ServedInv == \A c \in Calls : \A s \in ledger[c].served : ServedWell(input[c], s)

(* A request on the wire is served by the handler of its operation. *)
LEMMA WireServes ==
  ASSUME IInv, NEW c \in Calls, NEW n \in wire[c], NEW a, a = Answer(input[c], sent[c], store),
         a.handler # Absent
  PROVE  ServedWell(input[c], [handler |-> a.handler, target |-> a.target])
  <1>1. attempt[c] # 0 /\ phase[c] # "new"
    BY OnTheWire, Facts DEF Asked
  <1>2. /\ OpOf(input[c]) \in OperationsOf(input[c].client)
        /\ input[c] \in Arguments(input[c].client, OpOf(input[c]))
        /\ sent[c].method = OpOf(input[c]).request.method
        /\ sent[c].path = PathOf(input[c].client, OpOf(input[c]), input[c].label)
    BY <1>1, Facts DEF Asked
  <1> QED
    BY <1>2, AnswerServes

(* A step that serves nothing, and one that serves one request. *)
LEMMA ServedStays ==
  ASSUME ServedInv, input' = input,
         \A c \in Calls : ledger'[c].served = ledger[c].served
  PROVE  ServedInv'
  BY DEF ServedInv, ServedWell, Verbatim

LEMMA ServedMore ==
  ASSUME IInv, ServedInv, input' = input, NEW c \in Calls, NEW s, NEW l,
         ledger' = [ledger EXCEPT ![c] = l], ServedWell(input[c], s),
         l.served \subseteq ledger[c].served \cup {s}
  PROVE  ServedInv'
  <1> SUFFICES ASSUME NEW d \in Calls, NEW t \in ledger'[d].served
               PROVE  ServedWell(input[d], t)
    BY DEF ServedInv, ServedWell, Verbatim
  <1>1. ledger'[c] = l /\ \A x \in Calls \ {c} : ledger'[x] = ledger[x]
    BY TableStep, Facts DEF Tables
  <1>2. CASE d = c
    BY <1>1, <1>2 DEF ServedInv
  <1>3. CASE d # c
    BY <1>1, <1>3 DEF ServedInv
  <1> QED
    BY <1>2, <1>3

LEMMA ServedNext == IInv /\ ServedInv /\ [Next]_vars => ServedInv'
  <1> SUFFICES ASSUME IInv, ServedInv, [Next]_vars PROVE ServedInv'
    OBVIOUS
  <1>1. ASSUME NEW c \in Calls, NEW in, Begin(c, in) PROVE ServedInv'
    <2>1. phase[c] = "new" /\ input' = [input EXCEPT ![c] = in] /\ ledger' = ledger
      BY <1>1 DEF Begin
    <2>2. ledger[c].served = {}
      BY <2>1, Facts DEF Asked, NoLedger
    <2>3. \A d \in Calls \ {c} : input'[d] = input[d]
      BY <2>1, TableStep, Facts DEF Tables
    <2> QED
      BY <2>1, <2>2, <2>3 DEF ServedInv, ServedWell, Verbatim
  <1>2. ASSUME NEW c \in Calls, NEW n \in wire[c], Serve(c, n) PROVE ServedInv'
    <2>1. PICK a : a = Answer(input[c], sent[c], store) /\ ServeAs(c, n, a)
      BY <1>2 DEF Serve
    <2>2. PICK l : /\ ledger' = [ledger EXCEPT ![c] = l]
                   /\ l.served = IF a.handler = Absent THEN ledger[c].served
                        ELSE ledger[c].served \cup {[handler |-> a.handler, target |-> a.target]}
      <3> DEFINE S == IF a.handler = Absent THEN ledger[c].served
                      ELSE ledger[c].served \cup {[handler |-> a.handler, target |-> a.target]}
                 ap == IF TookEffect(a) THEN ledger[c].applied + 1 ELSE ledger[c].applied
      <3>1. ledger' = [ledger EXCEPT ![c] = [served |-> S, applied |-> ap, lost |-> ledger[c].lost]]
        BY <2>1 DEF ServeAs
      <3> HIDE DEF S, ap
      <3>2. PICK l : l = [served |-> S, applied |-> ap, lost |-> ledger[c].lost]
        OBVIOUS
      <3>3. ledger' = [ledger EXCEPT ![c] = l] /\ l.served = S
        BY <3>1, <3>2
      <3> QED
        BY <3>3 DEF S
    <2>3. input' = input
      BY <2>1 DEF ServeAs
    <2>4. CASE a.handler = Absent
      <3>1. \A d \in Calls : ledger'[d].served = ledger[d].served
        BY <2>2, <2>4, TableStep, Facts DEF Tables
      <3> QED
        BY <2>3, <3>1, ServedStays
    <2>5. CASE a.handler # Absent
      <3>1. PICK s : s = [handler |-> a.handler, target |-> a.target]
        OBVIOUS
      <3>2. ServedWell(input[c], s)
        BY <2>1, <2>5, <3>1, WireServes
      <3> QED
        BY <2>2, <2>3, <2>5, <3>1, <3>2, ServedMore
    <2> QED
      BY <2>4, <2>5
  <1>3. ASSUME NEW c \in Calls, NEW n \in wire[c], ServeRaced(c, n) PROVE ServedInv'
    <2>1. PICK a : /\ a = Answer(input[c], sent[c], store) /\ a.handler = <<"jobs", "create">>
                   /\ ledger' = [ledger EXCEPT ![c].served =
                                   @ \cup {[handler |-> a.handler, target |-> a.target]}]
                   /\ input' = input
      BY <1>3 DEF ServeRaced
    <2>2. a.handler # Absent
      <3>1. [method |-> "POST", path |-> <<"jobs">>, handler |-> <<"jobs", "create">>]
              \in RouteTable
        BY DEF RouteTable, JobRoutes
      <3> QED
        BY <2>1, <3>1, ApiCallsAssumption
    <2>3. PICK s : s = [handler |-> a.handler, target |-> a.target]
      OBVIOUS
    <2>4. ServedWell(input[c], s)
      BY <2>1, <2>2, <2>3, WireServes
    <2>5. PICK l : l = [ledger[c] EXCEPT !.served = @ \cup {s}]
      OBVIOUS
    <2>6. l.served \subseteq ledger[c].served \cup {s}
      BY <2>5, Facts DEF Shape
    <2>7. ledger' = [ledger EXCEPT ![c] = l]
      BY <2>1, <2>3, <2>5
    <2> QED
      BY <2>1, <2>4, <2>6, <2>7, ServedMore
  <1>4. ASSUME NEW c \in Calls, NEW n \in wire[c], ServeError(c, n) PROVE ServedInv'
    BY <1>4, ServedStays DEF ServeError
  <1>8. ASSUME NEW c \in Calls, NEW n \in wire[c], ServeUnacknowledged(c, n) PROVE ServedInv'
    <2>1. PICK a : /\ a = Answer(input[c], sent[c], store) /\ a.handler # Absent
                   /\ ledger' = [ledger EXCEPT ![c] =
                        [served |-> ledger[c].served
                                      \cup {[handler |-> a.handler, target |-> a.target]},
                         applied |-> ledger[c].applied + 1, lost |-> ledger[c].lost + 1]]
                   /\ input' = input
      BY <1>8 DEF ServeUnacknowledged, TookEffect
    <2>2. PICK s : s = [handler |-> a.handler, target |-> a.target]
      OBVIOUS
    <2>3. ServedWell(input[c], s)
      BY <2>1, <2>2, WireServes
    <2>4. PICK l : l = [served |-> ledger[c].served \cup {s},
                        applied |-> ledger[c].applied + 1, lost |-> ledger[c].lost + 1]
      OBVIOUS
    <2>5. ledger' = [ledger EXCEPT ![c] = l] /\ l.served \subseteq ledger[c].served \cup {s}
      BY <2>1, <2>2, <2>4
    <2> QED
      BY <2>1, <2>3, <2>5, ServedMore
  <1>5. ASSUME NEW c \in Calls, Client(c) \/ ConnectionLost(c) PROVE ServedInv'
    BY <1>5, ServedStays DEF Client, Retry, Finish, ConnectionLost
  <1>6. ASSUME NEW c \in Calls, AnswerLost(c) PROVE ServedInv'
    <2>1. ledger' = [ledger EXCEPT ![c].lost = @ + 1] /\ input' = input
      BY <1>6 DEF AnswerLost
    <2>2. \A d \in Calls : ledger'[d].served = ledger[d].served
      BY <2>1, Facts DEF Tables, Shape
    <2> QED
      BY <2>1, <2>2, ServedStays
  <1>7. CASE Settle \/ UNCHANGED vars
    BY <1>7, ServedStays DEF Settle, vars
  <1> QED
    BY <1>1, <1>2, <1>3, <1>4, <1>5, <1>6, <1>7, <1>8 DEF Next, Server

(* Whichever client makes a call and however often it is retried, lost or
   raced, a caller without credentials reaches no handler; and for a label that
   the path says (any of the generated client, of the dashboard one that a URL
   does not read otherwise) the handler that serves the call is the one both
   clients know by the operation's name and finds the name or id it was given. *)
THEOREM CallsAreServedAsAsked == Spec => []ServedAsAsked
  <1>1. Init => ServedInv
    BY DEF Init, ServedInv, NoLedger
  <1>2. ServedInv => ServedAsAsked
    <2> SUFFICES ASSUME ServedInv, NEW c \in Calls, NEW s \in ledger[c].served
                 PROVE  /\ input[c].access.credential # "none" \/ AuthMode = "Disabled"
                        /\ Verbatim(input[c]) =>
                             /\ TakesLabel(OpOf(input[c])) => s.target = input[c].label
                             /\ \A h \in HandlerOf :
                                  (h.handler = s.handler) <=> (h.name = input[c].op)
      BY DEF ServedAsAsked
    <2>1. ServedWell(input[c], s)
      BY DEF ServedInv
    <2>2. Verbatim(input[c]) =>
            \A h \in HandlerOf : (h.handler = s.handler) <=> (h.name = input[c].op)
      BY <2>1, ServedWellIsAsked
    <2> QED
      BY <2>1, <2>2 DEF ServedWell
  <1> QED
    BY <1>1, <1>2, ServedNext, Invariance, PTL DEF Spec
=============================================================================
