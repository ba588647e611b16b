------------------------------- MODULE Clients -------------------------------
(***************************************************************************)
(* The two implementations of the trait InvokrClient: the library client,  *)
(* which works on the tables itself, one autocommitted statement after     *)
(* another, and the HTTP client, which asks the service and may lose its   *)
(* answer.  Calls run concurrently on one workspace with one endpoint and  *)
(* one secret name; the workspace itself is created by Workspaces.tla when *)
(* the client is the HTTP one.                                             *)
(***************************************************************************)
EXTENDS Workspaces

CONSTANTS
  Nobody,         \* no call wrote the row: it is not there
  Seed            \* who wrote the rows that are there at the start

\* The calls are Requests: provision_workspace of call c is POST request c.
ASSUME ClientsAssumption == Nobody # Seed /\ {Nobody, Seed} \cap Requests = {}

VARIABLES
  mode,           \* which implementation the application constructed
  call,           \* call[c]: what it was asked, where it is, what it returned
  secret,         \* the call whose value the row of secrets holds
  endpoint,       \* the call whose spec the row of endpoints holds
  job,            \* job[c]: the job that create_job call c inserted
  tables          \* the schema that library calls provision

clientVars == <<mode, call, secret, endpoint, job, tables>>
vars == <<space, post, mode, call, secret, endpoint, job, tables>>

-----------------------------------------------------------------------------
Writer == Requests \cup {Nobody, Seed}

JobTrigger == {"IMMEDIATE", "DELAYED", "CRON"}

\* The job's latest execution.  "open" is PENDING or QUEUED; a worker that
\* claimed it from there, or from RETRYING, holds its row until it commits.
Execution == {"none", "open", "running", "RETRYING", "rerunning", "ended", "CANCELLED"}
Fresh == {"open", "running"}
Locked == {"running", "rerunning"}

Job == [status : {"none", "ACTIVE", "RETIRED"}, trigger : JobTrigger,
        key : {"null", "empty", "given"}, scheduled : BOOLEAN, exec : Execution]

NoJob == [status |-> "none", trigger |-> "IMMEDIATE", key |-> "null",
          scheduled |-> FALSE, exec |-> "none"]

Op == {"upsert_secret", "delete_secret", "register_endpoint", "delete_endpoint",
       "create_job", "provision_workspace", "cancel_job", "get_execution"}

\* wrote and raced are history: the call changed the row, and somebody deleted
\* the row while the call was under way.
Call == [op : Op, trigger : JobTrigger, keyed : BOOLEAN,
         target : Requests \cup {Nobody},
         at : {"start", "second", "third", "reply", "done"},
         result : {"pending", "ok", "err"}, wrote : BOOLEAN, raced : BOOLEAN]

NewCall(op, trigger, keyed) ==
  [op |-> op, trigger |-> trigger, keyed |-> keyed, target |-> Nobody,
   at |-> "start", result |-> "pending", wrote |-> FALSE, raced |-> FALSE]

At(c, op, stage) == call[c].op = op /\ call[c].at = stage
Library == mode = "library"
Service == mode = "service"

\* The library client returns what happened.  The HTTP client has still to
\* receive it.
Returned(x, result) ==
  [x EXCEPT !.at = IF Library THEN "done" ELSE "reply", !.result = result]

Return(c, result) == call' = [call EXCEPT ![c] = Returned(@, result)]
Continue(c, stage) == call' = [call EXCEPT ![c].at = stage]

\* c wrote its row and returns.
Wrote(c) == call' = [call EXCEPT ![c] = [Returned(@, "ok") EXCEPT !.wrote = TRUE]]

\* c deleted the row that the calls of op are about to write.
Deleted(c, op) ==
  call' = [d \in Requests |->
             IF d = c THEN Returned(call[c], "ok")
             ELSE IF call[d].op = op /\ call[d].result = "pending"
                  THEN [call[d] EXCEPT !.raced = TRUE] ELSE call[d]]

-----------------------------------------------------------------------------
(* upsert_secret.  The library reads, then updates or inserts; the HTTP    *)
(* client posts, and puts on 409.                                          *)

UpsertFirst(c) ==
  /\ At(c, "upsert_secret", "start")
  /\ \/ /\ Library
        /\ Continue(c, IF secret = Nobody THEN "second" ELSE "third")
        /\ UNCHANGED secret
     \/ /\ Service /\ secret = Nobody
        /\ secret' = c /\ Wrote(c)
     \/ /\ Service /\ secret # Nobody
        /\ Continue(c, "third") /\ UNCHANGED secret
  /\ UNCHANGED <<mode, endpoint, job, tables>>

\* Mutant: INSERT ... ON CONFLICT DO NOTHING.
UpsertInsert_ignore(c) ==
  /\ At(c, "upsert_secret", "second")
  /\ \/ secret = Nobody /\ secret' = c /\ Wrote(c)
     \/ secret # Nobody /\ Return(c, "ok") /\ UNCHANGED secret
  /\ UNCHANGED <<mode, endpoint, job, tables>>

\* The INSERT fails when the row appeared meanwhile.
UpsertInsert(c) ==
  /\ At(c, "upsert_secret", "second")
  /\ \/ secret = Nobody /\ secret' = c /\ Wrote(c)
     \/ secret # Nobody /\ Return(c, "err") /\ UNCHANGED secret
  /\ UNCHANGED <<mode, endpoint, job, tables>>

\* The UPDATE matches no row when it disappeared meanwhile: the library does
\* not look, the service answers 404.
UpsertUpdate(c) ==
  /\ At(c, "upsert_secret", "third")
  /\ \/ secret # Nobody /\ secret' = c /\ Wrote(c)
     \/ /\ secret = Nobody /\ UNCHANGED secret
        /\ Return(c, IF Library THEN "ok" ELSE "err")
  /\ UNCHANGED <<mode, endpoint, job, tables>>

\* The service refuses while a spec names the secret; the endpoint of these
\* calls does not.
delete_secret(c) ==
  /\ At(c, "delete_secret", "start")
  /\ \/ secret # Nobody /\ Deleted(c, "upsert_secret")
     \/ secret = Nobody /\ Return(c, IF Library THEN "ok" ELSE "err")
  /\ secret' = Nobody
  /\ UNCHANGED <<mode, endpoint, job, tables>>

-----------------------------------------------------------------------------
(* register_endpoint.  The library reads, then updates or inserts; the HTTP *)
(* client puts, and posts on 404.                                          *)

RegisterFirst(c) ==
  /\ At(c, "register_endpoint", "start")
  /\ \/ /\ Library
        /\ Continue(c, IF endpoint = Nobody THEN "second" ELSE "third")
        /\ UNCHANGED endpoint
     \/ /\ Service /\ endpoint # Nobody
        /\ endpoint' = c /\ Wrote(c)
     \/ /\ Service /\ endpoint = Nobody
        /\ Continue(c, "second") /\ UNCHANGED endpoint
  /\ UNCHANGED <<mode, secret, job, tables>>

RegisterInsert(c) ==
  /\ At(c, "register_endpoint", "second")
  /\ \/ endpoint = Nobody /\ endpoint' = c /\ Wrote(c)
     \/ endpoint # Nobody /\ Return(c, "err") /\ UNCHANGED endpoint
  /\ UNCHANGED <<mode, secret, job, tables>>

RegisterUpdate(c) ==
  /\ At(c, "register_endpoint", "third")
  /\ \/ endpoint # Nobody /\ endpoint' = c /\ Wrote(c)
     \/ endpoint = Nobody /\ Return(c, "ok") /\ UNCHANGED endpoint
  /\ UNCHANGED <<mode, secret, job, tables>>

\* A job of any status holds the row by its foreign key.
delete_endpoint(c) ==
  LET held == \E d \in Requests : job[d].status # "none" IN
  /\ At(c, "delete_endpoint", "start")
  /\ \/ held /\ Return(c, "err") /\ UNCHANGED endpoint
     \/ /\ ~held /\ endpoint # Nobody
        /\ endpoint' = Nobody /\ Deleted(c, "register_endpoint")
     \/ /\ ~held /\ endpoint = Nobody /\ UNCHANGED endpoint
        /\ Return(c, IF Library THEN "ok" ELSE "err")
  /\ UNCHANGED <<mode, secret, job, tables>>

-----------------------------------------------------------------------------
(* create_job.                                                             *)

\* The key that is stored: the library stores "" when none was given, except
\* for a CRON job; the service a fresh one, which collides with nothing.
StoredKey(x) ==
  IF x.keyed THEN "given"
  ELSE IF Library /\ x.trigger # "CRON" THEN "empty" ELSE "null"

Duplicates(key) == {d \in Requests : /\ key # "null"
                                     /\ job[d].status # "none" /\ job[d].key = key}

\* endpoints::get, and in the service the look-up of the key: the existing
\* job is the answer, unless its execution is asked for and it has none.
CreateFirst(c) ==
  LET x == call[c]
      hit == IF Service /\ x.keyed THEN Duplicates("given") ELSE {} IN
  /\ At(c, "create_job", "start")
  /\ \/ endpoint = Nobody /\ Return(c, "err")
     \/ /\ endpoint # Nobody
        /\ \E d \in hit : call' = [call EXCEPT ![c] =
             [Returned(@, IF x.trigger = "CRON" \/ job[d].exec # "none"
                          THEN "ok" ELSE "err") EXCEPT !.target = d]]
     \/ /\ endpoint # Nobody /\ hit = {}
        /\ IF Service /\ x.trigger = "DELAYED" /\ ~x.keyed
           THEN Return(c, "err") ELSE Continue(c, "second")
  /\ UNCHANGED <<mode, secret, endpoint, job, tables>>

\* Mutant: the library returns before the execution is there.
InsertJob_early(c) ==
  LET x == call[c] IN
  /\ At(c, "create_job", "second")
  /\ endpoint # Nobody /\ Duplicates(StoredKey(x)) = {}
  /\ job' = [job EXCEPT ![c] =
       [status |-> "ACTIVE", trigger |-> x.trigger, key |-> StoredKey(x),
        scheduled |-> FALSE, exec |-> "none"]]
  /\ call' = [call EXCEPT ![c] = [Returned(@, "ok") EXCEPT !.target = c]]
  /\ UNCHANGED <<mode, secret, endpoint, tables>>

\* INSERT INTO jobs: the foreign key and the unique index may refuse it.  The
\* service adds the execution or the pg_cron entry in the same transaction;
\* the library adds the execution in the next statement and never schedules.
InsertJob(c) ==
  LET x == call[c]
      cron == x.trigger = "CRON" IN
  /\ At(c, "create_job", "second")
  /\ \/ /\ endpoint = Nobody \/ Duplicates(StoredKey(x)) # {}
        /\ Return(c, "err") /\ UNCHANGED job
     \/ /\ endpoint # Nobody /\ Duplicates(StoredKey(x)) = {}
        /\ job' = [job EXCEPT ![c] =
             [status |-> "ACTIVE", trigger |-> x.trigger, key |-> StoredKey(x),
              scheduled |-> Service /\ cron,
              exec |-> IF Service /\ ~cron THEN "open" ELSE "none"]]
        /\ IF Library /\ ~cron THEN Continue(c, "third")
           ELSE call' = [call EXCEPT ![c] = [Returned(@, "ok") EXCEPT !.target = c]]
  /\ UNCHANGED <<mode, secret, endpoint, tables>>

InsertExecution(c) ==
  /\ At(c, "create_job", "third")
  /\ job' = [job EXCEPT ![c].exec = "open"]
  /\ call' = [call EXCEPT ![c] = [Returned(@, "ok") EXCEPT !.target = c]]
  /\ UNCHANGED <<mode, secret, endpoint, tables>>

-----------------------------------------------------------------------------
(* cancel_job of a job that a call returned: get_execution tells the       *)
(* application its job id.                                                 *)

Known(d) == call[d].op = "create_job" /\ call[d].at = "done" /\ call[d].result = "ok"

cancel(j) == [j EXCEPT !.status = "RETIRED"]

\* The UPDATE matches PENDING and QUEUED, RETRYING not.  A row it matches that a
\* worker has locked is waited for, and looked at again when it is free.
cancel_pending(j) == [j EXCEPT !.exec = IF @ = "open" THEN "CANCELLED" ELSE @]
MustWait(j) == j.trigger # "CRON" /\ j.exec = "running"

\* Mutant: the executions are left alone.
ServiceCancel_only(c, d) ==
  /\ Service /\ At(c, "cancel_job", "start") /\ Known(d)
  /\ job' = [job EXCEPT ![call[d].target] = cancel(@)]
  /\ call' = [call EXCEPT ![c] = [Returned(@, "ok") EXCEPT !.target = call[d].target]]
  /\ UNCHANGED <<mode, secret, endpoint, tables>>

\* The handler: one transaction, and a retired job is a conflict.
ServiceCancel(c, d) ==
  LET j == call[d].target
      cron == job[j].trigger = "CRON" IN
  /\ Service /\ At(c, "cancel_job", "start") /\ Known(d)
  /\ IF job[j].status = "RETIRED"
     THEN Return(c, "err") /\ UNCHANGED job
     ELSE /\ ~MustWait(job[j])
          /\ job' = [job EXCEPT ![j] =
               IF cron THEN [cancel(@) EXCEPT !.scheduled = FALSE]
               ELSE cancel(cancel_pending(@))]
          /\ call' = [call EXCEPT ![c] = [Returned(@, "ok") EXCEPT !.target = j]]
  /\ UNCHANGED <<mode, secret, endpoint, tables>>

\* jobs::get and, unless it is CRON, cancel_pending_for_job.
LibraryCancel(c, d) ==
  LET j == call[d].target IN
  /\ Library /\ At(c, "cancel_job", "start") /\ Known(d)
  /\ ~MustWait(job[j])
  /\ job' = IF job[j].trigger = "CRON" THEN job
            ELSE [job EXCEPT ![j] = cancel_pending(@)]
  /\ call' = [call EXCEPT ![c].at = "second", ![c].target = j]
  /\ UNCHANGED <<mode, secret, endpoint, tables>>

\* jobs::cancel; its result is not looked at.
LibraryRetire(c) ==
  LET j == call[c].target IN
  /\ At(c, "cancel_job", "second")
  /\ job' = [job EXCEPT ![j] = cancel(@)]
  /\ IF job[j].trigger = "CRON" THEN Continue(c, "third") ELSE Return(c, "ok")
  /\ UNCHANGED <<mode, secret, endpoint, tables>>

\* cron.unschedule by name on the pool: it raises when there is no entry.
LibraryUnschedule(c) ==
  LET j == call[c].target IN
  /\ At(c, "cancel_job", "third")
  /\ job' = [job EXCEPT ![j].scheduled = FALSE]
  /\ Return(c, IF job[j].scheduled THEN "ok" ELSE "err")
  /\ UNCHANGED <<mode, secret, endpoint, tables>>

\* get_execution changes nothing: a missing one is None in both.
get_execution(c) ==
  /\ At(c, "get_execution", "start")
  /\ Return(c, "ok")
  /\ UNCHANGED <<mode, secret, endpoint, job, tables>>

-----------------------------------------------------------------------------
(* provision_workspace.                                                    *)

\* The library applies the DDL itself, statement by statement, each of them
\* IF NOT EXISTS.
LibraryProvision(c) ==
  /\ Library /\ At(c, "provision_workspace", "start")
  /\ tables' = IF tables = "none" THEN "some" ELSE tables
  /\ Continue(c, "second")
  /\ UNCHANGED <<mode, secret, endpoint, job>>

LibraryApplyDdl(c) ==
  /\ At(c, "provision_workspace", "second")
  /\ tables' = "all"
  /\ Return(c, "ok")
  /\ UNCHANGED <<mode, secret, endpoint, job>>

\* The HTTP client takes 409 for success.
ServiceProvision(c) ==
  /\ Service /\ At(c, "provision_workspace", "start") /\ post[c].at = "answered"
  /\ Return(c, IF post[c].answer \in {201, 409} THEN "ok" ELSE "err")
  /\ UNCHANGED <<mode, secret, endpoint, job, tables>>

-----------------------------------------------------------------------------
(* Answers, failures, and what happens to a job by itself.                 *)

Receive(c) ==
  /\ call[c].at = "reply"
  /\ Continue(c, "done")
  /\ UNCHANGED <<mode, secret, endpoint, job, tables>>

\* A statement fails before it takes effect, or an answer is lost after.
Fail(c) ==
  /\ call[c].at # "done"
  /\ post[c].at \in {"new", "answered"}
  /\ call' = [call EXCEPT ![c].at = "done", ![c].result = "err"]
  /\ UNCHANGED <<mode, secret, endpoint, job, tables>>

\* A worker takes what is PENDING, QUEUED or RETRYING, once it is due.
claim(d) ==
  /\ job[d].exec \in {"open", "RETRYING"}
  /\ job' = [job EXCEPT ![d].exec = IF @ = "open" THEN "running" ELSE "rerunning"]
  /\ UNCHANGED <<mode, call, secret, endpoint, tables>>

\* The worker commits SUCCESS or FAILED, or leaves it to another attempt.
Settle(d) ==
  /\ job[d].exec \in Locked
  /\ \E outcome \in {"ended", "RETRYING"} : job' = [job EXCEPT ![d].exec = outcome]
  /\ UNCHANGED <<mode, call, secret, endpoint, tables>>

\* The worker's transaction is rolled back: the claim never was.
Rollback(d) ==
  /\ job[d].exec \in Locked
  /\ job' = [job EXCEPT ![d].exec = IF @ = "running" THEN "open" ELSE "RETRYING"]
  /\ UNCHANGED <<mode, call, secret, endpoint, tables>>

\* pg_cron materialises one execution; the statement checks the status.
Tick(d) ==
  /\ job[d].scheduled /\ job[d].status = "ACTIVE" /\ job[d].exec \notin Locked
  /\ job' = [job EXCEPT ![d].exec = "open"]
  /\ UNCHANGED <<mode, call, secret, endpoint, tables>>

-----------------------------------------------------------------------------
ClientStep(c) ==
  \/ UpsertFirst(c) \/ UpsertInsert(c) \/ UpsertUpdate(c) \/ delete_secret(c)
  \/ RegisterFirst(c) \/ RegisterInsert(c) \/ RegisterUpdate(c) \/ delete_endpoint(c)
  \/ CreateFirst(c) \/ InsertJob(c) \/ InsertExecution(c)
  \/ \E d \in Requests : ServiceCancel(c, d) \/ LibraryCancel(c, d)
  \/ LibraryRetire(c) \/ LibraryUnschedule(c) \/ get_execution(c)
  \/ LibraryProvision(c) \/ LibraryApplyDdl(c) \/ ServiceProvision(c)
  \/ Receive(c) \/ Fail(c) \/ claim(c) \/ Settle(c) \/ Rollback(c) \/ Tick(c)

\* A workspace is created by the POST of a provision_workspace call.
ProvisionStep(c) ==
  /\ Service /\ call[c].op = "provision_workspace"
  /\ WorkspaceStep(c)
  /\ UNCHANGED clientVars

Asked ==
  {NewCall(op, "IMMEDIATE", FALSE) : op \in Op \ {"create_job"}}
    \cup {NewCall("create_job", t, k) : t \in JobTrigger, k \in BOOLEAN}

Init ==
  /\ WorkspaceInit
  /\ mode \in {"library", "service"}
  /\ call \in [Requests -> Asked]
  /\ secret \in {Nobody, Seed} /\ endpoint \in {Nobody, Seed}
  /\ job = [c \in Requests |-> NoJob]
  /\ tables = "none"

Next ==
  \E c \in Requests :
    \/ ClientStep(c) /\ UNCHANGED workspaceVars
    \/ ProvisionStep(c)

Spec == Init /\ [][Next]_vars

-----------------------------------------------------------------------------
(* Properties.                                                             *)

\* The variables have their types.
TypeOK ==
  /\ WorkspaceTypeOK
  /\ mode \in {"library", "service"}
  /\ call \in [Requests -> Call]
  /\ secret \in Writer /\ endpoint \in Writer
  /\ job \in [Requests -> Job]
  /\ tables \in {"none", "some", "all"}

\* An upsert that returns Ok took effect, in both modes, although it reads and
\* writes in separate steps: its value was stored, or the row it meant to
\* update was deleted meanwhile, as if right after it.
UpsertTakesEffect ==
  \A c \in Requests :
    call[c].op \in {"upsert_secret", "register_endpoint"} /\ call[c].result = "ok" =>
      call[c].wrote \/ call[c].raced

\* A one-shot job the caller was told of has its execution, and there is one
\* job per key given, whatever was repeated and whichever answer was lost: the
\* library's two INSERTs are not atomic, but only the second returns Ok.
CreatedIsQueued ==
  /\ \A c \in Requests :
       Known(c) /\ call[c].trigger # "CRON" => job[call[c].target].exec # "none"
  /\ \A k \in {"empty", "given"} : \A c, d \in Duplicates(k) : c = d

\* Ok from cancel_job of a one-shot job is final for what has not been tried:
\* from then on no execution of it makes a first attempt, although workers
\* claim, roll back and settle while the library's two statements run.  An
\* execution between two attempts is left alone and goes on.
CancelIsFinal ==
  \A c \in Requests : call[c].op = "cancel_job" /\ call[c].result = "ok" =>
    LET j == job[call[c].target] IN
    /\ j.status = "RETIRED"
    /\ j.trigger # "CRON" => j.exec \notin Fresh

\* Ok from provision_workspace means the tables are there in library mode, and
\* in service mode only that the workspace is listed: 409 also comes while
\* another call still creates it, or after one failed half-way.
ProvisionedIsListed ==
  \A c \in Requests :
    call[c].op = "provision_workspace" /\ call[c].result = "ok" =>
      IF Library THEN tables = "all" ELSE space[post[c].slug].row

\* Provisioning through either client, against other calls for the same
\* workspace and failures half-way: one provisioner, a version mark that tells
\* the truth, and an Ok that means what each mode can promise.
ClientsInv == TypeOK /\ VersionMarksComplete /\ SingleProvisioner /\ ProvisionedIsListed

\* Creation in five commits, failing between any two, implements the abstract
\* workspace the pollers rely on.
T == INSTANCE Tenants WITH
       tenant <- [s \in Slugs |->
         IF ~space[s].row THEN "absent"
         ELSE IF space[s].tables = "all" THEN "usable" ELSE "listed"]

\* Tenants is the contract: listed before usable, never withdrawn, whatever
\* commit of provision_workspace fails.
TenantsImplemented == T!TenantsSpec

-----------------------------------------------------------------------------
(* What the documentation says and the code does not do.                   *)

\* "call sites are transparent to the deployment mode": a CRON job whose
\* creation returned Ok has its schedule until it is cancelled.
CronIsScheduled ==
  \A c \in Requests :
    Known(c) /\ call[c].trigger = "CRON" =>
      LET j == job[call[c].target] IN
      j.trigger = "CRON" /\ j.status = "ACTIVE" => j.scheduled
=============================================================================
