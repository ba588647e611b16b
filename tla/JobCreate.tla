------------------------------- MODULE JobCreate -------------------------------
(***************************************************************************)
(* POST /v1/jobs (handlers/jobs.rs create over db/jobs.rs), with the       *)
(* idempotency key that makes it repeatable, against DELETE of the         *)
(* endpoint it names (handlers/endpoints.rs delete) and against the cancel *)
(* of the jobs it made.                                                    *)
(*                                                                         *)
(* A request reads the endpoint and looks its key up on one connection,    *)
(* drops it, and inserts the job in a transaction of its own.  In between, *)
(* two constraints of the schema decide: the unique index on (endpoint,    *)
(* idempotency_key), where an insert waits for the transaction that holds  *)
(* the same key, and the foreign key to endpoints, which locks the         *)
(* endpoint's row until the end of the transaction.                        *)
(***************************************************************************)
EXTENDS Naturals

CONSTANTS
  Requests,   \* POST requests, each sent once; a retry is another request
  Deletes,    \* DELETE requests
  Endpoints,  \* endpoint names
  Keys,       \* idempotency keys of the clients
  NoKey,      \* the idempotency_key is left out
  Jobs,       \* job ids
  Nothing,    \* no job, no endpoint
  MaxFailures \* bound: failed statements, failed commits, lost answers

ASSUME JobCreateAssumption ==
  /\ NoKey \notin Keys /\ Nothing \notin Jobs /\ Nothing \notin Endpoints
  /\ MaxFailures \in Nat

VARIABLES
  endpoints, \* committed rows of the endpoints table
  jobs,      \* committed rows of the jobs table
  post,      \* the POST requests
  del,       \* the DELETE requests
  failures   \* history: failures so far

createVars == <<endpoints, jobs, post, del, failures>>

-----------------------------------------------------------------------------
(* Rows and requests.                                                      *)

Trigger == {"IMMEDIATE", "DELAYED", "CRON"}

Job == [status : {"NONE", "ACTIVE", "RETIRED"}, endpoint : Endpoints \cup {Nothing},
        key : Keys \cup {NoKey}]

NoJob == [status |-> "NONE", endpoint |-> Nothing, key |-> NoKey]

\* The phases of a POST: new, checked (the connection is dropped), inserted
\* (the row and its index entry exist in the transaction), referenced (the
\* endpoint's row is locked), done.
Post == [phase : {"new", "checked", "inserted", "referenced", "done"},
         endpoint : Endpoints \cup {Nothing}, key : Keys \cup {NoKey},
         trigger : Trigger, job : Jobs \cup {Nothing},
         answer : {0, 200, 201, 400, 404, 409, 500}]

NewPost == [phase |-> "new", endpoint |-> Nothing, key |-> NoKey,
            trigger |-> "IMMEDIATE", job |-> Nothing, answer |-> 0]

Delete == [phase : {"new", "checked", "done"}, endpoint : Endpoints \cup {Nothing},
           answer : {0, 204, 404, 409, 500}]

NewDelete == [phase |-> "new", endpoint |-> Nothing, answer |-> 0]

Answered(x, code) == [x EXCEPT !.phase = "done", !.answer = code]

\* Job ids in use, by committed rows or by open transactions.
Used == {j \in Jobs : jobs[j].status # "NONE"}
          \cup {post[r].job : r \in Requests}

\* get_by_idempotency.  A generated key (NoKey) never matches.
StoredUnder(e, k) == {j \in Jobs : /\ k # NoKey
                               /\ jobs[j].status # "NONE"
                               /\ jobs[j].endpoint = e /\ jobs[j].key = k}

\* Open transactions with an index entry for (e, k).
Holders(e, k) == {r \in Requests : /\ k # NoKey
                                   /\ post[r].phase \in {"inserted", "referenced"}
                                   /\ post[r].endpoint = e /\ post[r].key = k}

Failed == failures < MaxFailures /\ failures' = failures + 1

-----------------------------------------------------------------------------
(* Endpoints.                                                              *)

create_endpoint(e) ==
  /\ e \notin endpoints
  /\ endpoints' = endpoints \cup {e}
  /\ UNCHANGED <<jobs, post, del, failures>>

\* DELETE /v1/endpoints/{name}: has_active_jobs ...
DeleteCheck(d, e) ==
  /\ del[d].phase = "new"
  /\ del' = [del EXCEPT ![d] =
       LET x == [del[d] EXCEPT !.endpoint = e] IN
       IF \E j \in Jobs : jobs[j].status = "ACTIVE" /\ jobs[j].endpoint = e
       THEN Answered(x, 409)
       ELSE [x EXCEPT !.phase = "checked"]]
  /\ UNCHANGED <<endpoints, jobs, post, failures>>

\* Mutant: the DELETE does not mind the foreign keys.
DeleteRow_unchecked(d) ==
  LET e == del[d].endpoint IN
  /\ del[d].phase = "checked"
  /\ endpoints' = endpoints \ {e}
  /\ del' = [del EXCEPT ![d] =
               Answered(del[d], IF e \in endpoints THEN 204 ELSE 404)]
  /\ UNCHANGED <<jobs, post, failures>>

\* ... and the DELETE, which waits for the transactions that reference the
\* row, and fails while a job of any status does.
DeleteRow(d) ==
  LET e == del[d].endpoint
      referenced == \E j \in Jobs : jobs[j].status # "NONE"
                                    /\ jobs[j].endpoint = e
  IN  /\ del[d].phase = "checked"
      /\ \A r \in Requests : post[r].phase = "referenced" => post[r].endpoint # e
      /\ endpoints' = IF referenced THEN endpoints ELSE endpoints \ {e}
      /\ del' = [del EXCEPT ![d] = Answered(del[d],
                   IF e \notin endpoints THEN 404
                   ELSE IF referenced THEN 500 ELSE 204)]
      /\ UNCHANGED <<jobs, post, failures>>

-----------------------------------------------------------------------------
(* POST /v1/jobs.                                                          *)

\* Everything before drop(conn), and the checks of the request body.
Lookup(r, e, k, trigger) ==
  LET x == [post[r] EXCEPT !.endpoint = e, !.key = k, !.trigger = trigger] IN
  /\ post[r].phase = "new"
  /\ \/ /\ e \notin endpoints
        /\ post' = [post EXCEPT ![r] = Answered(x, 404)]
     \/ /\ e \in endpoints
        /\ \E j \in StoredUnder(e, k) :
             post' = [post EXCEPT ![r] = [Answered(x, 200) EXCEPT !.job = j]]
     \/ /\ e \in endpoints /\ StoredUnder(e, k) = {}
        /\ post' = [post EXCEPT ![r] =
             IF trigger = "DELAYED" /\ k = NoKey THEN Answered(x, 400)
             ELSE [x EXCEPT !.phase = "checked"]]
  /\ UNCHANGED <<endpoints, jobs, del, failures>>

\* The answer to a violation of the unique index, by trigger.
ConflictCode(trigger) == IF trigger = "DELAYED" THEN 500 ELSE 409

\* Mutants: a conflict is tried again instead of answered; no unique index.
InsertJob_retry(r, j) ==
  LET x == post[r] IN
  /\ x.phase = "checked" /\ j \notin Used
  /\ Holders(x.endpoint, x.key) = {} /\ StoredUnder(x.endpoint, x.key) = {}
  /\ post' = [post EXCEPT ![r] = [x EXCEPT !.phase = "inserted", !.job = j]]
  /\ UNCHANGED <<endpoints, jobs, del, failures>>

InsertJob_notUnique(r, j) ==
  LET x == post[r] IN
  /\ x.phase = "checked" /\ j \notin Used
  /\ post' = [post EXCEPT ![r] = [x EXCEPT !.phase = "inserted", !.job = j]]
  /\ UNCHANGED <<endpoints, jobs, del, failures>>

\* INSERT INTO jobs, up to the unique index: it waits for a transaction that
\* holds the key and fails once a row with it is committed.
InsertJob(r, j) ==
  LET x == post[r] IN
  /\ x.phase = "checked" /\ j \notin Used
  /\ Holders(x.endpoint, x.key) = {}
  /\ post' = [post EXCEPT ![r] =
       IF StoredUnder(x.endpoint, x.key) = {}
       THEN [x EXCEPT !.phase = "inserted", !.job = j]
       ELSE Answered(x, ConflictCode(x.trigger))]
  /\ UNCHANGED <<endpoints, jobs, del, failures>>

\* The answer to a violation of the foreign key, by trigger: create_immediate's
\* caller takes every constraint for the unique index.
ForeignKeyCode(trigger) ==
  CASE trigger = "IMMEDIATE" -> 409
    [] trigger = "DELAYED"   -> 500
    [] trigger = "CRON"      -> 404

\* The rest of the INSERT: the foreign key locks the endpoint's row, or fails.
CheckEndpoint(r) ==
  LET x == post[r] IN
  /\ x.phase = "inserted"
  /\ post' = [post EXCEPT ![r] =
       IF x.endpoint \in endpoints
       THEN [x EXCEPT !.phase = "referenced"]
       ELSE [Answered(x, ForeignKeyCode(x.trigger)) EXCEPT !.job = Nothing]]
  /\ UNCHANGED <<endpoints, jobs, del, failures>>

Inserted(x) == [status |-> "ACTIVE", endpoint |-> x.endpoint, key |-> x.key]

\* The execution or the pg_cron entry, and the commit.
CommitPost(r) ==
  LET x == post[r] IN
  /\ x.phase = "referenced"
  /\ jobs' = [jobs EXCEPT ![x.job] = Inserted(x)]
  /\ post' = [post EXCEPT ![r] = Answered(x, 201)]
  /\ UNCHANGED <<endpoints, del, failures>>

\* A statement or the commit fails, or the server dies: 500 or no answer.
RollbackPost(r) ==
  /\ post[r].phase \in {"checked", "inserted", "referenced"}
  /\ Failed
  /\ post' = [post EXCEPT ![r] = [Answered(post[r], 500) EXCEPT !.job = Nothing]]
  /\ UNCHANGED <<endpoints, jobs, del>>

\* The commit takes effect and its acknowledgement is lost.
CommitUnacknowledged(r) ==
  LET x == post[r] IN
  /\ x.phase = "referenced"
  /\ Failed
  /\ jobs' = [jobs EXCEPT ![x.job] = Inserted(x)]
  /\ post' = [post EXCEPT ![r] = [Answered(x, 500) EXCEPT !.job = Nothing]]
  /\ UNCHANGED <<endpoints, del>>

\* POST jobs/{id}/cancel, or an update or a sweep that retires the job.
retire(j) ==
  /\ jobs[j].status = "ACTIVE"
  /\ jobs' = [jobs EXCEPT ![j].status = "RETIRED"]
  /\ UNCHANGED <<endpoints, post, del, failures>>

-----------------------------------------------------------------------------

CreateInit ==
  /\ endpoints = {}
  /\ jobs = [j \in Jobs |-> NoJob]
  /\ post = [r \in Requests |-> NewPost]
  /\ del = [d \in Deletes |-> NewDelete]
  /\ failures = 0

\* What a request does by itself once it is sent.
PostStep(r) ==
  \/ \E j \in Jobs : InsertJob(r, j)
  \/ CheckEndpoint(r)
  \/ CommitPost(r)

CreateNext ==
  \/ \E e \in Endpoints : create_endpoint(e)
  \/ \E d \in Deletes : DeleteRow(d) \/ \E e \in Endpoints : DeleteCheck(d, e)
  \/ \E r \in Requests, e \in Endpoints, k \in Keys \cup {NoKey},
        trigger \in Trigger : Lookup(r, e, k, trigger)
  \/ \E r \in Requests : PostStep(r) \/ RollbackPost(r) \/ CommitUnacknowledged(r)
  \/ \E j \in Jobs : retire(j)

CreateSpec == CreateInit /\ [][CreateNext]_createVars

\* A handler that runs keeps running: its statements wait for locks only.
CreateFairness ==
  /\ \A r \in Requests : WF_createVars(PostStep(r))
  /\ \A d \in Deletes : WF_createVars(DeleteRow(d))

FairCreateSpec == CreateSpec /\ CreateFairness

-----------------------------------------------------------------------------
(* Properties.                                                             *)

\* The variables have their types.
CreateTypeOK ==
  /\ endpoints \subseteq Endpoints
  /\ jobs \in [Jobs -> Job]
  /\ post \in [Requests -> Post]
  /\ del \in [Deletes -> Delete]
  /\ failures \in Nat

\* What a client may conclude from its answers, whatever it repeats and
\* whichever answers are lost: requests for one (endpoint, key) are told of
\* one job, at most one of them that it created it, and that job is stored
\* under that endpoint and key for good.
AnswersAgree ==
  \A r, q \in Requests :
    LET x == post[r]
        y == post[q]
    IN  x.answer \in {200, 201} =>
          /\ jobs[x.job].endpoint = x.endpoint /\ jobs[x.job].key = x.key
          /\ y.answer \in {200, 201} /\ y.endpoint = x.endpoint /\ y.key = x.key
               /\ x.key # NoKey =>
             y.job = x.job /\ (x.answer = 201 /\ y.answer = 201 => r = q)

\* One job per (endpoint, key), retired ones included, counting the one that
\* an open transaction is about to commit.
OneJobPerKey ==
  \A e \in Endpoints, k \in Keys :
    /\ \A i, j \in StoredUnder(e, k) : i = j
    /\ \A r, q \in Holders(e, k) : r = q
    /\ StoredUnder(e, k) = {} \/ Holders(e, k) = {}

\* The endpoint of every job is there, and so is that of every job about to be
\* committed: deletes and creates of its jobs exclude each other.
EndpointsExist ==
  /\ \A j \in Jobs : jobs[j].status # "NONE" => jobs[j].endpoint \in endpoints
  /\ \A r \in Requests : post[r].phase = "referenced" =>
                           post[r].endpoint \in endpoints

\* Every request that was sent is answered: no two of them wait for each
\* other's keys or endpoints.
EveryPostIsAnswered ==
  \A r \in Requests : post[r].phase # "new" ~> post[r].phase = "done"

\* A request knows its job while it has one: a row of its own that nobody else
\* can see, or the committed one it was told of.
PostsKnowTheirJobs ==
  /\ \A r \in Requests : LET x == post[r] IN
       /\ x.phase # "new" => x.endpoint \in Endpoints
       /\ x.phase # "done" => x.answer = 0
       /\ x.phase \in {"new", "checked"} => x.job = Nothing
       /\ x.phase \in {"inserted", "referenced"} =>
            x.job \in Jobs /\ jobs[x.job].status = "NONE"
       /\ x.answer \in {200, 201} =>
            /\ x.job \in Jobs /\ jobs[x.job].status # "NONE"
            /\ jobs[x.job].endpoint = x.endpoint /\ jobs[x.job].key = x.key
       /\ x.phase = "done" /\ x.answer \notin {200, 201} => x.job = Nothing
  /\ \A r, q \in Requests :
       post[r].job # Nothing /\ post[r].answer # 200 /\ post[q].answer # 200
         /\ post[r].job = post[q].job => r = q

\* The inductive invariant behind the properties.
CreateInv == CreateTypeOK /\ PostsKnowTheirJobs /\ OneJobPerKey /\ EndpointsExist
=============================================================================
