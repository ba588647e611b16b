------------------------------ MODULE ApiCalls ------------------------------
(***************************************************************************)
(* A call through one of the two HTTP clients of the API, the generated    *)
(* client and the dashboard's, from its arguments to its result: the       *)
(* request it makes, the network, the server's front door and handler, the *)
(* answer as the client reads it, and the generated client's retries.      *)
(* The handlers are cut down to what a caller can tell apart; their        *)
(* interleavings are in JobCreate, CronJobs and Resources.                 *)
(***************************************************************************)
EXTENDS SdkOperations, Routes, DashboardCalls, FiniteSets

CONSTANTS
  Calls,          \* the calls that are made
  Menu(_, _),     \* what each may ask for, given what the others have
  Labels,         \* the names and ids a call may be about
  UrlReads,       \* UrlReads[l]: the segments a URL has of l put in as it is
  Cutting,        \* labels with a '?' or a '#': what follows is no path
  AuthMode,       \* "Disabled" or the name of a provider
  MaxAttempts,    \* what the user's RetryConfig may say (1: retries are off)
  MaxFaults,      \* how often the network or the database may fail
  Absent          \* no argument, no answer yet

ASSUME ApiCallsAssumption ==
  /\ Cutting \subseteq Labels /\ MaxAttempts \subseteq Nat \ {0} /\ MaxFaults \in Nat
  /\ Absent \notin Labels \cup {"k", "Ok"} /\ \A r \in RouteTable : Absent # r.handler

VARIABLES
  input,      \* what each caller asked for
  sent,       \* the request its client made of it
  phase,      \* new, waiting, answered, failed (no answer came), done
  attempt,    \* how many requests the call has made
  wire,       \* those of them the server has not served yet
  answer,     \* the status and data of the answer to the latest
  result,     \* what the caller is told
  store,      \* the server's rows
  faults,
  ledger      \* history: what was served, what took effect, what was not told

vars == <<input, sent, phase, attempt, wire, answer, result, store, faults, ledger>>

-----------------------------------------------------------------------------
(* The requests.                                                           *)

\* bound: the ids that jobs are given.
JobIds == <<"j1", "j2", "j3", "j4", "j5">>

OperationsOf(client) == IF client = "sdk" THEN Operations ELSE DashboardOperations

OpOf(in) == CHOOSE o \in OperationsOf(in.client) : o.name = in.op

TakesLabel(o) == Label \in {o.request.path[i] : i \in DOMAIN o.request.path}

\* The generated client percent-encodes a label, so that it stays one segment;
\* the dashboard formats it into the path as it is, where '/' separates, '?' and
\* '#' end the path and '%' is decoded.
Segments(client, label) == IF client = "dashboard" THEN UrlReads[label] ELSE <<label>>

PathOf(client, o, label) ==
  LET path == o.request.path
      i == CHOOSE j \in DOMAIN path : path[j] = Label
      rest == SubSeq(path, i + 1, Len(path))
  IN  IF ~ TakesLabel(o) THEN path
      ELSE SubSeq(path, 1, i - 1) \o Segments(client, label)
             \o (IF client = "dashboard" /\ label \in Cutting THEN <<>> ELSE rest)

\* The serializer's BuildError: a label that is unset or empty.
Refuses(client, o, label) ==
  client = "sdk" /\ TakesLabel(o) /\ label \in {Absent, ""}

-----------------------------------------------------------------------------
(* The server.  A handler is a function of the store and the request; it   *)
(* gives the status, the data and the store after it.                      *)

Reply(status, data, s) == [status |-> status, data |-> data, store |-> s]

\* payload_specs, configs, secrets, endpoints, organizations and workspaces:
\* rows under a name, some of which other rows depend on.
NamedHandler(kind, verb, name, s) ==
  LET row == <<kind, name>>
  IN  CASE verb = "list"   -> Reply(200, Absent, s)
        [] verb = "create" -> IF row \in s.named THEN Reply(409, Absent, s)
                              ELSE Reply(201, name, [s EXCEPT !.named = @ \cup {row}])
        [] verb = "delete" -> IF row \in s.used THEN Reply(409, Absent, s)
                              ELSE IF row \notin s.named THEN Reply(404, Absent, s)
                              ELSE Reply(204, Absent, [s EXCEPT !.named = @ \ {row}])
        [] OTHER           -> IF row \notin s.named THEN Reply(404, Absent, s)
                              ELSE Reply(200, name, s)

\* Ids are uuids: here the n-th job has the n-th id.
Numbers(id, s) == {n \in DOMAIN s.jobs : JobIds[n] = id}

AddJob(key, trigger, s) ==
  [s EXCEPT !.jobs = Append(@, [status |-> "ACTIVE", trigger |-> trigger, key |-> key])]

NextId(s) == JobIds[Len(s.jobs) + 1]

WithKey(key, s) == {n \in DOMAIN s.jobs : key # Absent /\ s.jobs[n].key = key}

\* Mutant: the key is stored and not looked up.
CreateJobHandler_blind(key, trigger, s) == Reply(201, NextId(s), AddJob(key, trigger, s))

\* A DELAYED job must have a key.
CreateJobHandler(key, trigger, s) ==
  IF WithKey(key, s) # {}
  THEN Reply(200, JobIds[CHOOSE n \in WithKey(key, s) : TRUE], s)
  ELSE IF trigger = "DELAYED" /\ key = Absent THEN Reply(400, Absent, s)
  ELSE Reply(201, NextId(s), AddJob(key, trigger, s))

\* update replaces a CRON job by its next version, which has no key.
UpdateJobHandler(n, s) ==
  IF s.jobs[n].trigger # "CRON" \/ s.jobs[n].status # "ACTIVE" THEN Reply(409, Absent, s)
  ELSE Reply(200, NextId(s), AddJob(Absent, "CRON", [s EXCEPT !.jobs[n].status = "RETIRED"]))

\* A RETIRED job is not cancelled again.
CancelJobHandler(n, s) ==
  IF s.jobs[n].status = "RETIRED" THEN Reply(409, Absent, s)
  ELSE Reply(200, JobIds[n], [s EXCEPT !.jobs[n].status = "RETIRED"])

JobHandler(verb, id, in, s) ==
  LET Found(n) == CASE verb = "update" -> UpdateJobHandler(n, s)
                    [] verb = "cancel" -> CancelJobHandler(n, s)
                    [] OTHER           -> Reply(200, id, s)
  IN  CASE verb = "create" -> CreateJobHandler(in.key, in.trigger, s)
        [] verb = "list"   -> Reply(200, Absent, s)
        [] OTHER           -> IF Numbers(id, s) = {} THEN Reply(404, Absent, s)
                              ELSE Found(CHOOSE n \in Numbers(id, s) : TRUE)

ExecutionHandler(verb, id, s) ==
  IF id # "x1" THEN Reply(404, Absent, s)
  ELSE IF verb # "cancel" THEN Reply(200, id, s)
  ELSE IF s.exec # "PENDING" THEN Reply(409, Absent, s)
  ELSE Reply(200, id, [s EXCEPT !.exec = "CANCELLED"])

Handle(handler, target, in, s) ==
  CASE handler[1] = "jobs"       -> JobHandler(handler[2], target, in, s)
    [] handler[1] = "executions" -> ExecutionHandler(handler[2], target, s)
    [] handler[1] = "workspaces" /\ <<"organizations", target>> \notin s.named ->
         Reply(404, Absent, s)
    [] OTHER -> NamedHandler(handler[1], handler[2],
                             IF handler[2] = "create" THEN in.label ELSE target, s)

\* The workspace extractor, which the management handlers do without.
FrontDoor(handler, access) ==
  IF handler[1] \in {"organizations", "workspaces"} THEN 200 ELSE ResolveWorkspace(access.headers)

\* The middleware turns a stranger away before the path is looked at.
Answer(in, req, s) ==
  LET hits == Reached(req.method, req.path)
      Turned(status) == [reply |-> Reply(status, Absent, s), handler |-> Absent, target |-> Absent]
      Into(route) ==
        IF FrontDoor(route.handler, in.access) # 200
        THEN Turned(FrontDoor(route.handler, in.access))
        ELSE [reply |-> Handle(route.handler, Captured(route, req.path), in, s),
              handler |-> route.handler, target |-> Captured(route, req.path)]
  IN  IF authenticate(AuthMode, in.access.credential, FALSE) # "authenticated" THEN Turned(401)
      ELSE IF hits = {} THEN Turned(404)
      ELSE Into(CHOOSE r \in hits : TRUE)

-----------------------------------------------------------------------------
(* The calls.                                                              *)

NoLedger == [served |-> {}, applied |-> 0, lost |-> 0]

Accesses ==
  [credential : {"bearer", "session", "none"}, headers : {"present", "missing", "unknown"}]

\* Whether an operation can be given a key and a trigger.
Takes(client, o, member) ==
  IF client = "sdk" THEN member \in o.members ELSE o.name = "create_job"

\* The arguments of a call.  A member of the generated input may be left unset,
\* an argument of a dashboard function cannot; only the generated client has a
\* RetryConfig.
Arguments(client, o) ==
  [client : {client}, op : {o.name},
   label : IF client = "sdk" THEN Labels \cup {Absent} ELSE Labels,
   key : IF Takes(client, o, "idempotency_key") THEN {Absent, "k"} ELSE {Absent},
   trigger : IF Takes(client, o, "trigger") THEN {"IMMEDIATE", "DELAYED", "CRON"} ELSE {"none"},
   access : Accesses,
   attempts : IF client = "sdk" THEN MaxAttempts ELSE {1}]

Begin(c, in) ==
  LET o == OpOf(in) IN
  /\ phase[c] = "new"
  /\ o \in OperationsOf(in.client) /\ in \in Arguments(in.client, o)
  /\ input' = [input EXCEPT ![c] = in]
  /\ IF Refuses(in.client, o, in.label)
     THEN /\ phase' = [phase EXCEPT ![c] = "done"]
          /\ result' = [result EXCEPT ![c] = [outcome |-> "BuildError", data |-> Absent]]
          /\ UNCHANGED <<sent, attempt, wire>>
     ELSE /\ phase' = [phase EXCEPT ![c] = "waiting"]
          /\ sent' = [sent EXCEPT ![c] =
               [method |-> o.request.method, path |-> PathOf(in.client, o, in.label)]]
          /\ attempt' = [attempt EXCEPT ![c] = 1]
          /\ wire' = [wire EXCEPT ![c] = {1}]
          /\ UNCHANGED result
  /\ UNCHANGED <<answer, store, faults, ledger>>

\* The answer to request n reaches the caller if it still waits for that one.
Deliver(c, n, status, data) ==
  IF phase[c] = "waiting" /\ attempt[c] = n
  THEN /\ phase' = [phase EXCEPT ![c] = "answered"]
       /\ answer' = [answer EXCEPT ![c] = [status |-> status, data |-> data]]
  ELSE UNCHANGED <<phase, answer>>

IsWrite(handler) == handler[2] \in {"create", "update", "delete", "cancel"}

\* The store changed, or a row was written anew.
TookEffect(a) ==
  /\ a.handler # Absent /\ IsWrite(a.handler) /\ a.reply.status \in {200, 201, 204}
  /\ a.reply.store # store \/ a.handler[2] = "update"

ServeAs(c, n, a) ==
  /\ wire' = [wire EXCEPT ![c] = @ \ {n}]
  /\ store' = a.reply.store
  /\ Deliver(c, n, a.reply.status, a.reply.data)
  /\ ledger' = [ledger EXCEPT ![c] =
       [served |-> IF a.handler = Absent THEN @.served
                   ELSE @.served \cup {[handler |-> a.handler, target |-> a.target]},
        applied |-> IF TookEffect(a) THEN @.applied + 1 ELSE @.applied,
        lost |-> @.lost]]
  /\ UNCHANGED <<input, sent, attempt, result, faults>>

Serve(c, n) ==
  \E a \in {Answer(input[c], sent[c], store)} :
    Len(a.reply.store.jobs) <= Len(JobIds) /\ ServeAs(c, n, a)

\* The row of another request with the same key appears after the lookup: a
\* conflict, which create_delayed alone leaves a database error.
ServeRaced(c, n) ==
  \E a \in {Answer(input[c], sent[c], store)} :
    /\ a.handler = <<"jobs", "create">> /\ WithKey(input[c].key, store) # {}
    /\ wire' = [wire EXCEPT ![c] = @ \ {n}]
    /\ Deliver(c, n, IF input[c].trigger = "DELAYED" THEN 500 ELSE 409, Absent)
    /\ ledger' = [ledger EXCEPT ![c].served = @ \cup {[handler |-> a.handler, target |-> a.target]}]
    /\ UNCHANGED <<input, sent, attempt, result, store, faults>>

\* A database error before anything was committed: the answer is 500.
ServeError(c, n) ==
  /\ n \in wire[c] /\ faults < MaxFaults
  /\ wire' = [wire EXCEPT ![c] = @ \ {n}]
  /\ Deliver(c, n, 500, Absent)
  /\ faults' = faults + 1
  /\ UNCHANGED <<input, sent, attempt, result, store, ledger>>

\* The commit takes effect and its acknowledgement is lost, or a step after the
\* first commit fails (create_workspace): 500 again, and the effect stays.
ServeUnacknowledged(c, n) ==
  \E a \in {Answer(input[c], sent[c], store)} :
    /\ TookEffect(a) /\ Len(a.reply.store.jobs) <= Len(JobIds) /\ faults < MaxFaults
    /\ wire' = [wire EXCEPT ![c] = @ \ {n}]
    /\ store' = a.reply.store
    /\ Deliver(c, n, 500, Absent)
    /\ ledger' = [ledger EXCEPT ![c] =
         [served |-> @.served \cup {[handler |-> a.handler, target |-> a.target]},
          applied |-> @.applied + 1, lost |-> @.lost + 1]]
    /\ faults' = faults + 1
    /\ UNCHANGED <<input, sent, attempt, result>>

\* The connection breaks before the server has the request.
ConnectionLost(c) ==
  /\ phase[c] = "waiting" /\ attempt[c] \in wire[c] /\ faults < MaxFaults
  /\ wire' = [wire EXCEPT ![c] = @ \ {attempt[c]}]
  /\ phase' = [phase EXCEPT ![c] = "failed"]
  /\ faults' = faults + 1
  /\ UNCHANGED <<input, sent, attempt, answer, result, store, ledger>>

\* The connection breaks, or the caller's timeout passes, with the request at
\* the server: it is served, and its answer is not heard.
AnswerLost(c) ==
  /\ phase[c] = "waiting" /\ attempt[c] \in wire[c] /\ faults < MaxFaults
  /\ phase' = [phase EXCEPT ![c] = "failed"]
  /\ ledger' = [ledger EXCEPT ![c].lost = @ + 1]
  /\ faults' = faults + 1
  /\ UNCHANGED <<input, sent, attempt, wire, answer, result, store>>

\* TransientErrorClassifier and HttpStatusCodeClassifier; no error of the
\* service is modelled as retryable.
Retryable(c) ==
  \/ phase[c] = "failed"
  \/ phase[c] = "answered" /\ answer[c].status \in {500, 502, 503, 504}

\* Mutant: the first attempt is not counted.
MayRetry_retries(c) == Retryable(c) /\ attempt[c] <= input[c].attempts

MayRetry(c) == Retryable(c) /\ attempt[c] < input[c].attempts

Retry(c) ==
  /\ MayRetry(c)
  /\ attempt' = [attempt EXCEPT ![c] = @ + 1]
  /\ wire' = [wire EXCEPT ![c] = @ \cup {attempt[c] + 1}]
  /\ phase' = [phase EXCEPT ![c] = "waiting"]
  /\ answer' = [answer EXCEPT ![c] = Absent]
  /\ UNCHANGED <<input, sent, result, store, faults, ledger>>

\* Mutant: only the server's own errors count.
Succeeds_below500(in, status) == status < 500

\* The deserializer: any 2xx, or the status the model names.
Succeeds(in, status) ==
  \/ status \in 200 .. 299
  \/ in.client = "sdk" /\ status = OpOf(in).request.ok

\* The code at the top of the error body.  The server's body is
\* {"error": {"code": ...}}, so there is none.
parse_error_metadata(status) == Absent

ErrorOf(in, status) ==
  LET code == parse_error_metadata(status)
  IN  IF in.client = "sdk" /\ code \in OpOf(in).errors THEN code ELSE "Unhandled"

DataOf(in, data) ==
  IF in.client = "sdk" /\ "data" \notin OpOf(in).reads THEN Absent ELSE data

ResultOf(c) ==
  IF phase[c] = "failed" THEN [outcome |-> "DispatchFailure", data |-> Absent]
  ELSE IF Succeeds(input[c], answer[c].status)
  THEN [outcome |-> "Ok", data |-> DataOf(input[c], answer[c].data)]
  ELSE [outcome |-> ErrorOf(input[c], answer[c].status), data |-> Absent]

\* Mutant: one attempt too many is expected before the call gives up.
Finish_offByOne(c) ==
  /\ \/ phase[c] = "answered"
     \/ phase[c] = "failed" /\ attempt[c] > input[c].attempts
  /\ ~ MayRetry(c)
  /\ result' = [result EXCEPT ![c] = ResultOf(c)]
  /\ phase' = [phase EXCEPT ![c] = "done"]
  /\ UNCHANGED <<input, sent, attempt, wire, answer, store, faults, ledger>>

Finish(c) ==
  /\ phase[c] \in {"answered", "failed"}
  /\ ~ MayRetry(c)
  /\ result' = [result EXCEPT ![c] = ResultOf(c)]
  /\ phase' = [phase EXCEPT ![c] = "done"]
  /\ UNCHANGED <<input, sent, attempt, wire, answer, store, faults, ledger>>

\* A worker commits what it made of the execution meanwhile.
Settle ==
  /\ store.exec = "PENDING"
  /\ store' = [store EXCEPT !.exec = "SUCCESS"]
  /\ UNCHANGED <<input, sent, phase, attempt, wire, answer, result, faults, ledger>>

Init ==
  /\ input = [c \in Calls |-> Absent]
  /\ sent = [c \in Calls |-> Absent]
  /\ phase = [c \in Calls |-> "new"]
  /\ attempt = [c \in Calls |-> 0]
  /\ wire = [c \in Calls |-> {}]
  /\ answer = [c \in Calls |-> Absent]
  /\ result = [c \in Calls |-> Absent]
  /\ store \in [named : {{<<"organizations", "a">>, <<"configs", "a">>, <<"endpoints", "a?b">>}},
                used : {{}, {<<"configs", "a">>}}, exec : {"PENDING"},
                jobs : {<<[status |-> "ACTIVE", trigger |-> "CRON", key |-> Absent]>>}]
  /\ faults = 0
  /\ ledger = [c \in Calls |-> NoLedger]

Server(c) ==
  \E n \in wire[c] :
    Serve(c, n) \/ ServeRaced(c, n) \/ ServeError(c, n) \/ ServeUnacknowledged(c, n)

Client(c) == Retry(c) \/ Finish(c)

Next ==
  \/ \E c \in Calls : \/ \E in \in Menu(c, input) : Begin(c, in)
                      \/ Server(c) \/ Client(c) \/ ConnectionLost(c) \/ AnswerLost(c)
  \/ Settle

Spec == Init /\ [][Next]_vars

Runs(c) == Client(c) \/ \E n \in wire[c] : Serve(c, n)

\* The server serves what it has received and the clients' tasks run.  As no
\* call runs for ever, it is enough that some server or client can always go on.
Fairness == WF_vars(\E c \in Calls : Runs(c))

FairSpec == Spec /\ Fairness

-----------------------------------------------------------------------------

TypeOK ==
  /\ phase \in [Calls -> {"new", "waiting", "answered", "failed", "done"}]
  /\ attempt \in [Calls -> Nat] /\ faults \in 0 .. MaxFaults
  /\ \A c \in Calls :
       /\ wire[c] \subseteq 1 .. attempt[c]
       /\ phase[c] # "new" => attempt[c] <= input[c].attempts
       /\ (answer[c] # Absent) => phase[c] \in {"answered", "done"}
       /\ (result[c] # Absent) => phase[c] = "done"
  /\ store.exec \in {"PENDING", "SUCCESS", "CANCELLED"} /\ Len(store.jobs) <= Len(JobIds)

\* The handler each operation reaches with a plain argument.
HandlerOf ==
  UNION {{[name |-> o.name, handler |-> r.handler] :
            r \in Reached(o.request.method, PathOf("sdk", o, "a"))} :
         o \in Operations \cup DashboardOperations}

\* The path says the label the caller gave: the generated client's always, the
\* dashboard's while the label has nothing in it that a URL reads otherwise.
Verbatim(in) ==
  \/ in.client = "sdk" \/ ~ TakesLabel(OpOf(in))
  \/ UrlReads[in.label] = <<in.label>> /\ in.label \notin Cutting

\* The two clients and the router agree.  A handler only ever serves a call of
\* the operation both clients know by that name, and finds in the path the very
\* name or id the caller gave, a '/' or '?' in it included when the generated
\* client sent it; a caller without credentials reaches none.
ServedAsAsked ==
  \A c \in Calls : \A s \in ledger[c].served :
    /\ input[c].access.credential # "none" \/ AuthMode = "Disabled"
    /\ Verbatim(input[c]) =>
         /\ TakesLabel(OpOf(input[c])) => s.target = input[c].label
         /\ \A h \in HandlerOf : (h.handler = s.handler) <=> (h.name = input[c].op)

\* A key names one job: whatever is retried, lost or served late, one row has
\* it, and every create_job that succeeded with it got that row.
KeyedJobOnce ==
  /\ Cardinality(WithKey("k", store)) <= 1
  /\ \A c \in Calls :
       phase[c] = "done" /\ result[c].outcome = "Ok" /\ input[c].op = "create_job"
         /\ input[c].key = "k"
       => Numbers(result[c].data, store) = WithKey("k", store)

\* A call is in one state with its caller, its wire and its result in step, and
\* a key stands for one job however often create_job is sent.
CallsInv == TypeOK /\ KeyedJobOnce

Writes(in) == OpOf(in).request.method # "GET"

\* What the caller is told is true: a write that succeeded was made (by this
\* call, or for a key by an earlier one), and one that was refused left nothing
\* behind, unless an attempt took effect without a word to the caller: its
\* answer was lost, or it was a 500 after a commit.
AnswersTellTruth ==
  \A c \in Calls : phase[c] = "done" =>
    /\ result[c].outcome = "Ok" /\ Writes(input[c]) =>
         ledger[c].applied > 0 \/ (input[c].op = "create_job" /\ input[c].key # Absent)
    /\ result[c].outcome \notin {"Ok", "DispatchFailure"} =>
         ledger[c].applied = 0 \/ ledger[c].lost > 0

\* A call takes effect once, and once more at most for each attempt whose
\* answer was lost or was a 500 after a commit; without a RetryConfig (the
\* dashboard, the client's default) once.
EffectsArePaidFor ==
  \A c \in Calls :
    /\ ledger[c].applied <= 1 + ledger[c].lost
    /\ phase[c] # "new" /\ input[c].attempts = 1 => ledger[c].applied <= 1

\* Every call that was begun ends with a result.
EveryCallEnds == \A c \in Calls : (phase[c] # "new") ~> (phase[c] = "done")
=============================================================================
