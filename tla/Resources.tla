------------------------------ MODULE Resources ------------------------------
(***************************************************************************)
(* Configs, payload specs, secrets and the endpoint that refers to them:   *)
(* the handlers that create, update and delete them, and the tasks of one  *)
(* worker that load them for a dispatch through the worker's caches.       *)
(*                                                                         *)
(* Every handler checks and then writes in separate statements; foreign    *)
(* keys guard the references to configs and payload specs, and nothing     *)
(* guards the names of secrets inside a spec.  A cache is keyed by name,   *)
(* is filled by the task that missed, and is never invalidated.            *)
(***************************************************************************)
EXTENDS Integers, FiniteSets

CONSTANTS
  Spaces,         \* workspaces that the worker serves
  Configs,        \* names of configs
  Specs,          \* names of payload specs
  Secrets,        \* names of secrets
  None,           \* no reference
  Requests,       \* API requests
  Tasks,          \* tasks of the worker
  ConfigTtl,      \* INVOKR_CONFIG_CACHE_TTL_SEC, in ticks of the clock
  SecretTtl,      \* INVOKR_SECRET_CACHE_TTL_SEC, in ticks of the clock
  MaxVersion,     \* bound: values a row takes
  Horizon         \* bound: ticks of the clock

ASSUME ResourcesAssumption ==
  /\ {ConfigTtl, SecretTtl, MaxVersion, Horizon} \subseteq Nat /\ MaxVersion # 0
  /\ Configs \cap Specs = {} /\ Configs \cap Secrets = {} /\ Specs \cap Secrets = {}
  /\ None \notin Configs \cup Specs \cup Secrets

VARIABLES
  value,          \* value[w][n]: the value of row n, 0 when there is none
  gone,           \* history: gone[w][n][v] is when value v was replaced
  endpoint,       \* endpoint[w]: the references of the endpoint
  used,           \* used[w]: the endpoint has a job
  req,            \* the requests
  cache,          \* cache[n]: the entry of the worker's cache
  task,           \* the tasks
  now             \* the clock

vars == <<value, gone, endpoint, used, req, cache, task, now>>
tables == <<value, gone, endpoint, used>>

-----------------------------------------------------------------------------
Names == Configs \cup Specs \cup Secrets
Cached == Configs \cup Secrets
Never == -1

Endpoint == [exists : BOOLEAN, config : Configs \cup {None}, spec : Specs \cup {None},
             secrets : SUBSET Secrets]

NoEndpoint == [exists |-> FALSE, config |-> None, spec |-> None, secrets |-> {}]

Op == {"create", "update", "delete", "create_endpoint", "update_endpoint",
       "delete_endpoint"}

Request == [op : Op \cup {None}, at : {"new", "checked", "done"}, space : Spaces \cup {None},
            name : Names \cup {None}, body : Endpoint,
            answer : {0, 200, 201, 204, 404, 409, 422, 500}]

NewRequest == [op |-> None, at |-> "new", space |-> None, name |-> None,
               body |-> NoEndpoint, answer |-> 0]

\* A cached value remembers its workspace and how long after its SELECT it was
\* set: history, the worker knows neither.
Entry == [full : BOOLEAN, from : Spaces \cup {None}, version : 0 .. MaxVersion,
          at : 0 .. Horizon, waited : 0 .. Horizon]

NoEntry == [full |-> FALSE, from |-> None, version |-> 0, at |-> 0, waited |-> 0]

Loaded == [name : Cached, from : Spaces, version : 1 .. MaxVersion]

Task == [at : {"idle", "load", "evict", "read", "set", "failed"},
         space : Spaces \cup {None}, wants : SUBSET Cached, name : Cached \cup {None},
         read : 0 .. MaxVersion, selected : 0 .. Horizon, has : SUBSET Loaded,
         config : Configs \cup {None}]

Idle == [at |-> "idle", space |-> None, wants |-> {}, name |-> None, read |-> 0,
         selected |-> 0, has |-> {}, config |-> None]

Exists(w, n) == n # None => value[w][n] # 0
Answered(x, code) == [x EXCEPT !.at = "done", !.answer = code]
Answer(r, x, code) == req' = [req EXCEPT ![r] = Answered(x, code)]

\* The value of a row changes: its old value was current until now.
Write(w, n, v) ==
  /\ value' = [value EXCEPT ![w][n] = v]
  /\ gone' = IF value[w][n] = 0 THEN gone
             ELSE [gone EXCEPT ![w][n][value[w][n]] = now]

\* A value the row never had.
Fresh(w, n) == {v \in 1 .. MaxVersion : v # value[w][n] /\ gone[w][n][v] = Never}

-----------------------------------------------------------------------------
(* POST, PUT and DELETE of configs, payload specs and secrets.             *)

create(r, w, n) ==
  LET x == [req[r] EXCEPT !.op = "create", !.space = w, !.name = n] IN
  /\ req[r].at = "new"
  /\ \/ /\ value[w][n] # 0
        /\ Answer(r, x, 409) /\ UNCHANGED <<value, gone>>
     \/ /\ value[w][n] = 0
        /\ \E v \in Fresh(w, n) : Write(w, n, v)
        /\ Answer(r, x, 201)
  /\ UNCHANGED <<endpoint, used, cache, task, now>>

update(r, w, n) ==
  LET x == [req[r] EXCEPT !.op = "update", !.space = w, !.name = n] IN
  /\ req[r].at = "new"
  /\ \/ /\ value[w][n] = 0
        /\ Answer(r, x, 404) /\ UNCHANGED <<value, gone>>
     \/ /\ value[w][n] # 0
        /\ \E v \in Fresh(w, n) : Write(w, n, v)
        /\ Answer(r, x, 200)
  /\ UNCHANGED <<endpoint, used, cache, task, now>>

\* has_dependent_endpoints: by column, or by text in the spec for a secret.
Dependent(w, n) ==
  endpoint[w].exists /\ n \in {endpoint[w].config, endpoint[w].spec} \cup endpoint[w].secrets

\* The foreign keys of the endpoints table.
References(w, n) == endpoint[w].exists /\ n \in {endpoint[w].config, endpoint[w].spec}

DeleteCheck(r, w, n) ==
  LET x == [req[r] EXCEPT !.op = "delete", !.space = w, !.name = n] IN
  /\ req[r].at = "new"
  /\ IF Dependent(w, n) THEN Answer(r, x, 409)
     ELSE req' = [req EXCEPT ![r] = [x EXCEPT !.at = "checked"]]
  /\ UNCHANGED <<tables, cache, task, now>>

\* The DELETE: no row, refused by a foreign key (500), or done.
delete(r) ==
  LET x == req[r] IN
  /\ x.op = "delete" /\ x.at = "checked"
  /\ \/ /\ value[x.space][x.name] = 0
        /\ Answer(r, x, 404) /\ UNCHANGED <<value, gone>>
     \/ /\ References(x.space, x.name)
        /\ Answer(r, x, 500) /\ UNCHANGED <<value, gone>>
     \/ /\ value[x.space][x.name] # 0 /\ ~References(x.space, x.name)
        /\ Write(x.space, x.name, 0)
        /\ Answer(r, x, 204)
  /\ UNCHANGED <<endpoint, used, cache, task, now>>

-----------------------------------------------------------------------------
(* Endpoints.                                                              *)

\* payload_specs::get and configs::get for the references given.
EndpointCheck(r, w, op, body) ==
  LET x == [req[r] EXCEPT !.op = op, !.space = w, !.body = body] IN
  /\ req[r].at = "new"
  /\ IF Exists(w, body.spec) /\ Exists(w, body.config)
     THEN req' = [req EXCEPT ![r] = [x EXCEPT !.at = "checked"]]
     ELSE Answer(r, x, 422)
  /\ UNCHANGED <<tables, cache, task, now>>

\* INSERT: the primary key and the foreign keys are all answered with 409.
create_endpoint(r) ==
  LET x == req[r]
      w == x.space IN
  /\ x.op = "create_endpoint" /\ x.at = "checked"
  /\ \/ /\ endpoint[w].exists \/ ~Exists(w, x.body.spec) \/ ~Exists(w, x.body.config)
        /\ Answer(r, x, 409) /\ UNCHANGED endpoint
     \/ /\ ~endpoint[w].exists /\ Exists(w, x.body.spec) /\ Exists(w, x.body.config)
        /\ endpoint' = [endpoint EXCEPT ![w] = x.body]
        /\ Answer(r, x, 201)
  /\ UNCHANGED <<value, gone, used, cache, task, now>>

\* UPDATE with COALESCE: a reference left out stays, it cannot be cleared.
Coalesced(old, body) ==
  [exists |-> TRUE, secrets |-> body.secrets,
   config |-> IF body.config = None THEN old.config ELSE body.config,
   spec |-> IF body.spec = None THEN old.spec ELSE body.spec]

\* Mutant: the UPDATE is not subject to the foreign keys.
update_endpoint_unchecked(r) ==
  LET x == req[r]
      w == x.space IN
  /\ x.op = "update_endpoint" /\ x.at = "checked" /\ endpoint[w].exists
  /\ endpoint' = [endpoint EXCEPT ![w] = Coalesced(@, x.body)]
  /\ Answer(r, x, 200)
  /\ UNCHANGED <<value, gone, used, cache, task, now>>

update_endpoint(r) ==
  LET x == req[r]
      w == x.space
      new == Coalesced(endpoint[w], x.body) IN
  /\ x.op = "update_endpoint" /\ x.at = "checked"
  /\ \/ /\ ~endpoint[w].exists
        /\ Answer(r, x, 404) /\ UNCHANGED endpoint
     \/ /\ endpoint[w].exists /\ ~(Exists(w, new.spec) /\ Exists(w, new.config))
        /\ Answer(r, x, 500) /\ UNCHANGED endpoint
     \/ /\ endpoint[w].exists /\ Exists(w, new.spec) /\ Exists(w, new.config)
        /\ endpoint' = [endpoint EXCEPT ![w] = new]
        /\ Answer(r, x, 200)
  /\ UNCHANGED <<value, gone, used, cache, task, now>>

\* JobCreate.tla has the whole story of jobs and their endpoint; here a job,
\* once there, keeps it.
create_job(w) ==
  /\ endpoint[w].exists /\ ~used[w]
  /\ used' = [used EXCEPT ![w] = TRUE]
  /\ UNCHANGED <<value, gone, endpoint, req, cache, task, now>>

\* Mutant: jobs do not keep the endpoint.
delete_endpoint_anyway(r, w) ==
  LET x == [req[r] EXCEPT !.op = "delete_endpoint", !.space = w] IN
  /\ req[r].at = "new"
  /\ Answer(r, x, IF endpoint[w].exists THEN 204 ELSE 404)
  /\ endpoint' = [endpoint EXCEPT ![w] = NoEndpoint]
  /\ UNCHANGED <<value, gone, used, cache, task, now>>

delete_endpoint(r, w) ==
  LET x == [req[r] EXCEPT !.op = "delete_endpoint", !.space = w] IN
  /\ req[r].at = "new"
  /\ Answer(r, x, IF used[w] THEN 409 ELSE IF endpoint[w].exists THEN 204 ELSE 404)
  /\ endpoint' = IF used[w] THEN endpoint ELSE [endpoint EXCEPT ![w] = NoEndpoint]
  /\ UNCHANGED <<value, gone, used, cache, task, now>>

-----------------------------------------------------------------------------
(* A task loads what its endpoint names.                                   *)

Ttl(n) == IF n \in Configs THEN ConfigTtl ELSE SecretTtl

\* process_execution: endpoints::get, and from it the names to load.
Begin(t, w) ==
  LET ep == endpoint[w] IN
  /\ task[t].at = "idle" /\ used[w]
  /\ task' = [task EXCEPT ![t] =
       [Idle EXCEPT !.at = "load", !.space = w, !.config = ep.config,
                    !.wants = (ep.secrets \cup {ep.config}) \ {None}]]
  /\ UNCHANGED <<tables, req, cache, now>>

Have(x, n, w, v) ==
  [x EXCEPT !.at = "load", !.name = None, !.read = 0, !.selected = 0, !.wants = @ \ {n},
            !.has = @ \cup {[name |-> n, from |-> w, version |-> v]}]

\* The config is loaded first, then each secret.
Wanted(x) == IF x.wants \cap Configs # {} THEN x.wants \cap Configs ELSE x.wants

\* Mutant: the entry's age starts again whenever it is used.
Lookup_sliding(t, n) ==
  LET x == task[t]
      e == cache[n] IN
  /\ x.at = "load" /\ n \in Wanted(x)
  /\ IF e.full /\ now - e.at < Ttl(n)
     THEN /\ task' = [task EXCEPT ![t] = Have(x, n, e.from, e.version)]
          /\ cache' = [cache EXCEPT ![n].at = now]
     ELSE /\ task' = [task EXCEPT ![t].at = IF e.full THEN "evict" ELSE "read",
                                  ![t].name = n]
          /\ UNCHANGED cache
  /\ UNCHANGED <<tables, req, now>>

\* ConfigCache::get and SecretCache::get.
Lookup(t, n) ==
  LET x == task[t]
      e == cache[n] IN
  /\ x.at = "load" /\ n \in Wanted(x)
  /\ task' = [task EXCEPT ![t] =
       IF e.full /\ now - e.at < Ttl(n) THEN Have(x, n, e.from, e.version)
       ELSE [x EXCEPT !.at = IF e.full THEN "evict" ELSE "read", !.name = n]]
  /\ UNCHANGED <<tables, req, cache, now>>

\* The lock of the entry is released before it is removed, so the entry of
\* another task may go.
Evict(t) ==
  /\ task[t].at = "evict"
  /\ cache' = [cache EXCEPT ![task[t].name] = NoEntry]
  /\ task' = [task EXCEPT ![t].at = "read"]
  /\ UNCHANGED <<tables, req, now>>

\* configs::get or secrets::get, awaited: the clock goes on before the set().
\* No row fails the execution for good.
Read(t) ==
  LET x == task[t]
      v == value[x.space][x.name] IN
  /\ x.at = "read"
  /\ task' = [task EXCEPT ![t].at = IF v = 0 THEN "failed" ELSE "set", ![t].read = v,
                               ![t].selected = now]
  /\ UNCHANGED <<tables, req, cache, now>>

\* ConfigCache::set and SecretCache::set: the last one wins, and the entry's
\* Instant is of now, not of the SELECT.
Set(t) ==
  LET x == task[t] IN
  /\ x.at = "set"
  /\ cache' = [cache EXCEPT ![x.name] =
                 [full |-> TRUE, from |-> x.space, version |-> x.read, at |-> now,
                  waited |-> now - x.selected]]
  /\ task' = [task EXCEPT ![t] = Have(x, x.name, x.space, x.read)]
  /\ UNCHANGED <<tables, req, now>>

\* Resolved and dispatched, or failed.
End(t) ==
  /\ task[t].at = "failed" \/ (task[t].at = "load" /\ task[t].wants = {})
  /\ task' = [task EXCEPT ![t] = Idle]
  /\ UNCHANGED <<tables, req, cache, now>>

Tick ==
  /\ now < Horizon
  /\ now' = now + 1
  /\ UNCHANGED <<tables, req, cache, task>>

-----------------------------------------------------------------------------
Init ==
  /\ value = [w \in Spaces |-> [n \in Names |-> 1]]
  /\ gone = [w \in Spaces |-> [n \in Names |-> [v \in 1 .. MaxVersion |-> Never]]]
  /\ endpoint = [w \in Spaces |-> NoEndpoint]
  /\ used = [w \in Spaces |-> FALSE]
  /\ req = [r \in Requests |-> NewRequest]
  /\ cache = [n \in Cached |-> NoEntry]
  /\ task = [t \in Tasks |-> Idle]
  /\ now = 0

Bodies == {b \in Endpoint : b.exists}

Api(r) ==
  \/ \E w \in Spaces, n \in Names : create(r, w, n) \/ update(r, w, n) \/ DeleteCheck(r, w, n)
  \/ \E w \in Spaces, b \in Bodies, op \in {"create_endpoint", "update_endpoint"} :
       EndpointCheck(r, w, op, b)
  \/ \E w \in Spaces : delete_endpoint(r, w)
  \/ delete(r) \/ create_endpoint(r) \/ update_endpoint(r)

Worker(t) ==
  \/ \E w \in Spaces : Begin(t, w)
  \/ \E n \in Cached : Lookup(t, n)
  \/ Evict(t) \/ Read(t) \/ Set(t) \/ End(t)

Next ==
  \/ \E r \in Requests : Api(r)
  \/ \E w \in Spaces : create_job(w)
  \/ \E t \in Tasks : Worker(t)
  \/ Tick

Spec == Init /\ [][Next]_vars

-----------------------------------------------------------------------------
(* Properties.                                                             *)

\* The variables have their types.
TypeOK ==
  /\ value \in [Spaces -> [Names -> 0 .. MaxVersion]]
  /\ gone \in [Spaces -> [Names -> [1 .. MaxVersion -> {Never} \cup 0 .. Horizon]]]
  /\ endpoint \in [Spaces -> Endpoint] /\ used \in [Spaces -> BOOLEAN]
  /\ req \in [Requests -> Request]
  /\ cache \in [Cached -> Entry] /\ task \in [Tasks -> Task]
  /\ now \in 0 .. Horizon

\* What an endpoint refers to is there, however creates, updates and deletes
\* of both sides overlap: their checks alone would not do.
ReferencesResolve ==
  \A w \in Spaces : endpoint[w].exists =>
    Exists(w, endpoint[w].config) /\ Exists(w, endpoint[w].spec)

\* The rows, requests, caches and tasks are well-formed and no reference of an
\* endpoint dangles between the check of a handler and its statement.
ResourcesInv == TypeOK /\ ReferencesResolve

\* A task does not find the config of its endpoint only when, at that moment,
\* the endpoint points elsewhere than when the task read it: jobs hold the
\* endpoint and the endpoint holds its config.
MissedMeansMoved ==
  [][\A t \in Tasks :
       /\ task[t].at # "failed" /\ task'[t].at = "failed"
       /\ task[t].name \in Configs
       => /\ endpoint[task[t].space].exists
          /\ endpoint[task[t].space].config # task[t].config]_vars

\* "there can be up to a 60-second delay": a value handed to a dispatch was
\* replaced less than the time to live ago, plus the time its reader took from
\* the SELECT to the set() that starts the entry's age, whatever tasks
\* overwrite and evict in between.
StaleAtMostTtl ==
  [][\A t \in Tasks : \A u \in task'[t].has \ task[t].has :
       LET replaced == gone[u.from][u.name][u.version]
           stale == now - replaced - cache'[u.name].waited IN
       replaced # Never => stale <= 0 \/ stale < Ttl(u.name)]_vars

-----------------------------------------------------------------------------
(* What the documentation says and the code does not do.                   *)

\* "No shared resources between tenants": a dispatch uses the configs and the
\* secrets of its own workspace.
OwnValues ==
  \A t \in Tasks : \A u \in task[t].has : u.from = task[t].space
=============================================================================
