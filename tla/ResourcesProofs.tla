--------------------------- MODULE ResourcesProofs ---------------------------
(***************************************************************************)
(* Theorems about Resources: for any workspaces, rows, requests, tasks and *)
(* times to live, no reference of an endpoint dangles, a config is missed  *)
(* only by a task whose endpoint was pointed elsewhere, and a cached value *)
(* outlives its row by less than its time to live and the time its reader  *)
(* took to cache it.                                                       *)
(***************************************************************************)
EXTENDS Resources, TLAPS

(* A row never had its value replaced. *)
RowsInv ==
  \A w \in Spaces, n \in Names :
    value[w][n] # 0 => gone[w][n][value[w][n]] = Never

(* A job holds its endpoint. *)
UsedInv == \A w \in Spaces : used[w] => endpoint[w].exists

(* What the check of a handler leaves for its statement. *)
RequestsInv ==
  \A r \in Requests : req[r].at = "checked" =>
    /\ req[r].space \in Spaces
    /\ req[r].op = "delete" => req[r].name \in Names

(* An entry was set at or before now, and its value was current when its
   reader selected it. *)
EntryOK(n, e) ==
  e.full =>
    /\ e.from \in Spaces /\ e.version \in 1 .. MaxVersion /\ e.at <= now
    /\ \/ gone[e.from][n][e.version] = Never
       \/ e.at - e.waited <= gone[e.from][n][e.version]

EntriesInv == \A n \in Cached : EntryOK(n, cache[n])

(* A task serves an endpoint that a job holds, and the only config it asks
   for is the one it read there.  What it is about to cache was current when
   it was selected. *)
TaskOK(x) ==
  x.at # "idle" =>
    /\ x.space \in Spaces /\ used[x.space]
    /\ x.wants \cap Configs \subseteq {x.config}
    /\ x.at \in {"evict", "read", "set", "failed"} =>
         x.name \in Cached /\ (x.name \in Configs => x.name = x.config)
    /\ x.at = "set" =>
         /\ x.read \in 1 .. MaxVersion /\ x.selected <= now
         /\ \/ gone[x.space][x.name][x.read] = Never
            \/ x.selected <= gone[x.space][x.name][x.read]

TasksInv == \A t \in Tasks : TaskOK(task[t])

IInv ==
  /\ ResourcesInv /\ RowsInv /\ UsedInv /\ RequestsInv /\ EntriesInv /\ TasksInv

-----------------------------------------------------------------------------
(* Rows, requests and endpoints.                                           *)

LEMMA Facts ==
  ASSUME IInv
  PROVE  /\ TypeOK /\ ReferencesResolve
         /\ value \in [Spaces -> [Names -> 0 .. MaxVersion]]
         /\ gone \in [Spaces -> [Names -> [1 .. MaxVersion -> {Never} \cup 0 .. Horizon]]]
         /\ endpoint \in [Spaces -> Endpoint] /\ used \in [Spaces -> BOOLEAN]
         /\ req \in [Requests -> Request]
         /\ cache \in [Cached -> Entry] /\ task \in [Tasks -> Task]
         /\ now \in 0 .. Horizon /\ now \in Nat /\ Horizon \in Nat /\ MaxVersion \in Nat
         /\ Cached \subseteq Names
         /\ None \notin Names
  <1>1. Horizon \in Nat /\ MaxVersion \in Nat
    BY ResourcesAssumption
  <1>2. TypeOK /\ ReferencesResolve
    BY DEF IInv, ResourcesInv
  <1>3. now \in 0 .. Horizon /\ now \in Nat
    BY <1>1, <1>2 DEF TypeOK
  <1>4. Cached \subseteq Names /\ None \notin Names
    BY ResourcesAssumption DEF Cached, Names
  <1> QED
    BY <1>1, <1>2, <1>3, <1>4 DEF TypeOK

(* Filling in one field of a request. *)
LEMMA AtIs ==
  ASSUME NEW x \in Request, NEW at \in {"new", "checked", "done"}
  PROVE  LET y == [x EXCEPT !.at = at] IN
         /\ y \in Request /\ y.at = at
         /\ y.op = x.op /\ y.space = x.space /\ y.name = x.name
  BY DEF Request

LEMMA OpIs ==
  ASSUME NEW x \in Request, NEW op \in Op
  PROVE  LET y == [x EXCEPT !.op = op] IN
         /\ y \in Request /\ y.op = op
         /\ y.space = x.space /\ y.name = x.name /\ y.at = x.at
  BY DEF Request

LEMMA SpaceIs ==
  ASSUME NEW x \in Request, NEW w \in Spaces
  PROVE  LET y == [x EXCEPT !.space = w] IN
         /\ y \in Request /\ y.space = w
         /\ y.op = x.op /\ y.name = x.name /\ y.at = x.at
  BY DEF Request

LEMMA NameIs ==
  ASSUME NEW x \in Request, NEW n \in Names
  PROVE  LET y == [x EXCEPT !.name = n] IN
         /\ y \in Request /\ y.name = n
         /\ y.op = x.op /\ y.space = x.space /\ y.at = x.at
  BY DEF Request

LEMMA BodyIs ==
  ASSUME NEW x \in Request, NEW b \in Endpoint
  PROVE  LET y == [x EXCEPT !.body = b] IN
         /\ y \in Request
         /\ y.op = x.op /\ y.space = x.space /\ y.name = x.name /\ y.at = x.at
  BY DEF Request

(* A request that answers, or passes its check, is well-formed. *)
LEMMA RequestAnswers ==
  ASSUME IInv, NEW r \in Requests, NEW x \in Request,
         NEW code \in {0, 200, 201, 204, 404, 409, 422, 500}, Answer(r, x, code)
  PROVE  req' \in [Requests -> Request] /\ RequestsInv'
  <1>1. Answered(x, code) \in Request /\ Answered(x, code).at = "done"
    <2>1. PICK y : y = [x EXCEPT !.at = "done"]
      OBVIOUS
    <2>2. y \in Request /\ y.at = "done"
      BY <2>1, AtIs, ZenonT(60)
    <2>3. PICK z : z = [y EXCEPT !.answer = code]
      OBVIOUS
    <2>4. z \in Request /\ z.at = "done"
      BY <2>2, <2>3 DEF Request
    <2>5. Answered(x, code) = z
      BY <2>1, <2>3 DEF Answered, Request
    <2> QED
      BY <2>4, <2>5
  <1>2. req' \in [Requests -> Request] /\ req'[r] = Answered(x, code)
        /\ \A q \in Requests : q # r => req'[q] = req[q]
    BY <1>1, Facts DEF Answer
  <1> QED
    BY <1>1, <1>2 DEF IInv, RequestsInv

LEMMA RequestChecked ==
  ASSUME IInv, NEW r \in Requests, NEW x \in Request, x.space \in Spaces,
         x.op = "delete" => x.name \in Names,
         req' = [req EXCEPT ![r] = [x EXCEPT !.at = "checked"]]
  PROVE  req' \in [Requests -> Request] /\ RequestsInv'
  <1>1. PICK y : y = [x EXCEPT !.at = "checked"]
    OBVIOUS
  <1>2. y \in Request /\ y.space = x.space /\ y.op = x.op /\ y.name = x.name
    BY <1>1 DEF Request
  <1>3. req' \in [Requests -> Request] /\ req'[r] = y
        /\ \A q \in Requests : q # r => req'[q] = req[q]
    BY <1>1, <1>2, Facts
  <1> QED
    BY <1>2, <1>3 DEF IInv, RequestsInv

(* The request that a handler fills in. *)
Filled(x, op, w, n) == [x EXCEPT !.op = op, !.space = w, !.name = n]
FilledBody(x, op, w, b) == [x EXCEPT !.op = op, !.space = w, !.body = b]

LEMMA FilledIn ==
  ASSUME IInv, NEW r \in Requests, NEW w \in Spaces, NEW n \in Names, NEW op \in Op
  PROVE  LET x == Filled(req[r], op, w, n) IN
         x \in Request /\ x.space = w /\ x.op = op /\ x.name = n
  <1>1. req[r] \in Request
    BY Facts
  <1>2. PICK y : y = [req[r] EXCEPT !.op = op]
    OBVIOUS
  <1>3. y \in Request /\ y.op = op
    BY <1>1, <1>2, OpIs
  <1>4. PICK z : z = [y EXCEPT !.space = w]
    OBVIOUS
  <1>5. z \in Request /\ z.op = op /\ z.space = w
    BY <1>3, <1>4, SpaceIs
  <1>6. PICK x : x = [z EXCEPT !.name = n]
    OBVIOUS
  <1>7. x \in Request /\ x.op = op /\ x.space = w /\ x.name = n
    BY <1>5, <1>6, NameIs
  <1>8. x = Filled(req[r], op, w, n)
    BY <1>1, <1>2, <1>4, <1>6 DEF Request, Filled
  <1> QED
    BY <1>7, <1>8

LEMMA FilledInBody ==
  ASSUME IInv, NEW r \in Requests, NEW w \in Spaces, NEW b \in Endpoint, NEW op \in Op
  PROVE  LET x == FilledBody(req[r], op, w, b) IN
         x \in Request /\ x.space = w /\ x.op = op
  <1>1. req[r] \in Request
    BY Facts
  <1>2. PICK y : y = [req[r] EXCEPT !.op = op]
    OBVIOUS
  <1>3. y \in Request /\ y.op = op
    BY <1>1, <1>2, OpIs
  <1>4. PICK z : z = [y EXCEPT !.space = w]
    OBVIOUS
  <1>5. z \in Request /\ z.op = op /\ z.space = w
    BY <1>3, <1>4, SpaceIs
  <1>6. PICK x : x = [z EXCEPT !.body = b]
    OBVIOUS
  <1>7. x \in Request /\ x.op = op /\ x.space = w
    BY <1>5, <1>6, BodyIs
  <1>8. x = FilledBody(req[r], op, w, b)
    BY <1>1, <1>2, <1>4, <1>6 DEF Request, FilledBody
  <1> QED
    BY <1>7, <1>8

(* A write of a row: what was cached or read of it was current until now. *)
LEMMA WriteKeeps ==
  ASSUME IInv, NEW w \in Spaces, NEW n \in Names, NEW v \in 0 .. MaxVersion,
         v # value[w][n], v # 0 => gone[w][n][v] = Never,
         v = 0 => ~References(w, n), Write(w, n, v),
         UNCHANGED <<endpoint, used, cache, task, now>>,
         req' \in [Requests -> Request], RequestsInv'
  PROVE  IInv'
  <1>1. /\ value' \in [Spaces -> [Names -> 0 .. MaxVersion]] /\ value'[w][n] = v
        /\ \A u \in Spaces, m \in Names : <<u, m>> # <<w, n>> => value'[u][m] = value[u][m]
    BY Facts DEF Write
  <1>2. /\ gone' \in [Spaces -> [Names -> [1 .. MaxVersion -> {Never} \cup 0 .. Horizon]]]
        /\ \A u \in Spaces, m \in Names, i \in 1 .. MaxVersion :
             \/ gone'[u][m][i] = gone[u][m][i]
             \/ gone'[u][m][i] = now /\ u = w /\ m = n /\ i = value[w][n]
    BY Facts DEF Write
  <1>3. RowsInv'
    <2> SUFFICES ASSUME NEW u \in Spaces, NEW m \in Names, value'[u][m] # 0
                 PROVE  gone'[u][m][value'[u][m]] = Never
      BY DEF RowsInv
    <2>1. value'[u][m] \in 1 .. MaxVersion
      BY <1>1, Facts
    <2>2. CASE u = w /\ m = n
      BY <1>1, <1>2, <2>1, <2>2
    <2>3. CASE <<u, m>> # <<w, n>>
      <3>1. value'[u][m] = value[u][m] /\ gone[u][m][value[u][m]] = Never
        BY <1>1, <2>3 DEF IInv, RowsInv
      <3> QED
        BY <1>2, <2>1, <2>3, <3>1
    <2> QED
      BY <2>2, <2>3
  <1>4. ReferencesResolve'
    <2> SUFFICES ASSUME NEW u \in Spaces, endpoint[u].exists
                 PROVE  Exists(u, endpoint[u].config)' /\ Exists(u, endpoint[u].spec)'
      BY DEF ReferencesResolve
    <2>1. Exists(u, endpoint[u].config) /\ Exists(u, endpoint[u].spec)
      BY Facts DEF ReferencesResolve
    <2>2. /\ endpoint[u].config \in Names \cup {None} /\ endpoint[u].spec \in Names \cup {None}
      BY Facts DEF Endpoint, Names
    <2>3. u = w /\ v = 0 => n # endpoint[u].config /\ n # endpoint[u].spec
      BY DEF References
    <2> QED
      BY <1>1, <2>1, <2>2, <2>3 DEF Exists
  <1>5. EntriesInv'
    <2> SUFFICES ASSUME NEW m \in Cached, cache[m].full
                 PROVE  /\ cache[m].from \in Spaces /\ cache[m].version \in 1 .. MaxVersion
                        /\ cache[m].at <= now
                        /\ \/ gone'[cache[m].from][m][cache[m].version] = Never
                           \/ cache[m].at - cache[m].waited <=
                                gone'[cache[m].from][m][cache[m].version]
      BY DEF EntriesInv, EntryOK
    <2>1. EntryOK(m, cache[m]) /\ m \in Names
          /\ cache[m].at \in Nat /\ cache[m].waited \in Nat
      BY Facts DEF IInv, EntriesInv, Entry
    <2>2. cache[m].at - cache[m].waited <= now
      BY <2>1, Facts DEF EntryOK
    <2> QED
      BY <1>2, <2>1, <2>2 DEF EntryOK
  <1>6. TasksInv'
    <2> SUFFICES ASSUME NEW t \in Tasks, TaskOK(task[t])
                 PROVE  TaskOK(task[t])'
      BY DEF TasksInv, IInv
    <2>1. task' = task /\ used' = used /\ now' = now
      OBVIOUS
    <2>2. task[t].at = "set" =>
            \/ gone'[task[t].space][task[t].name][task[t].read] = Never
            \/ task[t].selected <= gone'[task[t].space][task[t].name][task[t].read]
      <3> SUFFICES ASSUME task[t].at = "set"
                   PROVE  \/ gone'[task[t].space][task[t].name][task[t].read] = Never
                          \/ task[t].selected <= gone'[task[t].space][task[t].name][task[t].read]
        OBVIOUS
      <3>1. /\ task[t].space \in Spaces /\ task[t].name \in Names
            /\ task[t].read \in 1 .. MaxVersion /\ task[t].selected <= now
            /\ \/ gone[task[t].space][task[t].name][task[t].read] = Never
               \/ task[t].selected <= gone[task[t].space][task[t].name][task[t].read]
        BY Facts DEF TaskOK
      <3>2. gone'[task[t].space][task[t].name][task[t].read] \in
              {gone[task[t].space][task[t].name][task[t].read], now}
        BY <1>2, <3>1
      <3> QED
        BY <3>1, <3>2
    <2> QED
      BY <2>1, <2>2 DEF TaskOK
  <1>7. TypeOK' /\ UsedInv'
    BY <1>1, <1>2, Facts DEF TypeOK, IInv, UsedInv
  <1> QED
    BY <1>3, <1>4, <1>5, <1>6, <1>7 DEF IInv, ResourcesInv

(* A step of a request that writes no row. *)
LEMMA RowsStay ==
  ASSUME IInv, UNCHANGED <<value, gone, used, cache, task, now>>,
         req' \in [Requests -> Request], RequestsInv',
         endpoint' \in [Spaces -> Endpoint], ReferencesResolve', UsedInv'
  PROVE  IInv'
  <1>1. TypeOK'
    BY Facts DEF TypeOK
  <1>2. RowsInv' /\ EntriesInv' /\ TasksInv'
    BY DEF IInv, RowsInv, EntriesInv, EntryOK, TasksInv, TaskOK
  <1> QED
    BY <1>1, <1>2 DEF IInv, ResourcesInv

LEMMA EndpointsStay ==
  ASSUME IInv, UNCHANGED <<tables, cache, task, now>>,
         req' \in [Requests -> Request], RequestsInv'
  PROVE  IInv'
  <1>1. UNCHANGED <<value, gone, used, cache, task, now, endpoint>>
    BY DEF tables
  <1>2. endpoint' \in [Spaces -> Endpoint] /\ ReferencesResolve' /\ UsedInv'
    BY <1>1, Facts DEF IInv, ReferencesResolve, UsedInv, Exists
  <1> QED
    BY <1>1, <1>2, RowsStay

LEMMA CreateIInv ==
  ASSUME IInv, NEW r \in Requests, NEW w \in Spaces, NEW n \in Names,
         create(r, w, n) \/ update(r, w, n)
  PROVE  IInv'
  <1>1. PICK x \in Request, code \in {0, 200, 201, 204, 404, 409, 422, 500} :
          Answer(r, x, code)
    <2>1. CASE create(r, w, n)
      <3>1. Filled(req[r], "create", w, n) \in Request /\ "create" \in Op
        BY FilledIn DEF Op
      <3> QED
        BY <2>1, <3>1 DEF create, Filled
    <2>2. CASE update(r, w, n)
      <3>1. Filled(req[r], "update", w, n) \in Request /\ "update" \in Op
        BY FilledIn DEF Op
      <3> QED
        BY <2>2, <3>1 DEF update, Filled
    <2> QED
      BY <2>1, <2>2
  <1>2. req' \in [Requests -> Request] /\ RequestsInv'
    BY <1>1, RequestAnswers
  <1>3. UNCHANGED <<endpoint, used, cache, task, now>>
    BY DEF create, update
  <1>4. CASE UNCHANGED <<value, gone>>
    BY <1>2, <1>3, <1>4, EndpointsStay DEF tables
  <1>5. CASE \E v \in Fresh(w, n) : Write(w, n, v)
    <2>1. PICK v \in Fresh(w, n) : Write(w, n, v)
      BY <1>5
    <2>2. v \in 0 .. MaxVersion /\ v # 0 /\ v # value[w][n] /\ gone[w][n][v] = Never
      BY Facts DEF Fresh
    <2> QED
      BY <1>2, <1>3, <2>1, <2>2, WriteKeeps
  <1> QED
    BY <1>4, <1>5 DEF create, update

LEMMA DeleteCheckIInv ==
  ASSUME IInv, NEW r \in Requests, NEW w \in Spaces, NEW n \in Names,
         DeleteCheck(r, w, n)
  PROVE  IInv'
  <1>1. PICK x : x = Filled(req[r], "delete", w, n)
    OBVIOUS
  <1>a. x \in Request /\ x.space = w /\ x.name = n
    BY <1>1, FilledIn DEF Op
  <1>2. \/ Answer(r, x, 409)
        \/ req' = [req EXCEPT ![r] = [x EXCEPT !.at = "checked"]]
    BY <1>1 DEF DeleteCheck, Filled
  <1>3. req' \in [Requests -> Request] /\ RequestsInv'
    BY <1>a, <1>2, RequestAnswers, RequestChecked
  <1> QED
    BY <1>3, EndpointsStay DEF DeleteCheck

(* The foreign keys refuse the DELETE of what an endpoint refers to. *)
LEMMA DeleteIInv ==
  ASSUME IInv, NEW r \in Requests, delete(r)
  PROVE  IInv'
  <1> DEFINE x == req[r]
  <1>1. /\ x \in Request /\ x.space \in Spaces /\ x.name \in Names
        /\ UNCHANGED <<endpoint, used, cache, task, now>>
    BY Facts DEF delete, IInv, RequestsInv
  <1>2. req' \in [Requests -> Request] /\ RequestsInv'
    BY <1>1, RequestAnswers DEF delete
  <1>3. CASE UNCHANGED <<value, gone>>
    BY <1>1, <1>2, <1>3, EndpointsStay DEF tables
  <1>4. CASE value[x.space][x.name] # 0 /\ ~References(x.space, x.name)
             /\ Write(x.space, x.name, 0)
    BY <1>1, <1>2, <1>4, Facts, WriteKeeps
  <1> QED
    BY <1>3, <1>4 DEF delete

LEMMA EndpointCheckIInv ==
  ASSUME IInv, NEW r \in Requests, NEW w \in Spaces, NEW body \in Endpoint,
         NEW op \in {"create_endpoint", "update_endpoint"}, EndpointCheck(r, w, op, body)
  PROVE  IInv'
  <1>1. PICK x : x = FilledBody(req[r], op, w, body)
    OBVIOUS
  <1>a. x \in Request /\ x.space = w /\ x.op = op
    BY <1>1, FilledInBody DEF Op
  <1>2. \/ Answer(r, x, 422)
        \/ req' = [req EXCEPT ![r] = [x EXCEPT !.at = "checked"]]
    BY <1>1 DEF EndpointCheck, FilledBody
  <1>3. req' \in [Requests -> Request] /\ RequestsInv'
    BY <1>a, <1>2, RequestAnswers, RequestChecked
  <1> QED
    BY <1>3, EndpointsStay DEF EndpointCheck

(* An endpoint is written with references that are there. *)
LEMMA EndpointWritten ==
  ASSUME IInv, NEW w \in Spaces, NEW b \in Endpoint,
         used[w] => b.exists,
         b.exists => Exists(w, b.config) /\ Exists(w, b.spec),
         endpoint' = [endpoint EXCEPT ![w] = b],
         UNCHANGED <<value, gone, used, cache, task, now>>,
         req' \in [Requests -> Request], RequestsInv'
  PROVE  IInv'
  <1>1. /\ endpoint' \in [Spaces -> Endpoint] /\ endpoint'[w] = b
        /\ \A u \in Spaces : u # w => endpoint'[u] = endpoint[u]
    BY Facts
  <1>2. ReferencesResolve'
    BY <1>1, Facts DEF ReferencesResolve, Exists
  <1>3. UsedInv'
    BY <1>1 DEF IInv, UsedInv
  <1> QED
    BY <1>1, <1>2, <1>3, RowsStay

LEMMA CreateEndpointIInv ==
  ASSUME IInv, NEW r \in Requests, create_endpoint(r)
  PROVE  IInv'
  <1> DEFINE x == req[r]
             w == x.space
  <1>1. x \in Request /\ w \in Spaces /\ x.body \in Endpoint
        /\ UNCHANGED <<value, gone, used, cache, task, now>>
    BY Facts DEF create_endpoint, IInv, RequestsInv, Request
  <1>2. req' \in [Requests -> Request] /\ RequestsInv'
    BY <1>1, RequestAnswers DEF create_endpoint
  <1>3. CASE UNCHANGED endpoint
    BY <1>1, <1>2, <1>3, EndpointsStay DEF tables
  <1>4. CASE /\ ~endpoint[w].exists /\ Exists(w, x.body.spec) /\ Exists(w, x.body.config)
             /\ endpoint' = [endpoint EXCEPT ![w] = x.body]
    <2>1. ~used[w]
      BY <1>1, <1>4 DEF IInv, UsedInv
    <2> QED
      BY <1>1, <1>2, <1>4, <2>1, EndpointWritten
  <1> QED
    BY <1>3, <1>4 DEF create_endpoint

LEMMA UpdateEndpointIInv ==
  ASSUME IInv, NEW r \in Requests, update_endpoint(r)
  PROVE  IInv'
  <1> DEFINE x == req[r]
             w == x.space
             new == Coalesced(endpoint[w], x.body)
  <1>1. x \in Request /\ w \in Spaces /\ x.body \in Endpoint /\ endpoint[w] \in Endpoint
        /\ UNCHANGED <<value, gone, used, cache, task, now>>
    BY Facts DEF update_endpoint, IInv, RequestsInv, Request
  <1>2. req' \in [Requests -> Request] /\ RequestsInv'
    BY <1>1, RequestAnswers DEF update_endpoint
  <1>3. CASE UNCHANGED endpoint
    BY <1>1, <1>2, <1>3, EndpointsStay DEF tables
  <1>4. CASE /\ Exists(w, new.spec) /\ Exists(w, new.config)
             /\ endpoint' = [endpoint EXCEPT ![w] = new]
    <2>1. new \in Endpoint /\ new.exists
      BY <1>1 DEF Coalesced, Endpoint
    <2> HIDE DEF new
    <2> QED
      BY <1>1, <1>2, <1>4, <2>1, EndpointWritten
  <1> QED
    BY <1>3, <1>4 DEF update_endpoint

LEMMA DeleteEndpointIInv ==
  ASSUME IInv, NEW r \in Requests, NEW w \in Spaces, delete_endpoint(r, w)
  PROVE  IInv'
  <1>1. PICK x \in Request, code \in {0, 200, 201, 204, 404, 409, 422, 500} :
          Answer(r, x, code)
    <2>1. PICK y : y = [req[r] EXCEPT !.op = "delete_endpoint"]
      OBVIOUS
    <2>2. y \in Request
      BY <2>1, Facts, OpIs DEF Op
    <2>3. PICK x : x = [y EXCEPT !.space = w]
      OBVIOUS
    <2>4. x \in Request
      BY <2>2, <2>3, SpaceIs
    <2>5. x = [req[r] EXCEPT !.op = "delete_endpoint", !.space = w]
      BY <2>1, <2>3, Facts DEF Request
    <2> QED
      BY <2>4, <2>5 DEF delete_endpoint
  <1>2. req' \in [Requests -> Request] /\ RequestsInv'
    BY <1>1, RequestAnswers
  <1>3. CASE used[w]
    BY <1>2, <1>3, EndpointsStay DEF delete_endpoint, tables
  <1>4. CASE ~used[w]
    <2>1. NoEndpoint \in Endpoint /\ ~NoEndpoint.exists
      BY DEF NoEndpoint, Endpoint
    <2> QED
      BY <1>2, <1>4, <2>1, EndpointWritten DEF delete_endpoint
  <1> QED
    BY <1>3, <1>4

-----------------------------------------------------------------------------
(* Tasks and the cache.                                                    *)

(* Changing one field of a task. *)
LEMMA TaskAtIs ==
  ASSUME NEW x \in Task, NEW at \in {"idle", "load", "evict", "read", "set", "failed"}
  PROVE  LET y == [x EXCEPT !.at = at] IN
         /\ y \in Task /\ y.at = at
         /\ y.space = x.space /\ y.wants = x.wants /\ y.name = x.name
         /\ y.read = x.read /\ y.has = x.has /\ y.config = x.config
  BY DEF Task

LEMMA TaskNameIs ==
  ASSUME NEW x \in Task, NEW n \in Cached \cup {None}
  PROVE  LET y == [x EXCEPT !.name = n] IN
         /\ y \in Task /\ y.name = n
         /\ y.at = x.at /\ y.space = x.space /\ y.wants = x.wants
         /\ y.read = x.read /\ y.has = x.has /\ y.config = x.config
  BY DEF Task

LEMMA TaskReadIs ==
  ASSUME NEW x \in Task, NEW v \in 0 .. MaxVersion
  PROVE  LET y == [x EXCEPT !.read = v] IN
         /\ y \in Task /\ y.read = v
         /\ y.at = x.at /\ y.space = x.space /\ y.wants = x.wants
         /\ y.name = x.name /\ y.has = x.has /\ y.config = x.config
  BY DEF Task

LEMMA TaskSelectedIs ==
  ASSUME NEW x \in Task, NEW i \in 0 .. Horizon
  PROVE  LET y == [x EXCEPT !.selected = i] IN
         /\ y \in Task /\ y.selected = i
         /\ y.at = x.at /\ y.space = x.space /\ y.wants = x.wants /\ y.read = x.read
         /\ y.name = x.name /\ y.has = x.has /\ y.config = x.config
  BY DEF Task

LEMMA TaskWantsIs ==
  ASSUME NEW x \in Task, NEW S \in SUBSET Cached
  PROVE  LET y == [x EXCEPT !.wants = S] IN
         /\ y \in Task /\ y.wants = S
         /\ y.at = x.at /\ y.space = x.space /\ y.name = x.name
         /\ y.read = x.read /\ y.has = x.has /\ y.config = x.config
  BY DEF Task

LEMMA TaskHasIs ==
  ASSUME NEW x \in Task, NEW S \in SUBSET Loaded
  PROVE  LET y == [x EXCEPT !.has = S] IN
         /\ y \in Task /\ y.has = S
         /\ y.at = x.at /\ y.space = x.space /\ y.wants = x.wants
         /\ y.name = x.name /\ y.read = x.read /\ y.config = x.config
  BY DEF Task

(* A task that has a value goes on with the next. *)
LEMMA HaveIs ==
  ASSUME NEW x \in Task, NEW n \in Cached, NEW w \in Spaces, NEW v \in 1 .. MaxVersion
  PROVE  LET y == Have(x, n, w, v) IN
         /\ y \in Task /\ y.at = "load" /\ y.space = x.space /\ y.config = x.config
         /\ y.wants = x.wants \ {n}
         /\ y.has = x.has \cup {[name |-> n, from |-> w, version |-> v]}
  <1>1. PICK a : a = [x EXCEPT !.at = "load"]
    OBVIOUS
  <1>2. /\ a \in Task /\ a.at = "load" /\ a.space = x.space /\ a.config = x.config
        /\ a.wants = x.wants /\ a.has = x.has
    BY <1>1, TaskAtIs
  <1>3. PICK b : b = [a EXCEPT !.name = None]
    OBVIOUS
  <1>4. /\ b \in Task /\ b.at = "load" /\ b.space = x.space /\ b.config = x.config
        /\ b.wants = x.wants /\ b.has = x.has
    BY <1>2, <1>3, TaskNameIs
  <1>5. PICK a1, c : a1 = [b EXCEPT !.read = 0] /\ c = [a1 EXCEPT !.selected = 0]
    OBVIOUS
  <1>6. /\ c \in Task /\ c.at = "load" /\ c.space = x.space /\ c.config = x.config
        /\ c.wants = x.wants /\ c.has = x.has
    <2>1. 0 \in 0 .. MaxVersion /\ 0 \in 0 .. Horizon
      BY ResourcesAssumption
    <2>2. /\ a1 \in Task /\ a1.at = "load" /\ a1.space = x.space /\ a1.config = x.config
          /\ a1.wants = x.wants /\ a1.has = x.has
      BY <1>4, <1>5, <2>1, TaskReadIs
    <2> QED
      BY <1>5, <2>1, <2>2, TaskSelectedIs
  <1>7. PICK d : d = [c EXCEPT !.wants = x.wants \ {n}]
    OBVIOUS
  <1>8. /\ d \in Task /\ d.at = "load" /\ d.space = x.space /\ d.config = x.config
        /\ d.wants = x.wants \ {n} /\ d.has = x.has
    <2>1. x.wants \ {n} \in SUBSET Cached
      BY DEF Task
    <2> QED
      BY <1>6, <1>7, <2>1, TaskWantsIs
  <1>9. PICK S : S = x.has \cup {[name |-> n, from |-> w, version |-> v]}
    OBVIOUS
  <1>10. PICK y : y = [d EXCEPT !.has = S]
    OBVIOUS
  <1>11. /\ y \in Task /\ y.at = "load" /\ y.space = x.space /\ y.config = x.config
         /\ y.wants = x.wants \ {n} /\ y.has = S
    <2>1. S \in SUBSET Loaded
      BY <1>9 DEF Task, Loaded
    <2> QED
      BY <1>8, <1>10, <2>1, TaskHasIs
  <1>12. Have(x, n, w, v) = y
    BY <1>1, <1>3, <1>5, <1>7, <1>9, <1>10 DEF Have, Task
  <1> QED
    BY <1>9, <1>11, <1>12

(* One task moves, and the cache with it or not. *)
LEMMA TaskStep ==
  ASSUME IInv, NEW t \in Tasks, NEW y \in Task, TaskOK(y),
         task' = [task EXCEPT ![t] = y], UNCHANGED <<tables, req, now>>,
         cache' \in [Cached -> Entry], \A n \in Cached : EntryOK(n, cache'[n])
  PROVE  IInv'
  <1>1. UNCHANGED <<value, gone, endpoint, used, req, now>>
    BY DEF tables
  <1>2. task' \in [Tasks -> Task] /\ task'[t] = y
        /\ \A u \in Tasks : u # t => task'[u] = task[u]
    BY Facts
  <1>3. TypeOK'
    BY <1>1, <1>2, Facts DEF TypeOK
  <1>4. ReferencesResolve' /\ RowsInv' /\ UsedInv' /\ RequestsInv'
    BY <1>1, Facts DEF IInv, ReferencesResolve, Exists, RowsInv, UsedInv, RequestsInv
  <1>5. EntriesInv'
    BY <1>1 DEF EntriesInv, EntryOK
  <1>6. TasksInv'
    <2> SUFFICES ASSUME NEW u \in Tasks PROVE TaskOK(task[u])'
      BY DEF TasksInv
    <2>1. TaskOK(task'[u])
      BY <1>2 DEF IInv, TasksInv
    <2> QED
      BY <1>1, <2>1 DEF TaskOK
  <1> QED
    BY <1>3, <1>4, <1>5, <1>6 DEF IInv, ResourcesInv

LEMMA CacheStays ==
  ASSUME IInv, cache' = cache
  PROVE  cache' \in [Cached -> Entry] /\ \A n \in Cached : EntryOK(n, cache'[n])
  BY Facts DEF IInv, EntriesInv

LEMMA BeginIInv ==
  ASSUME IInv, NEW t \in Tasks, NEW w \in Spaces, Begin(t, w)
  PROVE  IInv'
  <1> DEFINE ep == endpoint[w]
  <1>1. PICK y : y = [Idle EXCEPT !.at = "load", !.space = w, !.config = ep.config,
                                  !.wants = (ep.secrets \cup {ep.config}) \ {None}]
    OBVIOUS
  <1>2. task' = [task EXCEPT ![t] = y] /\ used[w] /\ UNCHANGED <<tables, req, cache, now>>
    BY <1>1 DEF Begin
  <1>3. /\ ep.config \in Configs \cup {None} /\ ep.secrets \in SUBSET Secrets
    BY Facts DEF Endpoint
  <1>4. y = [at |-> "load", space |-> w, wants |-> (ep.secrets \cup {ep.config}) \ {None},
             name |-> None, read |-> 0, selected |-> 0, has |-> {}, config |-> ep.config]
    BY <1>1 DEF Idle
  <1>5. (ep.secrets \cup {ep.config}) \ {None} \subseteq Cached
    BY <1>3 DEF Cached
  <1>6. y \in Task
    BY <1>3, <1>4, <1>5, Facts DEF Task
  <1>7. TaskOK(y)
    <2>1. y.wants \cap Configs \subseteq {y.config}
      BY <1>3, <1>4, ResourcesAssumption
    <2> QED
      BY <1>2, <1>4, <2>1 DEF TaskOK
  <1> QED
    BY <1>2, <1>6, <1>7, CacheStays, TaskStep

(* A name that is wanted is cached for, and a config that is wanted is the
   one of the endpoint. *)
LEMMA LookupIInv ==
  ASSUME IInv, NEW t \in Tasks, NEW n \in Cached, Lookup(t, n)
  PROVE  IInv'
  <1> DEFINE x == task[t]
             e == cache[n]
  <1>1. /\ x \in Task /\ TaskOK(x) /\ x.at = "load" /\ n \in x.wants
        /\ UNCHANGED <<tables, req, cache, now>>
    BY Facts DEF Lookup, Wanted, IInv, TasksInv
  <1>2. CASE e.full /\ now - e.at < Ttl(n)
    <2>1. PICK y : y = Have(x, n, e.from, e.version)
      OBVIOUS
    <2>2. task' = [task EXCEPT ![t] = y]
      BY <1>2, <2>1 DEF Lookup
    <2>3. e.from \in Spaces /\ e.version \in 1 .. MaxVersion
      BY <1>2 DEF IInv, EntriesInv, EntryOK
    <2>4. /\ y \in Task /\ y.at = "load" /\ y.space = x.space /\ y.config = x.config
          /\ y.wants = x.wants \ {n}
      BY <1>1, <2>1, <2>3, HaveIs
    <2>5. TaskOK(y)
      BY <1>1, <2>4 DEF TaskOK
    <2> QED
      BY <1>1, <2>2, <2>4, <2>5, CacheStays, TaskStep
  <1>3. CASE ~(e.full /\ now - e.at < Ttl(n))
    <2>1. PICK at \in {"evict", "read"} : at = IF e.full THEN "evict" ELSE "read"
      OBVIOUS
    <2>2. PICK z : z = [x EXCEPT !.at = at]
      OBVIOUS
    <2>3. /\ z \in Task /\ z.at = at /\ z.space = x.space /\ z.config = x.config
          /\ z.wants = x.wants
      BY <1>1, <2>2 DEF Task
    <2>4. PICK y : y = [z EXCEPT !.name = n]
      OBVIOUS
    <2>5. /\ y \in Task /\ y.at = at /\ y.space = x.space /\ y.config = x.config
          /\ y.wants = x.wants /\ y.name = n
      BY <2>3, <2>4, TaskNameIs
    <2>6. y = [x EXCEPT !.at = at, !.name = n]
      BY <1>1, <2>2, <2>4 DEF Task
    <2>7. task' = [task EXCEPT ![t] = y]
      <3>1. task' = [task EXCEPT ![t] = [x EXCEPT !.at = IF e.full THEN "evict" ELSE "read",
                                                   !.name = n]]
        BY <1>3 DEF Lookup
      <3> QED
        BY <2>1, <2>6, <3>1
    <2>8. TaskOK(y)
      BY <1>1, <2>1, <2>5 DEF TaskOK
    <2> QED
      BY <1>1, <2>5, <2>7, <2>8, CacheStays, TaskStep
  <1> QED
    BY <1>2, <1>3

LEMMA EvictIInv ==
  ASSUME IInv, NEW t \in Tasks, Evict(t)
  PROVE  IInv'
  <1> DEFINE x == task[t]
  <1>1. /\ x \in Task /\ TaskOK(x) /\ x.at = "evict" /\ x.name \in Cached
        /\ UNCHANGED <<tables, req, now>>
    BY Facts DEF Evict, IInv, TasksInv, TaskOK
  <1>2. PICK y : y = [x EXCEPT !.at = "read"]
    OBVIOUS
  <1>3. /\ y \in Task /\ y.at = "read" /\ y.space = x.space /\ y.config = x.config
        /\ y.wants = x.wants /\ y.name = x.name
    BY <1>1, <1>2, TaskAtIs
  <1>4. task' = [task EXCEPT ![t] = y]
    BY <1>2, Facts DEF Evict
  <1>5. TaskOK(y)
    BY <1>1, <1>3 DEF TaskOK
  <1>6. NoEntry \in Entry /\ ~NoEntry.full
    BY Facts DEF NoEntry, Entry
  <1>7. cache' = [cache EXCEPT ![x.name] = NoEntry]
    BY DEF Evict
  <1>8. cache' \in [Cached -> Entry] /\ \A n \in Cached : EntryOK(n, cache'[n])
    BY <1>1, <1>6, <1>7, Facts DEF IInv, EntriesInv, EntryOK
  <1> QED
    BY <1>1, <1>3, <1>4, <1>5, <1>8, TaskStep

(* What a task reads is the current value of the row. *)
LEMMA ReadIInv ==
  ASSUME IInv, NEW t \in Tasks, Read(t)
  PROVE  IInv'
  <1> DEFINE x == task[t]
             v == value[x.space][x.name]
  <1>1. /\ x \in Task /\ TaskOK(x) /\ x.at = "read" /\ x.name \in Cached
        /\ x.space \in Spaces /\ x.name \in Names
        /\ UNCHANGED <<tables, req, cache, now>>
    BY Facts DEF Read, IInv, TasksInv, TaskOK
  <1>2. v \in 0 .. MaxVersion /\ (v # 0 => gone[x.space][x.name][v] = Never)
    BY <1>1, Facts DEF IInv, RowsInv
  <1>3. PICK at \in {"failed", "set"} : at = IF v = 0 THEN "failed" ELSE "set"
    OBVIOUS
  <1>4. PICK z : z = [x EXCEPT !.at = at]
    OBVIOUS
  <1>5. /\ z \in Task /\ z.at = at /\ z.space = x.space /\ z.config = x.config
        /\ z.wants = x.wants /\ z.name = x.name
    BY <1>1, <1>4 DEF Task
  <1>6. PICK a, y : a = [z EXCEPT !.read = v] /\ y = [a EXCEPT !.selected = now]
    OBVIOUS
  <1>7. /\ y \in Task /\ y.at = at /\ y.space = x.space /\ y.config = x.config
        /\ y.wants = x.wants /\ y.name = x.name /\ y.read = v /\ y.selected = now
    <2>1. /\ a \in Task /\ a.at = at /\ a.space = x.space /\ a.config = x.config
          /\ a.wants = x.wants /\ a.name = x.name /\ a.read = v
      BY <1>2, <1>5, <1>6, TaskReadIs
    <2>2. now \in 0 .. Horizon
      BY Facts
    <2>3. /\ y \in Task /\ y.selected = now /\ y.at = a.at /\ y.space = a.space
          /\ y.wants = a.wants /\ y.read = a.read /\ y.name = a.name
          /\ y.config = a.config
      <3>1. y = [a EXCEPT !.selected = now] /\ a \in Task
        BY <1>6, <2>1
      <3> QED
        BY <3>1, <2>2, TaskSelectedIs
    <2> QED
      BY <2>1, <2>3
  <1>8. task' = [task EXCEPT ![t] = y]
    <2>1. task' = [task EXCEPT ![t].at = at, ![t].read = v, ![t].selected = now]
      BY <1>3 DEF Read
    <2> QED
      BY <2>1, <1>4, <1>6, Facts
  <1>9. TaskOK(y)
    <2>1. at = "set" => v # 0 /\ v \in 1 .. MaxVersion
      BY <1>2, <1>3, Facts
    <2> HIDE DEF v
    <2> QED
      BY <1>1, <1>2, <1>3, <1>7, <2>1, Facts DEF TaskOK
  <1> QED
    BY <1>1, <1>7, <1>8, <1>9, CacheStays, TaskStep

(* What a task caches was current when it was selected. *)
LEMMA SetIInv ==
  ASSUME IInv, NEW t \in Tasks, Set(t)
  PROVE  IInv'
  <1> DEFINE x == task[t]
             new == [full |-> TRUE, from |-> x.space, version |-> x.read, at |-> now,
                     waited |-> now - x.selected]
  <1>1. /\ x \in Task /\ TaskOK(x) /\ x.at = "set" /\ x.name \in Cached
        /\ x.space \in Spaces /\ x.read \in 1 .. MaxVersion
        /\ x.selected <= now
        /\ \/ gone[x.space][x.name][x.read] = Never
           \/ x.selected <= gone[x.space][x.name][x.read]
        /\ UNCHANGED <<tables, req, now>>
    BY Facts DEF Set, IInv, TasksInv, TaskOK
  <1>2. PICK y : y = Have(x, x.name, x.space, x.read)
    OBVIOUS
  <1>3. task' = [task EXCEPT ![t] = y]
    BY <1>2 DEF Set
  <1>4. /\ y \in Task /\ y.at = "load" /\ y.space = x.space /\ y.config = x.config
        /\ y.wants = x.wants \ {x.name}
    BY <1>1, <1>2, HaveIs
  <1>5. TaskOK(y)
    BY <1>1, <1>4 DEF TaskOK
  <1>6. /\ new \in Entry /\ new.at - new.waited = x.selected
        /\ new.from = x.space /\ new.version = x.read /\ new.at = now
    <2>1. x.selected \in 0 .. Horizon
      BY <1>1 DEF Task
    <2>2. now - x.selected \in 0 .. Horizon /\ now - (now - x.selected) = x.selected
      BY <1>1, <2>1, Facts
    <2> QED
      BY <1>1, <2>2, Facts DEF Entry
  <1>7. EntryOK(x.name, new)
    BY <1>1, <1>6, Facts DEF EntryOK
  <1>8. cache' = [cache EXCEPT ![x.name] = new]
    BY DEF Set
  <1> HIDE DEF new
  <1>9. cache' \in [Cached -> Entry] /\ \A n \in Cached : EntryOK(n, cache'[n])
    <2>1. cache' \in [Cached -> Entry] /\ cache'[x.name] = new
          /\ \A n \in Cached : n # x.name => cache'[n] = cache[n]
      BY <1>1, <1>6, <1>8, Facts
    <2> QED
      BY <1>7, <2>1 DEF IInv, EntriesInv
  <1> QED
    BY <1>1, <1>3, <1>4, <1>5, <1>9, TaskStep

LEMMA EndIInv ==
  ASSUME IInv, NEW t \in Tasks, End(t)
  PROVE  IInv'
  <1>1. Idle \in Task /\ Idle.at = "idle"
    BY Facts DEF Idle, Task
  <1>2. TaskOK(Idle)
    BY <1>1 DEF TaskOK
  <1> QED
    BY <1>1, <1>2, CacheStays, TaskStep DEF End

(* The clock moves, also while a task is between its SELECT and its set(). *)
LEMMA TickIInv ==
  ASSUME IInv, Tick
  PROVE  IInv'
  <1>1. /\ now < Horizon /\ now' = now + 1
        /\ UNCHANGED <<value, gone, endpoint, used, req, cache, task>>
    BY DEF Tick, tables
  <1>2. now' \in 0 .. Horizon /\ now <= now'
    BY <1>1, Facts
  <1>3. TypeOK'
    BY <1>1, <1>2, Facts DEF TypeOK
  <1>4. ReferencesResolve' /\ RowsInv' /\ UsedInv' /\ RequestsInv'
    BY <1>1, Facts DEF IInv, ReferencesResolve, Exists, RowsInv, UsedInv, RequestsInv
  <1>5. EntriesInv'
    <2> SUFFICES ASSUME NEW n \in Cached PROVE EntryOK(n, cache[n])'
      BY DEF EntriesInv
    <2>1. EntryOK(n, cache[n]) /\ cache[n].at \in Nat
      BY Facts DEF IInv, EntriesInv, Entry
    <2> QED
      BY <1>1, <1>2, <2>1, Facts DEF EntryOK
  <1>6. TasksInv'
    <2> SUFFICES ASSUME NEW t \in Tasks PROVE TaskOK(task[t])'
      BY DEF TasksInv
    <2>1. TaskOK(task[t]) /\ task[t].selected \in Nat
      BY Facts DEF IInv, TasksInv, Task
    <2> QED
      BY <1>1, <1>2, <2>1, Facts DEF TaskOK
  <1> QED
    BY <1>3, <1>4, <1>5, <1>6 DEF IInv, ResourcesInv

LEMMA CreateJobIInv ==
  ASSUME IInv, NEW w \in Spaces, create_job(w)
  PROVE  IInv'
  <1>1. /\ endpoint[w].exists /\ used' = [used EXCEPT ![w] = TRUE]
        /\ UNCHANGED <<value, gone, endpoint, req, cache, task, now>>
    BY DEF create_job
  <1>2. /\ used' \in [Spaces -> BOOLEAN] /\ used'[w]
        /\ \A u \in Spaces : used[u] => used'[u]
        /\ \A u \in Spaces : u # w => used'[u] = used[u]
    BY <1>1, Facts
  <1>3. TypeOK' /\ UsedInv'
    BY <1>1, <1>2, Facts DEF TypeOK, IInv, UsedInv
  <1>4. ReferencesResolve' /\ RowsInv' /\ RequestsInv' /\ EntriesInv'
    BY <1>1, Facts DEF IInv, ReferencesResolve, Exists, RowsInv, RequestsInv,
       EntriesInv, EntryOK
  <1>5. TasksInv'
    BY <1>1, <1>2 DEF IInv, TasksInv, TaskOK
  <1> QED
    BY <1>3, <1>4, <1>5 DEF IInv, ResourcesInv

-----------------------------------------------------------------------------
(* Theorems.                                                               *)

LEMMA InitIInv == Init => IInv
  <1> SUFFICES ASSUME Init PROVE IInv
    OBVIOUS
  <1>1. Horizon \in Nat /\ MaxVersion \in Nat /\ MaxVersion # 0
    BY ResourcesAssumption
  <1>2. /\ NoEndpoint \in Endpoint /\ NoEntry \in Entry /\ Idle \in Task
        /\ NewRequest \in Request
    BY <1>1 DEF NoEndpoint, Endpoint, NoEntry, Entry, Idle, Task, NewRequest, Request
  <1>3. /\ ~NoEndpoint.exists /\ ~NoEntry.full /\ Idle.at = "idle" /\ NewRequest.at = "new"
    BY DEF NoEndpoint, NoEntry, Idle, NewRequest
  <1>4. TypeOK
    BY <1>1, <1>2 DEF Init, TypeOK
  <1>5. ReferencesResolve /\ UsedInv /\ RequestsInv /\ EntriesInv /\ TasksInv
    BY <1>3 DEF Init, ReferencesResolve, UsedInv, RequestsInv, EntriesInv, EntryOK,
       TasksInv, TaskOK
  <1>6. RowsInv
    BY <1>1 DEF Init, RowsInv
  <1> QED
    BY <1>4, <1>5, <1>6 DEF IInv, ResourcesInv

LEMMA NextIInv == IInv /\ [Next]_vars => IInv'
  <1> SUFFICES ASSUME IInv, [Next]_vars PROVE IInv'
    OBVIOUS
  <1>1. ASSUME NEW r \in Requests, Api(r) PROVE IInv'
    <2>1. ASSUME NEW w \in Spaces, NEW n \in Names,
                 create(r, w, n) \/ update(r, w, n) \/ DeleteCheck(r, w, n)
          PROVE  IInv'
      BY <2>1, CreateIInv, DeleteCheckIInv
    <2>2. ASSUME NEW w \in Spaces, NEW b \in Bodies,
                 NEW op \in {"create_endpoint", "update_endpoint"}, EndpointCheck(r, w, op, b)
          PROVE  IInv'
      BY <2>2, EndpointCheckIInv DEF Bodies
    <2>3. ASSUME NEW w \in Spaces, delete_endpoint(r, w) PROVE IInv'
      BY <2>3, DeleteEndpointIInv
    <2>4. CASE delete(r) \/ create_endpoint(r) \/ update_endpoint(r)
      BY <2>4, DeleteIInv, CreateEndpointIInv, UpdateEndpointIInv
    <2> QED
      BY <1>1, <2>1, <2>2, <2>3, <2>4 DEF Api
  <1>2. ASSUME NEW t \in Tasks, Worker(t) PROVE IInv'
    BY <1>2, BeginIInv, LookupIInv, EvictIInv, ReadIInv, SetIInv, EndIInv DEF Worker
  <1>3. ASSUME NEW w \in Spaces, create_job(w) PROVE IInv'
    BY <1>3, CreateJobIInv
  <1>4. CASE Tick
    BY <1>4, TickIInv
  <1>5. CASE UNCHANGED vars
    <2>1. UNCHANGED <<value, gone, endpoint, used, req, cache, task, now>>
      BY <1>5 DEF vars
    <2>2. TypeOK' /\ ReferencesResolve'
      BY <2>1, Facts DEF TypeOK, ReferencesResolve, Exists
    <2>3. RowsInv' /\ UsedInv' /\ RequestsInv' /\ EntriesInv' /\ TasksInv'
      BY <2>1 DEF IInv, RowsInv, UsedInv, RequestsInv, EntriesInv, EntryOK, TasksInv, TaskOK
    <2> QED
      BY <2>2, <2>3 DEF IInv, ResourcesInv
  <1> QED
    BY <1>1, <1>2, <1>3, <1>4, <1>5 DEF Next

(* The inductive invariant of resources and caches. *)
THEOREM Invariance == Spec => []IInv
  BY InitIInv, NextIInv, PTL DEF Spec

(* However the checks and the statements of handlers interleave, what an
   endpoint refers to exists. *)
THEOREM ReferencesAlwaysResolve == Spec => []ResourcesInv
  <1>1. IInv => ResourcesInv
    BY DEF IInv
  <1> QED
    BY <1>1, Invariance, PTL

(* A value that a dispatch may still use, of an entry that was set so long
   after its SELECT. *)
Recent(n, w, v, waited) ==
  LET replaced == gone[w][n][v]
      stale == now - replaced - waited IN
  replaced # Never => stale <= 0 \/ stale < Ttl(n)

(* What a step of a worker does to the task that takes it: it fails only by a
   read that finds no row, and what it newly has is recent. *)
TaskMoves(t, y) ==
  /\ task' = [task EXCEPT ![t] = y]
  /\ y.at = "failed" => Read(t)
  /\ \A u \in y.has \ task[t].has :
       Recent(u.name, u.from, u.version, cache'[u.name].waited)

LEMMA HaveMoves ==
  ASSUME IInv, NEW t \in Tasks, NEW n \in Cached, NEW w \in Spaces,
         NEW v \in 1 .. MaxVersion, Recent(n, w, v, cache'[n].waited),
         task' = [task EXCEPT ![t] = Have(task[t], n, w, v)]
  PROVE  \E y \in Task : TaskMoves(t, y)
  <1>1. PICK y : y = Have(task[t], n, w, v)
    OBVIOUS
  <1>2. /\ y \in Task /\ y.at = "load"
        /\ y.has = task[t].has \cup {[name |-> n, from |-> w, version |-> v]}
    BY <1>1, HaveIs, Facts
  <1>3. \A u \in y.has \ task[t].has : u = [name |-> n, from |-> w, version |-> v]
    BY <1>2
  <1>4. \A u \in y.has \ task[t].has :
          Recent(u.name, u.from, u.version, cache'[u.name].waited)
    BY <1>3
  <1> QED
    BY <1>1, <1>2, <1>4 DEF TaskMoves

LEMMA LookupMoves ==
  ASSUME IInv, NEW t \in Tasks, NEW n \in Cached, Lookup(t, n)
  PROVE  \E y \in Task : TaskMoves(t, y)
  <1> DEFINE x == task[t]
             e == cache[n]
  <1>1. CASE e.full /\ now - e.at < Ttl(n)
    <2>1. /\ e.from \in Spaces /\ e.version \in 1 .. MaxVersion
          /\ EntryOK(n, e) /\ e \in Entry
      BY <1>1, Facts DEF IInv, EntriesInv, EntryOK
    <2>2. Ttl(n) \in Nat /\ e.at \in Nat /\ e.waited \in Nat
          /\ gone[e.from][n][e.version] \in {Never} \cup 0 .. Horizon
      BY <2>1, Facts, ResourcesAssumption DEF Ttl, Entry
    <2>3. Recent(n, e.from, e.version, cache'[n].waited)
      <3>1. cache' = cache
        BY DEF Lookup
      <3>2. \/ gone[e.from][n][e.version] = Never
            \/ e.at - e.waited <= gone[e.from][n][e.version]
        BY <1>1, <2>1 DEF EntryOK
      <3> DEFINE g == gone[e.from][n][e.version]
      <3>3. g # Never => g \in Nat /\ e.at - e.waited <= g
        BY <2>2, <3>2, Facts
      <3> HIDE DEF g
      <3>4. g # Never => now - g - e.waited < Ttl(n)
        BY <1>1, <2>2, <3>3, Facts
      <3> QED
        BY <3>1, <3>4 DEF Recent, g
    <2>4. task' = [task EXCEPT ![t] = Have(x, n, e.from, e.version)]
      BY <1>1 DEF Lookup
    <2> QED
      BY <2>1, <2>3, <2>4, HaveMoves
  <1>2. CASE ~(e.full /\ now - e.at < Ttl(n))
    <2>1. PICK at \in {"evict", "read"} : at = IF e.full THEN "evict" ELSE "read"
      OBVIOUS
    <2>2. PICK z : z = [x EXCEPT !.at = at]
      OBVIOUS
    <2>3. z \in Task /\ z.at = at /\ z.has = x.has
      BY <2>2, Facts DEF Task
    <2>4. PICK y : y = [z EXCEPT !.name = n]
      OBVIOUS
    <2>5. y \in Task /\ y.at = at /\ y.has = x.has
      BY <2>3, <2>4, TaskNameIs
    <2>6. y = [x EXCEPT !.at = at, !.name = n]
      BY <2>2, <2>4, Facts DEF Task
    <2>7. task' = [task EXCEPT ![t] = y]
      <3>1. task' = [task EXCEPT ![t] = [x EXCEPT !.at = IF e.full THEN "evict" ELSE "read",
                                                   !.name = n]]
        BY <1>2 DEF Lookup
      <3> QED
        BY <2>1, <2>6, <3>1
    <2> QED
      BY <2>1, <2>5, <2>7 DEF TaskMoves
  <1> QED
    BY <1>1, <1>2

LEMMA ReadMoves ==
  ASSUME IInv, NEW t \in Tasks, Read(t)
  PROVE  \E y \in Task : TaskMoves(t, y)
  <1> DEFINE x == task[t]
             v == value[x.space][x.name]
  <1>1. x \in Task /\ x.name \in Names /\ x.space \in Spaces
    BY Facts DEF Read, IInv, TasksInv, TaskOK
  <1>2. v \in 0 .. MaxVersion
    BY <1>1, Facts
  <1>3. PICK at \in {"failed", "set"} : at = IF v = 0 THEN "failed" ELSE "set"
    OBVIOUS
  <1>4. PICK z : z = [x EXCEPT !.at = at]
    OBVIOUS
  <1>5. z \in Task /\ z.has = x.has
    BY <1>1, <1>4 DEF Task
  <1>6. PICK a, y : a = [z EXCEPT !.read = v] /\ y = [a EXCEPT !.selected = now]
    OBVIOUS
  <1>7. y \in Task /\ y.has = x.has
    <2>1. a \in Task /\ a.has = x.has
      <3> HIDE DEF v
      <3> QED
        BY <1>2, <1>5, <1>6, TaskReadIs
    <2>2. now \in 0 .. Horizon
      BY Facts
    <2> QED
      BY <1>6, <2>1, <2>2, TaskSelectedIs
  <1>8. task' = [task EXCEPT ![t] = y]
    <2>1. task' = [task EXCEPT ![t].at = at, ![t].read = v, ![t].selected = now]
      BY <1>3 DEF Read
    <2> QED
      BY <2>1, <1>4, <1>6, Facts
  <1> QED
    BY <1>7, <1>8 DEF TaskMoves

LEMMA WorkerMoves ==
  ASSUME IInv, NEW t \in Tasks, Worker(t)
  PROVE  \E y \in Task : TaskMoves(t, y)
  <1>1. ASSUME NEW w \in Spaces, Begin(t, w) PROVE \E y \in Task : TaskMoves(t, y)
    <2> DEFINE ep == endpoint[w]
    <2>1. PICK y : y = [Idle EXCEPT !.at = "load", !.space = w, !.config = ep.config,
                                    !.wants = (ep.secrets \cup {ep.config}) \ {None}]
      OBVIOUS
    <2>2. task' = [task EXCEPT ![t] = y]
      BY <1>1, <2>1 DEF Begin
    <2>3. y.at = "load" /\ y.has = {}
      BY <2>1 DEF Idle
    <2>4. task'[t] = y /\ task' \in [Tasks -> Task]
      BY <1>1, <2>2, BeginIInv, Facts DEF IInv, ResourcesInv, TypeOK
    <2> QED
      BY <2>2, <2>3, <2>4 DEF TaskMoves
  <1>2. ASSUME NEW n \in Cached, Lookup(t, n) PROVE \E y \in Task : TaskMoves(t, y)
    BY <1>2, LookupMoves
  <1>3. CASE Evict(t)
    <2>1. PICK y : y = [task[t] EXCEPT !.at = "read"]
      OBVIOUS
    <2>2. y \in Task /\ y.at = "read" /\ y.has = task[t].has
      BY <2>1, TaskAtIs, Facts
    <2>3. task' = [task EXCEPT ![t] = y]
      BY <1>3, <2>1, Facts DEF Evict
    <2> QED
      BY <2>2, <2>3 DEF TaskMoves
  <1>4. CASE Read(t)
    BY <1>4, ReadMoves
  <1>5. CASE Set(t)
    <2>1. /\ task[t].name \in Cached /\ task[t].space \in Spaces
          /\ task[t].read \in 1 .. MaxVersion
          /\ task[t].selected <= now /\ task[t].selected \in Nat
          /\ gone[task[t].space][task[t].name][task[t].read] \in {Never} \cup 0 .. Horizon
          /\ \/ gone[task[t].space][task[t].name][task[t].read] = Never
             \/ task[t].selected <= gone[task[t].space][task[t].name][task[t].read]
      BY <1>5, Facts DEF Set, IInv, TasksInv, TaskOK, Task
    <2>2. Recent(task[t].name, task[t].space, task[t].read, cache'[task[t].name].waited)
      <3>1. cache'[task[t].name].waited = now - task[t].selected
        BY <1>5, <2>1, Facts DEF Set
      <3> QED
        BY <2>1, <3>1, Facts, SMTT(60) DEF Recent
    <2>3. task' = [task EXCEPT ![t] = Have(task[t], task[t].name, task[t].space, task[t].read)]
      BY <1>5 DEF Set
    <2> QED
      BY <2>1, <2>2, <2>3, HaveMoves
  <1>6. CASE End(t)
    <2>1. Idle \in Task /\ Idle.at = "idle" /\ Idle.has = {}
      BY Facts DEF Idle, Task
    <2> QED
      BY <1>6, <2>1 DEF End, TaskMoves
  <1> QED
    BY <1>1, <1>2, <1>3, <1>4, <1>5, <1>6 DEF Worker

(* Only the worker moves tasks. *)
LEMMA WhoMoves ==
  ASSUME IInv, Next, NEW t \in Tasks, task'[t] # task[t]
  PROVE  \E y \in Task : TaskMoves(t, y) /\ task'[t] = y
  <1>1. ASSUME NEW r \in Requests, Api(r) PROVE task' = task
    BY <1>1 DEF Api, create, update, DeleteCheck, EndpointCheck, delete_endpoint, delete,
       create_endpoint, update_endpoint
  <1>2. ASSUME NEW w \in Spaces, create_job(w) PROVE task' = task
    BY <1>2 DEF create_job
  <1>3. ASSUME Tick PROVE task' = task
    BY <1>3 DEF Tick
  <1>4. PICK s \in Tasks : Worker(s)
    BY <1>1, <1>2, <1>3 DEF Next
  <1>5. PICK y \in Task : TaskMoves(s, y)
    BY <1>4, WorkerMoves
  <1>6. s = t /\ task'[t] = y
    BY <1>5, Facts DEF TaskMoves
  <1> QED
    BY <1>5, <1>6

(* A task misses the config of its endpoint only if the endpoint has been
   pointed elsewhere since the task read it. *)
THEOREM MissesAreMoves == Spec => MissedMeansMoved
  <1> DEFINE A == \A t \in Tasks :
                    /\ task[t].at # "failed" /\ task'[t].at = "failed"
                    /\ task[t].name \in Configs
                    => /\ endpoint[task[t].space].exists
                       /\ endpoint[task[t].space].config # task[t].config
  <1>1. IInv /\ [Next]_vars => [A]_vars
    <2> SUFFICES ASSUME IInv, Next, NEW t \in Tasks, task[t].at # "failed",
                        task'[t].at = "failed", task[t].name \in Configs
                 PROVE  /\ endpoint[task[t].space].exists
                        /\ endpoint[task[t].space].config # task[t].config
      OBVIOUS
    <2>1. Read(t)
      BY WhoMoves DEF TaskMoves
    <2>2. /\ TaskOK(task[t]) /\ task[t].at = "read" /\ task[t].name = task[t].config
          /\ task[t].space \in Spaces /\ used[task[t].space]
      BY <2>1 DEF Read, IInv, TasksInv, TaskOK
    <2>3. value[task[t].space][task[t].name] = 0
      BY <2>1, Facts DEF Read, Task
    <2>4. endpoint[task[t].space].exists
      BY <2>2 DEF IInv, UsedInv
    <2>5. Exists(task[t].space, endpoint[task[t].space].config)
      BY <2>2, <2>4, Facts DEF ReferencesResolve
    <2>6. task[t].name # None
      BY ResourcesAssumption
    <2> QED
      BY <2>2, <2>3, <2>4, <2>5, <2>6 DEF Exists
  <1> QED
    BY <1>1, Invariance, PTL DEF Spec, MissedMeansMoved

(* What a task takes for its dispatch, from the caches or from the tables, was
   replaced less than the time to live ago, plus the time its reader took from
   the SELECT to the set(), for any overlap of the tasks that evict, read and
   set the same entry. *)
THEOREM StalenessIsBounded == Spec => StaleAtMostTtl
  <1> DEFINE A == \A t \in Tasks : \A u \in task'[t].has \ task[t].has :
                    LET replaced == gone[u.from][u.name][u.version]
                        stale == now - replaced - cache'[u.name].waited IN
                    replaced # Never => stale <= 0 \/ stale < Ttl(u.name)
  <1>1. IInv /\ [Next]_vars => [A]_vars
    <2> SUFFICES ASSUME IInv, Next, NEW t \in Tasks, NEW u \in task'[t].has \ task[t].has
                 PROVE  Recent(u.name, u.from, u.version, cache'[u.name].waited)
      BY DEF Recent
    <2>1. task'[t] # task[t]
      OBVIOUS
    <2> QED
      BY <2>1, WhoMoves DEF TaskMoves
  <1> QED
    BY <1>1, Invariance, PTL DEF Spec, StaleAtMostTtl
=============================================================================
