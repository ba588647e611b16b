---------------------------- MODULE JobCreateProofs ----------------------------
(***************************************************************************)
(* Theorems about JobCreate: for any number of requests, deletes, keys and *)
(* failures, a key stands for one job, a job's endpoint exists, and the    *)
(* answers that clients get agree.  Each action keeps the inductive        *)
(* invariant CreateInv; what the actions have in common is that each       *)
(* changes one request, one delete or one row.                             *)
(***************************************************************************)
EXTENDS JobCreate, TLAPS

\* Initially nothing exists and nobody has asked.
LEMMA InitIInv == CreateInit => CreateInv
<1> SUFFICES ASSUME CreateInit PROVE CreateInv
  OBVIOUS
<1> USE DEF CreateInit, NewPost, NoJob, NewDelete
<1>1. CreateTypeOK
  BY JobCreateAssumption DEF CreateTypeOK, Job, Post, Delete, Trigger
<1>2. PostsKnowTheirJobs
  BY DEF PostsKnowTheirJobs
<1>3. OneJobPerKey
  BY DEF OneJobPerKey, StoredUnder, Holders
<1>4. EndpointsExist
  BY DEF EndpointsExist
<1> QED BY <1>1, <1>2, <1>3, <1>4 DEF CreateInv

\* An answer keeps the type of the request.
LEMMA AnsweredDelete ==
  ASSUME NEW x \in Delete, NEW code \in {0, 204, 404, 409, 500}
  PROVE  Answered(x, code) \in Delete
<1>0. [x EXCEPT !.phase = "done"] \in Delete
  BY DEF Delete
<1>1. PICK y \in Delete : y = [x EXCEPT !.phase = "done"]
  BY <1>0
<1>2. Answered(x, code) = [y EXCEPT !.answer = code]
  BY <1>1 DEF Answered, Delete
<1> QED BY <1>2 DEF Delete

LEMMA AnsweredPost ==
  ASSUME NEW x \in Post, NEW code \in {0, 200, 201, 400, 404, 409, 500}
  PROVE  /\ Answered(x, code) \in Post
         /\ Answered(x, code).phase = "done"
         /\ Answered(x, code).answer = code
         /\ Answered(x, code).endpoint = x.endpoint
         /\ Answered(x, code).key = x.key
         /\ Answered(x, code).job = x.job
<1>0. [x EXCEPT !.phase = "done"] \in Post
  BY DEF Post
<1>1. PICK y \in Post : y = [x EXCEPT !.phase = "done"]
  BY <1>0
<1>2. Answered(x, code) = [y EXCEPT !.answer = code]
  BY <1>1 DEF Answered, Post
<1>3. Answered(x, code) \in Post
  BY <1>2 DEF Post
<1> QED BY <1>3 DEF Answered, Post

\* Creating an endpoint disturbs nobody.
LEMMA EndpointCreatedIInv ==
  ASSUME CreateInv, NEW e \in Endpoints, create_endpoint(e)
  PROVE  CreateInv'
<1> USE DEF CreateInv, create_endpoint
<1>1. CreateTypeOK'
  BY DEF CreateTypeOK
<1>2. PostsKnowTheirJobs'
  BY DEF PostsKnowTheirJobs
<1>3. OneJobPerKey'
  BY DEF OneJobPerKey, StoredUnder, Holders
<1>4. EndpointsExist'
  BY DEF EndpointsExist
<1> QED BY <1>1, <1>2, <1>3, <1>4

\* has_active_jobs changes the request only.
LEMMA DeleteCheckIInv ==
  ASSUME CreateInv, NEW d \in Deletes, NEW e \in Endpoints, DeleteCheck(d, e)
  PROVE  CreateInv'
<1> USE DEF CreateInv, DeleteCheck
<1>1. CreateTypeOK'
  <2> DEFINE x == [del[d] EXCEPT !.endpoint = e]
  <2>1. x \in Delete
    BY DEF CreateTypeOK, Delete
  <2> HIDE DEF x
  <2>2. Answered(x, 409) \in Delete /\ [x EXCEPT !.phase = "checked"] \in Delete
    BY <2>1, AnsweredDelete DEF Delete
  <2> QED BY <2>2 DEF CreateTypeOK, x
<1>2. PostsKnowTheirJobs'
  BY DEF PostsKnowTheirJobs
<1>3. OneJobPerKey'
  BY DEF OneJobPerKey, StoredUnder, Holders
<1>4. EndpointsExist'
  BY DEF EndpointsExist
<1> QED BY <1>1, <1>2, <1>3, <1>4

\* The DELETE removes an endpoint only if no job and no transaction needs it.
LEMMA DeleteRowIInv ==
  ASSUME CreateInv, NEW d \in Deletes, DeleteRow(d)
  PROVE  CreateInv'
<1> USE DEF CreateInv, DeleteRow
<1>1. CreateTypeOK'
  <2>1. \A code \in {204, 404, 500} : Answered(del[d], code) \in Delete
    BY AnsweredDelete DEF CreateTypeOK
  <2> QED BY <2>1 DEF CreateTypeOK
<1>2. PostsKnowTheirJobs'
  BY DEF PostsKnowTheirJobs
<1>3. OneJobPerKey'
  BY DEF OneJobPerKey, StoredUnder, Holders
<1>4. EndpointsExist'
  BY DEF EndpointsExist
<1> QED BY <1>1, <1>2, <1>3, <1>4

\* Retiring a job keeps its endpoint, its key and whoever was told of it.
LEMMA RetireIInv ==
  ASSUME CreateInv, NEW j \in Jobs, retire(j)
  PROVE  CreateInv'
<1> USE DEF CreateInv, retire
<1>1. CreateTypeOK'
  BY DEF CreateTypeOK, Job
<1>2. PostsKnowTheirJobs'
  BY DEF PostsKnowTheirJobs, CreateTypeOK, Job
<1>3. OneJobPerKey'
  <2>1. ASSUME NEW e, NEW k PROVE StoredUnder(e, k)' = StoredUnder(e, k)
    BY DEF StoredUnder, CreateTypeOK, Job
  <2>2. ASSUME NEW e, NEW k PROVE Holders(e, k)' = Holders(e, k)
    BY DEF Holders
  <2> QED BY <2>1, <2>2 DEF OneJobPerKey
<1>4. EndpointsExist'
  BY DEF EndpointsExist, CreateTypeOK, Job
<1> QED BY <1>1, <1>2, <1>3, <1>4

\* What a request may become without a row being committed.
Fits(r, y) ==
  /\ y \in Post
  /\ y.phase # "new" /\ y.endpoint \in Endpoints
  /\ y.phase = "checked" => y.job = Nothing
  /\ y.phase # "done" => y.answer = 0
  /\ y.phase \in {"inserted", "referenced"} =>
       /\ y.job \in Jobs /\ jobs[y.job].status = "NONE"
       /\ \A q \in Requests : post[q].job = y.job => q = r
       /\ StoredUnder(y.endpoint, y.key) = {}
       /\ \A q \in Holders(y.endpoint, y.key) : q = r
  /\ y.phase = "referenced" => y.endpoint \in endpoints
  /\ y.answer \in {200, 201} =>
       /\ y.answer = 200
       /\ y.job \in Jobs /\ jobs[y.job].status # "NONE"
       /\ jobs[y.job].endpoint = y.endpoint /\ jobs[y.job].key = y.key
  /\ y.phase = "done" /\ y.answer \notin {200, 201} => y.job = Nothing

\* A request that changes by itself, into something that fits, keeps CreateInv.
LEMMA OnePostIInv ==
  ASSUME CreateInv, NEW r \in Requests, NEW y, Fits(r, y),
         post' = [post EXCEPT ![r] = y],
         UNCHANGED <<endpoints, jobs, del>>, failures' \in Nat
  PROVE  CreateInv'
<1> USE DEF CreateInv
<1>0. post'[r] = y /\ \A q \in Requests : q # r => post'[q] = post[q]
  BY DEF CreateTypeOK
<1>1. CreateTypeOK'
  BY DEF CreateTypeOK, Fits
<1>2. PostsKnowTheirJobs'
  <2>1. ASSUME NEW q \in Requests
        PROVE  LET x == post'[q] IN
               /\ x.phase # "new" => x.endpoint \in Endpoints
               /\ x.phase # "done" => x.answer = 0
               /\ x.phase \in {"new", "checked"} => x.job = Nothing
               /\ x.phase \in {"inserted", "referenced"} =>
                    x.job \in Jobs /\ jobs'[x.job].status = "NONE"
               /\ x.answer \in {200, 201} =>
                    /\ x.job \in Jobs /\ jobs'[x.job].status # "NONE"
                    /\ jobs'[x.job].endpoint = x.endpoint
                    /\ jobs'[x.job].key = x.key
               /\ x.phase = "done" /\ x.answer \notin {200, 201} => x.job = Nothing
    <3>1. CASE q = r
      BY <3>1, <1>0 DEF Fits, Post
    <3>2. CASE q # r
      BY <3>2, <1>0 DEF PostsKnowTheirJobs
    <3> QED BY <3>1, <3>2
  <2>2. ASSUME NEW p \in Requests, NEW q \in Requests,
               post'[p].job # Nothing, post'[p].answer # 200, post'[q].answer # 200,
               post'[p].job = post'[q].job
        PROVE  p = q
    <3>1. CASE p # r /\ q # r
      BY <3>1, <2>2, <1>0 DEF PostsKnowTheirJobs
    <3>2. CASE p = r \/ q = r
      <4>1. y.phase \in {"inserted", "referenced"} \/ p = q
        BY <3>2, <2>2, <1>0 DEF Fits, Post
      <4> QED BY <4>1, <3>2, <2>2, <1>0 DEF Fits
    <3> QED BY <3>1, <3>2
  <2> QED BY <2>1, <2>2 DEF PostsKnowTheirJobs
<1>3. OneJobPerKey'
  <2> SUFFICES ASSUME NEW e \in Endpoints, NEW k \in Keys
               PROVE  /\ \A i, j \in StoredUnder(e, k)' : i = j
                      /\ \A p, q \in Holders(e, k)' : p = q
                      /\ StoredUnder(e, k)' = {} \/ Holders(e, k)' = {}
    BY DEF OneJobPerKey
  <2>1. StoredUnder(e, k)' = StoredUnder(e, k)
    BY DEF StoredUnder
  <2>2. Holders(e, k)' \subseteq Holders(e, k) \cup {r}
    BY <1>0 DEF Holders
  <2>3. CASE r \in Holders(e, k)'
    <3>1. y.phase \in {"inserted", "referenced"} /\ y.endpoint = e /\ y.key = k
      BY <2>3, <1>0 DEF Holders
    <3> QED BY <3>1, <2>1, <2>2 DEF Fits, OneJobPerKey
  <2>4. CASE r \notin Holders(e, k)'
    BY <2>4, <2>1, <2>2 DEF OneJobPerKey
  <2> QED BY <2>3, <2>4
<1>4. EndpointsExist'
  BY <1>0 DEF EndpointsExist, Fits
<1> QED BY <1>1, <1>2, <1>3, <1>4

\* The lookup: refused, told of the committed job, or checked.
LEMMA LookupIInv ==
  ASSUME CreateInv, NEW r \in Requests, NEW e \in Endpoints,
         NEW k \in Keys \cup {NoKey}, NEW trigger \in Trigger,
         Lookup(r, e, k, trigger)
  PROVE  CreateInv'
<1> DEFINE x == [post[r] EXCEPT !.endpoint = e, !.key = k, !.trigger = trigger]
<1>1. post[r] \in Post /\ post[r].phase = "new" /\ post[r].answer = 0
      /\ post[r].job = Nothing /\ failures' = failures /\ failures \in Nat
  BY DEF CreateInv, CreateTypeOK, PostsKnowTheirJobs, Lookup
<1>2. x \in Post /\ x.phase = "new" /\ x.answer = 0 /\ x.job = Nothing
      /\ x.endpoint = e /\ x.key = k
  <2>1. [post[r] EXCEPT !.endpoint = e] \in Post
    BY <1>1 DEF Post
  <2>2. PICK a \in Post : a = [post[r] EXCEPT !.endpoint = e]
    BY <2>1
  <2>3. [a EXCEPT !.key = k] \in Post
    BY DEF Post
  <2>4. PICK b \in Post : b = [a EXCEPT !.key = k]
    BY <2>3
  <2>5. x = [b EXCEPT !.trigger = trigger]
    BY <1>1, <2>2, <2>4 DEF Post
  <2>6. [b EXCEPT !.trigger = trigger] \in Post
    BY DEF Post
  <2>7. x \in Post
    BY <2>5, <2>6
  <2> QED BY <1>1, <2>7 DEF Post
<1>3. \/ post' = [post EXCEPT ![r] = Answered(x, 404)]
      \/ \E j \in StoredUnder(e, k) :
           post' = [post EXCEPT ![r] = [Answered(x, 200) EXCEPT !.job = j]]
      \/ post' = [post EXCEPT ![r] = Answered(x, 400)]
      \/ post' = [post EXCEPT ![r] = [x EXCEPT !.phase = "checked"]]
  BY DEF Lookup
<1>4. UNCHANGED <<endpoints, jobs, del>>
  BY DEF Lookup
<1> HIDE DEF x
<1>5. CASE post' = [post EXCEPT ![r] = Answered(x, 404)]
  <2>1. PICK y : y = Answered(x, 404)
    OBVIOUS
  <2>2. y \in Post /\ y.phase = "done" /\ y.answer = 404 /\ y.endpoint = e
        /\ y.job = Nothing
    BY <1>2, <2>1, AnsweredPost
  <2>3. Fits(r, y)
    BY <2>2 DEF Fits
  <2> QED BY <2>1, <2>3, <1>1, <1>4, <1>5, OnePostIInv
<1>6. CASE post' = [post EXCEPT ![r] = Answered(x, 400)]
  <2>1. PICK y : y = Answered(x, 400)
    OBVIOUS
  <2>2. y \in Post /\ y.phase = "done" /\ y.answer = 400 /\ y.endpoint = e
        /\ y.job = Nothing
    BY <1>2, <2>1, AnsweredPost
  <2>3. Fits(r, y)
    BY <2>2 DEF Fits
  <2> QED BY <2>1, <2>3, <1>1, <1>4, <1>6, OnePostIInv
<1>7. ASSUME NEW j \in StoredUnder(e, k),
             post' = [post EXCEPT ![r] = [Answered(x, 200) EXCEPT !.job = j]]
      PROVE  CreateInv'
  <2>1. Answered(x, 200) \in Post /\ Answered(x, 200).phase = "done"
        /\ Answered(x, 200).answer = 200 /\ Answered(x, 200).endpoint = e
        /\ Answered(x, 200).key = k
    BY <1>2, AnsweredPost
  <2>2. Fits(r, [Answered(x, 200) EXCEPT !.job = j])
    BY <2>1 DEF Fits, StoredUnder, Post
  <2> QED BY <2>2, <1>1, <1>4, <1>7, OnePostIInv
<1>8. CASE post' = [post EXCEPT ![r] = [x EXCEPT !.phase = "checked"]]
  <2>1. Fits(r, [x EXCEPT !.phase = "checked"])
    BY <1>2 DEF Fits, Post
  <2> QED BY <2>1, <1>1, <1>4, <1>8, OnePostIInv
<1> QED BY <1>3, <1>5, <1>6, <1>7, <1>8

\* The INSERT: only the first transaction with a key gets past the index.
LEMMA InsertJobIInv ==
  ASSUME CreateInv, NEW r \in Requests, NEW j \in Jobs, InsertJob(r, j)
  PROVE  CreateInv'
<1>1. post[r] \in Post /\ post[r].phase = "checked" /\ post[r].answer = 0
      /\ post[r].job = Nothing /\ post[r].endpoint \in Endpoints
      /\ failures' = failures /\ failures \in Nat
  BY DEF CreateInv, CreateTypeOK, PostsKnowTheirJobs, InsertJob
<1>2. UNCHANGED <<endpoints, jobs, del>>
  BY DEF InsertJob
<1>3. CASE StoredUnder(post[r].endpoint, post[r].key) = {}
  <2> DEFINE y == [post[r] EXCEPT !.phase = "inserted", !.job = j]
  <2>1. post' = [post EXCEPT ![r] = y]
    BY <1>3 DEF InsertJob
  <2>2. [post[r] EXCEPT !.phase = "inserted"] \in Post
    BY <1>1 DEF Post
  <2>3. PICK a \in Post : a = [post[r] EXCEPT !.phase = "inserted"]
    BY <2>2
  <2>4. y = [a EXCEPT !.job = j]
    BY <1>1, <2>3 DEF Post
  <2>10. [a EXCEPT !.job = j] \in Post
    BY DEF Post
  <2>5. y \in Post
    BY <2>4, <2>10
  <2>6. y.phase = "inserted" /\ y.job = j /\ y.answer = 0
        /\ y.endpoint = post[r].endpoint /\ y.key = post[r].key
    BY <1>1 DEF Post
  <2>7. jobs[j].status = "NONE" /\ \A q \in Requests : post[q].job # j
    BY DEF InsertJob, Used
  <2>8. Holders(post[r].endpoint, post[r].key) = {}
    BY DEF InsertJob
  <2> HIDE DEF y
  <2>9. Fits(r, y)
    BY <1>1, <1>3, <2>5, <2>6, <2>7, <2>8 DEF Fits
  <2> QED BY <2>1, <2>9, <1>1, <1>2, OnePostIInv
<1>4. CASE StoredUnder(post[r].endpoint, post[r].key) # {}
  <2>1. PICK code \in {409, 500} :
          post' = [post EXCEPT ![r] = Answered(post[r], code)]
    BY <1>4, ZenonT(60) DEF InsertJob, ConflictCode
  <2>2. PICK y : y = Answered(post[r], code)
    OBVIOUS
  <2>3. y \in Post /\ y.phase = "done" /\ y.answer = code /\ y.job = Nothing
        /\ y.endpoint = post[r].endpoint
    BY <1>1, <2>2, AnsweredPost
  <2>4. Fits(r, y)
    BY <1>1, <2>3 DEF Fits
  <2> QED BY <2>1, <2>2, <2>4, <1>1, <1>2, OnePostIInv
<1> QED BY <1>3, <1>4

\* An answer that takes the job's id back fits at any time.
Refused(x, code) == [Answered(x, code) EXCEPT !.job = Nothing]

LEMMA RefusedFits ==
  ASSUME CreateInv, NEW r \in Requests, NEW code \in {404, 409, 500},
         post[r].phase \in {"checked", "inserted", "referenced"}
  PROVE  Fits(r, Refused(post[r], code))
<1>1. post[r] \in Post /\ post[r].endpoint \in Endpoints
  BY DEF CreateInv, CreateTypeOK, PostsKnowTheirJobs
<1>2. Answered(post[r], code) \in Post /\ Answered(post[r], code).phase = "done"
      /\ Answered(post[r], code).answer = code
      /\ Answered(post[r], code).endpoint = post[r].endpoint
  BY <1>1, AnsweredPost
<1> QED BY <1>1, <1>2 DEF Fits, Post, Refused

\* The foreign key: the endpoint is there and stays, or the row is withdrawn.
LEMMA CheckEndpointIInv ==
  ASSUME CreateInv, NEW r \in Requests, CheckEndpoint(r)
  PROVE  CreateInv'
<1>1. post[r] \in Post /\ post[r].phase = "inserted"
      /\ UNCHANGED <<endpoints, jobs, del>> /\ failures' = failures /\ failures \in Nat
  BY DEF CreateInv, CreateTypeOK, CheckEndpoint
<1>2. CASE post[r].endpoint \in endpoints
  <2> DEFINE y == [post[r] EXCEPT !.phase = "referenced"]
  <2>1. post' = [post EXCEPT ![r] = y]
    BY <1>2 DEF CheckEndpoint
  <2>2. y \in Post /\ y.phase = "referenced" /\ y.job = post[r].job
        /\ y.answer = post[r].answer /\ y.endpoint = post[r].endpoint
        /\ y.key = post[r].key
    BY <1>1 DEF Post
  <2>3. post[r].job \in Jobs /\ jobs[post[r].job].status = "NONE"
        /\ post[r].answer = 0 /\ post[r].endpoint \in Endpoints
    BY <1>1 DEF CreateInv, PostsKnowTheirJobs
  <2>4. ASSUME NEW q \in Requests, post[q].job = post[r].job
        PROVE  q = r
    BY <2>3, <2>4, JobCreateAssumption DEF CreateInv, PostsKnowTheirJobs
  <2>5. /\ StoredUnder(post[r].endpoint, post[r].key) = {}
        /\ \A q \in Holders(post[r].endpoint, post[r].key) : q = r
    <3>1. CASE post[r].key = NoKey
      BY <3>1 DEF StoredUnder, Holders
    <3>2. CASE post[r].key # NoKey
      <4>1. post[r].key \in Keys
        BY <3>2, <1>1 DEF Post
      <4>2. r \in Holders(post[r].endpoint, post[r].key)
        BY <3>2, <1>1 DEF Holders
      <4> QED BY <4>1, <4>2, <2>3 DEF CreateInv, OneJobPerKey
    <3> QED BY <3>1, <3>2
  <2> HIDE DEF y
  <2>6. Fits(r, y)
    BY <1>2, <2>2, <2>3, <2>4, <2>5 DEF Fits
  <2> QED BY <2>1, <2>6, <1>1, OnePostIInv
<1>3. CASE post[r].endpoint \notin endpoints
  <2>1. PICK code \in {404, 409, 500} : code = ForeignKeyCode(post[r].trigger)
    BY <1>1 DEF ForeignKeyCode, Post, Trigger
  <2>2. post' = [post EXCEPT ![r] = Refused(post[r], code)]
    BY <1>3, <2>1 DEF CheckEndpoint, Refused
  <2>3. Fits(r, Refused(post[r], code))
    BY <1>1, RefusedFits
  <2> QED BY <2>2, <2>3, <1>1, OnePostIInv
<1> QED BY <1>2, <1>3

\* A rollback takes the row and the locks with it.
LEMMA RollbackIInv ==
  ASSUME CreateInv, NEW r \in Requests, RollbackPost(r)
  PROVE  CreateInv'
<1>1. failures' \in Nat
  BY DEF CreateInv, CreateTypeOK, RollbackPost, Failed
<1>2. post[r].phase \in {"checked", "inserted", "referenced"}
      /\ post' = [post EXCEPT ![r] = Refused(post[r], 500)]
      /\ UNCHANGED <<endpoints, jobs, del>>
  BY DEF RollbackPost, Refused
<1>3. Fits(r, Refused(post[r], 500))
  BY <1>2, RefusedFits
<1> QED BY <1>1, <1>2, <1>3, OnePostIInv

\* The commit of r's row, whether or not the client is told.
LEMMA CommittedIInv ==
  ASSUME CreateInv, NEW r \in Requests, post[r].phase = "referenced",
         NEW y \in Post, y.phase = "done",
         y.endpoint = post[r].endpoint, y.key = post[r].key,
         \/ y.answer = 201 /\ y.job = post[r].job
         \/ y.answer = 500 /\ y.job = Nothing,
         jobs' = [jobs EXCEPT ![post[r].job] = Inserted(post[r])],
         post' = [post EXCEPT ![r] = y],
         UNCHANGED <<endpoints, del>>, failures' \in Nat
  PROVE  CreateInv'
<1> DEFINE j == post[r].job
           new == Inserted(post[r])
<1>1. post[r] \in Post /\ j \in Jobs /\ jobs[j].status = "NONE"
      /\ post[r].endpoint \in Endpoints /\ post[r].endpoint \in endpoints
      /\ post[r].answer = 0
  BY DEF CreateInv, CreateTypeOK, PostsKnowTheirJobs, EndpointsExist
<1>2. new \in Job
  BY <1>1 DEF Job, Post, Inserted
<1>3. jobs'[j] = new /\ \A i \in Jobs : i # j => jobs'[i] = jobs[i]
  BY <1>1 DEF CreateInv, CreateTypeOK
<1>4. post'[r] = y /\ \A q \in Requests : q # r => post'[q] = post[q]
  BY DEF CreateInv, CreateTypeOK
<1>5. \A q \in Requests : q # r /\ post[q].answer # 200 => post[q].job # j
  BY <1>1, JobCreateAssumption DEF CreateInv, PostsKnowTheirJobs
<1>6. \A q \in Requests : post[q].answer = 200 =>
         post[q].job \in Jobs /\ post[q].job # j
  BY <1>1 DEF CreateInv, PostsKnowTheirJobs
<1> HIDE DEF j, new
<1>7. CreateTypeOK'
  BY <1>1, <1>2, <1>3 DEF CreateInv, CreateTypeOK, j, new
<1>8. PostsKnowTheirJobs'
  <2>1. ASSUME NEW q \in Requests
        PROVE  LET x == post'[q] IN
               /\ x.phase # "new" => x.endpoint \in Endpoints
               /\ x.phase # "done" => x.answer = 0
               /\ x.phase \in {"new", "checked"} => x.job = Nothing
               /\ x.phase \in {"inserted", "referenced"} =>
                    x.job \in Jobs /\ jobs'[x.job].status = "NONE"
               /\ x.answer \in {200, 201} =>
                    /\ x.job \in Jobs /\ jobs'[x.job].status # "NONE"
                    /\ jobs'[x.job].endpoint = x.endpoint
                    /\ jobs'[x.job].key = x.key
               /\ x.phase = "done" /\ x.answer \notin {200, 201} => x.job = Nothing
    <3>1. CASE q = r
      <4>1. new.status = "ACTIVE" /\ new.endpoint = y.endpoint /\ new.key = y.key
        BY DEF new, Inserted
      <4> QED BY <3>1, <4>1, <1>1, <1>3, <1>4 DEF j
    <3>2. CASE q # r
      <4>1. post[q].job # j
        BY <3>2, <1>5, <1>6
      <4> QED BY <3>2, <4>1, <1>3, <1>4 DEF CreateInv, PostsKnowTheirJobs
    <3> QED BY <3>1, <3>2
  <2>2. ASSUME NEW p \in Requests, NEW q \in Requests,
               post'[p].job # Nothing, post'[p].answer # 200, post'[q].answer # 200,
               post'[p].job = post'[q].job
        PROVE  p = q
    <3>1. CASE p # r /\ q # r
      BY <3>1, <2>2, <1>4 DEF CreateInv, PostsKnowTheirJobs
    <3>2. CASE p = r \/ q = r
      BY <3>2, <2>2, <1>4, <1>5 DEF j
    <3> QED BY <3>1, <3>2
  <2> QED BY <2>1, <2>2 DEF PostsKnowTheirJobs
<1>9. OneJobPerKey'
  <2> SUFFICES ASSUME NEW e \in Endpoints, NEW k \in Keys
               PROVE  /\ \A i, m \in StoredUnder(e, k)' : i = m
                      /\ \A p, q \in Holders(e, k)' : p = q
                      /\ StoredUnder(e, k)' = {} \/ Holders(e, k)' = {}
    BY DEF OneJobPerKey
  <2>1. Holders(e, k)' \subseteq Holders(e, k) /\ r \notin Holders(e, k)'
    BY <1>4 DEF Holders
  <2>2. StoredUnder(e, k)' \subseteq StoredUnder(e, k) \cup {j}
    BY <1>1, <1>3 DEF StoredUnder
  <2>3. CASE post[r].endpoint = e /\ post[r].key = k
    <3>1. r \in Holders(e, k)
      BY <2>3, JobCreateAssumption DEF Holders
    <3>2. StoredUnder(e, k) = {} /\ \A q \in Holders(e, k) : q = r
      BY <3>1 DEF CreateInv, OneJobPerKey
    <3> QED BY <3>2, <2>1, <2>2
  <2>4. CASE ~(post[r].endpoint = e /\ post[r].key = k)
    <3>1. j \notin StoredUnder(e, k)'
      BY <2>4, <1>3 DEF StoredUnder, new, Inserted
    <3> QED BY <3>1, <2>1, <2>2 DEF CreateInv, OneJobPerKey
  <2> QED BY <2>3, <2>4
<1>10. EndpointsExist'
  BY <1>1, <1>3, <1>4 DEF CreateInv, EndpointsExist, new, Inserted
<1> QED BY <1>7, <1>8, <1>9, <1>10 DEF CreateInv

LEMMA CommitIInv ==
  ASSUME CreateInv, NEW r \in Requests, CommitPost(r)
  PROVE  CreateInv'
<1>1. post[r] \in Post /\ failures' \in Nat
  BY DEF CreateInv, CreateTypeOK, CommitPost
<1>2. PICK y : y = Answered(post[r], 201)
  OBVIOUS
<1>3. y \in Post /\ y.phase = "done" /\ y.answer = 201
      /\ y.endpoint = post[r].endpoint /\ y.key = post[r].key
      /\ y.job = post[r].job
  BY <1>1, <1>2, AnsweredPost
<1> QED BY <1>1, <1>2, <1>3, CommittedIInv DEF CommitPost

LEMMA CommitUnacknowledgedIInv ==
  ASSUME CreateInv, NEW r \in Requests, CommitUnacknowledged(r)
  PROVE  CreateInv'
<1>1. post[r] \in Post /\ failures' \in Nat /\ post[r].phase = "referenced"
  BY DEF CreateInv, CreateTypeOK, CommitUnacknowledged, Failed
<1>2. Fits(r, Refused(post[r], 500))
  BY <1>1, RefusedFits
<1>3. Answered(post[r], 500) \in Post
      /\ Answered(post[r], 500).phase = "done"
      /\ Answered(post[r], 500).answer = 500
      /\ Answered(post[r], 500).endpoint = post[r].endpoint
      /\ Answered(post[r], 500).key = post[r].key
  BY <1>1, AnsweredPost
<1>4. Refused(post[r], 500) \in Post /\ Refused(post[r], 500).phase = "done"
      /\ Refused(post[r], 500).answer = 500 /\ Refused(post[r], 500).job = Nothing
      /\ Refused(post[r], 500).endpoint = post[r].endpoint
      /\ Refused(post[r], 500).key = post[r].key
  BY <1>2, <1>3 DEF Fits, Refused, Post
<1>5. post' = [post EXCEPT ![r] = Refused(post[r], 500)]
      /\ UNCHANGED <<endpoints, del>>
      /\ jobs' = [jobs EXCEPT ![post[r].job] = Inserted(post[r])]
  BY DEF CommitUnacknowledged, Refused
<1>6. PICK y \in Post : y = Refused(post[r], 500)
  BY <1>4
<1>7. y \in Post /\ y.phase = "done" /\ y.answer = 500 /\ y.job = Nothing
      /\ y.endpoint = post[r].endpoint /\ y.key = post[r].key
      /\ post' = [post EXCEPT ![r] = y]
  BY <1>4, <1>5, <1>6
<1>8. UNCHANGED <<endpoints, del>>
      /\ jobs' = [jobs EXCEPT ![post[r].job] = Inserted(post[r])]
  BY <1>5
<1> QED BY <1>1, <1>7, <1>8, CommittedIInv

\* Every step keeps the invariant.
LEMMA NextIInv == CreateInv /\ [CreateNext]_createVars => CreateInv'
<1> SUFFICES ASSUME CreateInv, [CreateNext]_createVars PROVE CreateInv'
  OBVIOUS
<1>1. ASSUME UNCHANGED createVars PROVE CreateInv'
  BY <1>1 DEF CreateInv, createVars, CreateTypeOK, PostsKnowTheirJobs, OneJobPerKey,
              EndpointsExist, StoredUnder, Holders
<1>2. ASSUME NEW e \in Endpoints, create_endpoint(e) PROVE CreateInv'
  BY <1>2, EndpointCreatedIInv
<1>3. ASSUME NEW d \in Deletes, DeleteRow(d) PROVE CreateInv'
  BY <1>3, DeleteRowIInv
<1>4. ASSUME NEW d \in Deletes, NEW e \in Endpoints, DeleteCheck(d, e) PROVE CreateInv'
  BY <1>4, DeleteCheckIInv
<1>5. ASSUME NEW r \in Requests, NEW e \in Endpoints, NEW k \in Keys \cup {NoKey},
             NEW trigger \in Trigger, Lookup(r, e, k, trigger)
      PROVE  CreateInv'
  BY <1>5, LookupIInv
<1>6. ASSUME NEW r \in Requests, PostStep(r) PROVE CreateInv'
  BY <1>6, InsertJobIInv, CheckEndpointIInv, CommitIInv DEF PostStep
<1>7. ASSUME NEW r \in Requests, RollbackPost(r) PROVE CreateInv'
  BY <1>7, RollbackIInv
<1>8. ASSUME NEW r \in Requests, CommitUnacknowledged(r) PROVE CreateInv'
  BY <1>8, CommitUnacknowledgedIInv
<1>9. ASSUME NEW j \in Jobs, retire(j) PROVE CreateInv'
  BY <1>9, RetireIInv
<1> QED BY <1>1, <1>2, <1>3, <1>4, <1>5, <1>6, <1>7, <1>8, <1>9 DEF CreateNext

\* The invariant of creation and deletion, for any number of requests, keys
\* and failures.
THEOREM Invariance == CreateSpec => []CreateInv
<1>1. CreateInit => CreateInv
  BY InitIInv
<1>2. CreateInv /\ [CreateNext]_createVars => CreateInv'
  BY NextIInv
<1> QED BY <1>1, <1>2, PTL DEF CreateSpec

\* The unique index does what the API relies on: a key stands for one job,
\* committed or about to be.
THEOREM KeyIsUnique == CreateSpec => []OneJobPerKey
<1>1. CreateInv => OneJobPerKey
  BY DEF CreateInv
<1> QED BY <1>1, Invariance, PTL

\* No delete takes an endpoint away from a job that exists or is being made.
THEOREM EndpointsOutliveJobs == CreateSpec => []EndpointsExist
<1>1. CreateInv => EndpointsExist
  BY DEF CreateInv
<1> QED BY <1>1, Invariance, PTL

\* Clients that use one key are told of one job, created once.
THEOREM AnswersAlwaysAgree == CreateSpec => []AnswersAgree
<1>1. CreateInv => AnswersAgree
  <2> SUFFICES ASSUME CreateInv, NEW r \in Requests, NEW q \in Requests,
                      post[r].answer \in {200, 201}
               PROVE  /\ jobs[post[r].job].endpoint = post[r].endpoint
                      /\ jobs[post[r].job].key = post[r].key
                      /\ post[q].answer \in {200, 201}
                           /\ post[q].endpoint = post[r].endpoint
                           /\ post[q].key = post[r].key /\ post[r].key # NoKey =>
                         /\ post[q].job = post[r].job
                         /\ post[r].answer = 201 /\ post[q].answer = 201 => r = q
    BY DEF AnswersAgree
  <2>1. post[r] \in Post /\ post[q] \in Post
    BY DEF CreateInv, CreateTypeOK
  <2>2. post[r].phase = "done" /\ post[r].endpoint \in Endpoints
        /\ post[r].job \in Jobs /\ jobs[post[r].job].status # "NONE"
        /\ jobs[post[r].job].endpoint = post[r].endpoint
        /\ jobs[post[r].job].key = post[r].key
    BY <2>1 DEF CreateInv, PostsKnowTheirJobs
  <2>3. ASSUME post[q].answer \in {200, 201},
               post[q].endpoint = post[r].endpoint, post[q].key = post[r].key,
               post[r].key # NoKey
        PROVE  /\ post[q].job = post[r].job
               /\ post[r].answer = 201 /\ post[q].answer = 201 => r = q
    <3>1. post[q].job \in StoredUnder(post[r].endpoint, post[r].key)
      BY <2>3 DEF CreateInv, PostsKnowTheirJobs, StoredUnder
    <3>2. post[r].job \in StoredUnder(post[r].endpoint, post[r].key)
      BY <2>2, <2>3 DEF StoredUnder
    <3>3. post[r].key \in Keys
      BY <2>1, <2>3 DEF Post
    <3>4. post[q].job = post[r].job
      BY <2>2, <3>1, <3>2, <3>3 DEF CreateInv, OneJobPerKey
    <3> QED BY <3>4, <2>2, JobCreateAssumption DEF CreateInv, PostsKnowTheirJobs
  <2> QED BY <2>2, <2>3
<1> QED BY <1>1, Invariance, PTL
=============================================================================
