---------------------------- MODULE ClientsProofs ----------------------------
(***************************************************************************)
(* Theorems about Clients: for any set of concurrent calls, in either      *)
(* mode, what an Ok of the library client or of the HTTP client promises   *)
(* holds, and the creation of a workspace in five commits implements       *)
(* Tenants.  A step moves one call on, so the invariant is stated of a     *)
(* family of calls f, of jobs k and of a mode m, and the lemmas say which  *)
(* changes of them keep it; each action is then one of those changes.      *)
(***************************************************************************)
EXTENDS Clients, TLAPS

(* How far a request is tells what is committed for its slug. *)
Fits(p, s) ==
  /\ p.at # "answered" => p.answer = 0
  /\ p.answer \in {201, 409} => s.row
  /\ p.at \in Working => s.row
  /\ p.at \in Working \ {"read"} => ~s.version
  /\ p.at = "schema" => s.tables = "none" /\ ~s.reaper
  /\ p.at = "ddl" => s.tables = "some" /\ ~s.reaper
  /\ p.at = "reaper" => s.tables = "all" /\ ~s.reaper
  /\ p.at = "version" => s.tables = "all" /\ s.reaper
  /\ p.at = "read" => s = Complete

PostInv == \A r \in Requests : Fits(post[r], space[post[r].slug])

(* A call has a result once it has answered, only the HTTP client has still
   to receive it, and only the library client applies DDL. *)
PhasesInv(f, m) ==
  \A c \in Requests :
    /\ f[c].result = "pending" <=> f[c].at \in {"start", "second", "third"}
    /\ f[c].at = "reply" => m # "library"
    /\ f[c].op = "provision_workspace" /\ f[c].at = "second" => m = "library"

(* A call about to update a row that is no longer there was overtaken by
   its deletion. *)
RowInv(f, op, row) ==
  \A c \in Requests : f[c].op = op =>
    /\ f[c].at = "third" /\ row = Nobody => f[c].raced
    /\ f[c].result = "ok" => f[c].wrote \/ f[c].raced

(* A job is there from the INSERT of its call on; create_job answers Ok with
   a job that is there and, unless it is CRON, has an execution. *)
CreateOK(c, f, k, m) ==
  /\ k[c].status # "none" =>
       f[c].op = "create_job" /\ f[c].at \notin {"start", "second"}
  /\ f[c].op = "create_job" /\ f[c].at = "third" =>
       m = "library" /\ k[c].status # "none"
  /\ f[c].op = "create_job" /\ f[c].result = "ok" =>
       /\ f[c].target \in Requests
       /\ k[f[c].target].status # "none"
       /\ f[c].trigger # "CRON" => k[f[c].target].exec # "none"
       /\ m = "library" => f[c].target = c

(* What each stage of cancel_job has done.  The library cancels only a job
   whose creation has returned, so no execution is inserted after it. *)
CancelOK(c, f, k, m) ==
  LET j == k[f[c].target] IN
  /\ f[c].op = "cancel_job" /\ (f[c].at \in {"second", "third"} \/ f[c].result = "ok") =>
       /\ f[c].target \in Requests
       /\ j.status # "none"
       /\ j.trigger # "CRON" => j.exec \notin Fresh
       /\ m = "library" => f[f[c].target].at = "done"
  /\ f[c].op = "cancel_job" /\ (f[c].at = "third" \/ f[c].result = "ok") =>
       j.status = "RETIRED"

JobOK(j) ==
  /\ j.scheduled => j.trigger = "CRON"
  /\ j.status = "none" => ~j.scheduled /\ j.exec = "none"

KeysUnique(k) ==
  \A c, d \in Requests :
    /\ k[c].status # "none" /\ k[d].status # "none"
    /\ k[c].key = k[d].key /\ k[c].key # "null"
    => c = d

JobsInv(f, k, m) ==
  /\ \A c \in Requests : CreateOK(c, f, k, m)
  /\ \A c \in Requests : CancelOK(c, f, k, m)
  /\ \A c \in Requests : JobOK(k[c])
  /\ KeysUnique(k)

IInv ==
  /\ ClientsInv /\ PostInv
  /\ PhasesInv(call, mode)
  /\ RowInv(call, "upsert_secret", secret)
  /\ RowInv(call, "register_endpoint", endpoint)
  /\ JobsInv(call, job, mode)

-----------------------------------------------------------------------------
(* How one step changes the calls and the jobs.                            *)

(* A call that is not the one moving: at most it learns of a deletion. *)
Kept(x, y) ==
  /\ y \in Call
  /\ y.op = x.op /\ y.trigger = x.trigger /\ y.target = x.target
  /\ y.at = x.at /\ y.result = x.result
  /\ x.wrote => y.wrote
  /\ x.raced => y.raced

(* Call c moves, from f to g. *)
Moved(c, f, g) ==
  /\ f \in [Requests -> Call] /\ g \in [Requests -> Call]
  /\ \A d \in Requests : d # c => Kept(f[d], g[d])
  /\ g[c].op = f[c].op /\ g[c].trigger = f[c].trigger
  /\ f[c].raced => g[c].raced
  /\ f[c].at # "done"

(* A job that exists or not, from one state to the next, unless it is being
   created: only pg_cron gives it an execution that has not been tried. *)
Ages(j, k) ==
  /\ k \in Job
  /\ k.trigger = j.trigger /\ k.key = j.key
  /\ k.scheduled => j.scheduled
  /\ j.status = "none" <=> k.status = "none"
  /\ j.status = "RETIRED" => k.status = "RETIRED"
  /\ j.exec = "none" /\ j.status = "none" => k.exec = "none"
  /\ j.exec # "none" => k.exec # "none"
  /\ k.exec \in Fresh /\ j.exec \notin Fresh => j.trigger = "CRON"

(* Replacing the record of one call moves that call. *)
LEMMA MovedByExcept ==
  ASSUME NEW f \in [Requests -> Call], NEW c \in Requests, NEW y \in Call,
         y.op = f[c].op, y.trigger = f[c].trigger, f[c].raced => y.raced,
         f[c].at # "done"
  PROVE  /\ Moved(c, f, [f EXCEPT ![c] = y])
         /\ [f EXCEPT ![c] = y][c] = y
  <1> DEFINE g == [f EXCEPT ![c] = y]
  <1>1. g \in [Requests -> Call] /\ g[c] = y /\ \A d \in Requests : d # c => g[d] = f[d]
    OBVIOUS
  <1>2. \A x \in Call : Kept(x, x)
    BY DEF Kept
  <1> HIDE DEF g
  <1>3. Moved(c, f, g)
    BY <1>1, <1>2 DEF Moved
  <1> QED
    BY <1>1, <1>3 DEF g

(* The fields of a call that goes to another stage, or gets its result. *)
LEMMA StageIs ==
  ASSUME NEW x \in Call, NEW stage \in {"start", "second", "third", "reply", "done"}
  PROVE  LET y == [x EXCEPT !.at = stage] IN
         /\ y \in Call /\ y.at = stage
         /\ y.op = x.op /\ y.trigger = x.trigger /\ y.target = x.target
         /\ y.keyed = x.keyed /\ y.result = x.result
         /\ y.wrote = x.wrote /\ y.raced = x.raced
  BY DEF Call

LEMMA ResultIs ==
  ASSUME NEW x \in Call, NEW result \in {"pending", "ok", "err"}
  PROVE  LET y == [x EXCEPT !.result = result] IN
         /\ y \in Call /\ y.result = result
         /\ y.op = x.op /\ y.trigger = x.trigger /\ y.target = x.target
         /\ y.keyed = x.keyed /\ y.at = x.at
         /\ y.wrote = x.wrote /\ y.raced = x.raced
  BY DEF Call

LEMMA TargetIs ==
  ASSUME NEW x \in Call, NEW d \in Requests
  PROVE  LET y == [x EXCEPT !.target = d] IN
         /\ y \in Call /\ y.target = d
         /\ y.op = x.op /\ y.trigger = x.trigger
         /\ y.keyed = x.keyed /\ y.at = x.at /\ y.result = x.result
         /\ y.wrote = x.wrote /\ y.raced = x.raced
  BY DEF Call

LEMMA WroteIs ==
  ASSUME NEW x \in Call
  PROVE  LET y == [x EXCEPT !.wrote = TRUE] IN
         /\ y \in Call /\ y.wrote
         /\ y.op = x.op /\ y.trigger = x.trigger /\ y.target = x.target
         /\ y.keyed = x.keyed /\ y.at = x.at /\ y.result = x.result
         /\ y.raced = x.raced
  BY DEF Call

LEMMA RacedIs ==
  ASSUME NEW x \in Call
  PROVE  LET y == [x EXCEPT !.raced = TRUE] IN Kept(x, y) /\ y.raced
  BY DEF Call, Kept

LEMMA ReturnedIs ==
  ASSUME NEW x \in Call, NEW result \in {"ok", "err"}
  PROVE  LET y == Returned(x, result) IN
         /\ y \in Call /\ y.result = result
         /\ y.at \in {"reply", "done"} /\ (y.at = "reply" => ~Library)
         /\ y.op = x.op /\ y.trigger = x.trigger /\ y.target = x.target
         /\ y.keyed = x.keyed /\ y.wrote = x.wrote /\ y.raced = x.raced
  <1>1. CASE Library
    BY <1>1 DEF Returned, Call
  <1>2. CASE ~Library
    BY <1>2 DEF Returned, Call
  <1> QED
    BY <1>1, <1>2

-----------------------------------------------------------------------------
(* Which changes keep the parts of the invariant.                          *)

LEMMA PhasesKept ==
  ASSUME NEW f, NEW g, NEW m, NEW c \in Requests, Moved(c, f, g), PhasesInv(f, m),
         g[c].result = "pending" <=> g[c].at \in {"start", "second", "third"},
         g[c].at = "reply" => m # "library",
         g[c].op = "provision_workspace" /\ g[c].at = "second" => m = "library"
  PROVE  PhasesInv(g, m)
  BY DEF Moved, Kept, PhasesInv

(* A row disappears only if every call under way that means to write it
   learns so. *)
LEMMA RowKept ==
  ASSUME NEW f, NEW g, NEW m, NEW c \in Requests, Moved(c, f, g), PhasesInv(f, m),
         NEW op, NEW old, NEW new, RowInv(f, op, old),
         \/ new = Nobody => old = Nobody
         \/ \A d \in Requests :
              d # c /\ f[d].op = op /\ f[d].result = "pending" => g[d].raced,
         g[c].op = op =>
           /\ g[c].at = "third" /\ new = Nobody => g[c].raced
           /\ g[c].result = "ok" => g[c].wrote \/ g[c].raced
  PROVE  RowInv(g, op, new)
  <1> SUFFICES ASSUME NEW d \in Requests, g[d].op = op
               PROVE  /\ g[d].at = "third" /\ new = Nobody => g[d].raced
                      /\ g[d].result = "ok" => g[d].wrote \/ g[d].raced
    BY DEF RowInv
  <1>1. CASE d = c
    BY <1>1
  <1>2. CASE d # c
    <2>1. Kept(f[d], g[d]) /\ f[d].op = op
      BY <1>2 DEF Moved, Kept
    <2>2. /\ f[d].at = "third" /\ old = Nobody => f[d].raced
          /\ f[d].result = "ok" => f[d].wrote \/ f[d].raced
          /\ f[d].at = "third" => f[d].result = "pending"
      BY <2>1 DEF RowInv, PhasesInv
    <2> QED
      BY <1>2, <2>1, <2>2 DEF Kept
  <1> QED
    BY <1>1, <1>2

LEMMA JobsAge ==
  ASSUME NEW f \in [Requests -> Call], NEW k \in [Requests -> Job],
         NEW l \in [Requests -> Job], NEW m, JobsInv(f, k, m),
         \A d \in Requests : Ages(k[d], l[d])
  PROVE  JobsInv(f, l, m)
  <1>1. \A c \in Requests : CreateOK(c, f, l, m)
    BY DEF JobsInv, CreateOK, Ages
  <1>2. \A c \in Requests : CancelOK(c, f, l, m)
    BY DEF JobsInv, CancelOK, Ages
  <1>3. \A c \in Requests : JobOK(l[c])
    BY DEF JobsInv, JobOK, Ages, Job
  <1>4. KeysUnique(l)
    BY DEF JobsInv, KeysUnique, Ages
  <1> QED
    BY <1>1, <1>2, <1>3, <1>4 DEF JobsInv

LEMMA JobsMove ==
  ASSUME NEW f, NEW g, NEW k, NEW m, NEW c \in Requests, Moved(c, f, g),
         JobsInv(f, k, m), CreateOK(c, g, k, m), CancelOK(c, g, k, m)
  PROVE  JobsInv(g, k, m)
  <1>1. \A d \in Requests : CreateOK(d, g, k, m)
    BY DEF JobsInv, CreateOK, Moved, Kept
  <1>2. \A d \in Requests : CancelOK(d, g, k, m)
    <2> SUFFICES ASSUME NEW d \in Requests, d # c PROVE CancelOK(d, g, k, m)
      OBVIOUS
    <2>1. CancelOK(d, f, k, m) /\ Kept(f[d], g[d])
      BY DEF JobsInv, Moved
    <2>2. \A e \in Requests : f[e].at = "done" => g[e].at = "done"
      BY DEF Moved, Kept
    <2> QED
      BY <2>1, <2>2 DEF CancelOK, Kept
  <1> QED
    BY <1>1, <1>2 DEF JobsInv

(* A call of another kind, or one that fails, says nothing about jobs. *)
LEMMA JobsMoveOther ==
  ASSUME NEW f, NEW g, NEW k, NEW m, NEW c \in Requests, Moved(c, f, g),
         JobsInv(f, k, m),
         \/ g[c].op \notin {"create_job", "cancel_job"}
         \/ g[c].at \in {"reply", "done"} /\ g[c].result # "ok"
         \/ /\ g[c].at \in {"reply", "done"} /\ f[c].at \notin {"start", "second"}
            /\ g[c].target = f[c].target /\ g[c].result = f[c].result
         \/ g[c].op = "create_job" /\ g[c].at \in {"start", "second"} /\ k[c].status = "none"
            /\ g[c].result # "ok"
  PROVE  JobsInv(g, k, m)
  <1>1. /\ CreateOK(c, f, k, m) /\ CancelOK(c, f, k, m)
        /\ g[c].op = f[c].op /\ g[c].trigger = f[c].trigger /\ f[c].at # "done"
    BY DEF JobsInv, Moved
  <1>2. \A e \in Requests : f[e].at = "done" => g[e].at = "done"
    BY DEF Moved, Kept
  <1>3. CreateOK(c, g, k, m)
    BY <1>1 DEF CreateOK
  <1>4. CancelOK(c, g, k, m)
    BY <1>1, <1>2 DEF CancelOK
  <1> QED
    BY <1>3, <1>4, JobsMove

(* The INSERT of a job whose key nobody has. *)
LEMMA JobsInsert ==
  ASSUME NEW f, NEW g, NEW k \in [Requests -> Job], NEW y \in Job, NEW m,
         NEW c \in Requests, Moved(c, f, g), JobsInv(f, k, m),
         f[c].op = "create_job", f[c].at = "second",
         y.status = "ACTIVE", JobOK(y),
         \A d \in Requests : k[d].status # "none" /\ k[d].key = y.key => y.key = "null",
         \/ g[c].at = "third" /\ g[c].result # "ok" /\ m = "library"
         \/ /\ g[c].at \in {"reply", "done"} /\ g[c].target = c
            /\ f[c].trigger # "CRON" => y.exec # "none"
  PROVE  JobsInv(g, [k EXCEPT ![c] = y], m)
  <1> DEFINE l == [k EXCEPT ![c] = y]
  <1>1. /\ l \in [Requests -> Job] /\ l[c] = y
        /\ \A d \in Requests : d # c => l[d] = k[d]
    OBVIOUS
  <1> HIDE DEF l
  <1>2. k[c].status = "none"
    BY DEF JobsInv, CreateOK
  <1>3. \A d \in Requests : CreateOK(d, g, l, m)
    <2>1. CreateOK(c, g, l, m)
      BY <1>1 DEF CreateOK, Moved
    <2>2. ASSUME NEW d \in Requests, d # c PROVE CreateOK(d, g, l, m)
      <3>1. CreateOK(d, f, k, m) /\ Kept(f[d], g[d])
        BY <2>2 DEF JobsInv, Moved
      <3> QED
        BY <3>1, <2>2, <1>1, <1>2 DEF CreateOK, Kept
    <2> QED
      BY <2>1, <2>2
  <1>4. \A d \in Requests : CancelOK(d, g, l, m)
    <2>1. CancelOK(c, g, l, m)
      BY DEF CancelOK, Moved
    <2>2. ASSUME NEW d \in Requests, d # c PROVE CancelOK(d, g, l, m)
      <3>1. CancelOK(d, f, k, m) /\ Kept(f[d], g[d])
        BY <2>2 DEF JobsInv, Moved
      <3>2. \A e \in Requests : f[e].at = "done" => g[e].at = "done"
        BY DEF Moved, Kept
      <3> QED
        BY <3>1, <3>2, <2>2, <1>1, <1>2 DEF CancelOK, Kept
    <2> QED
      BY <2>1, <2>2
  <1>5. \A d \in Requests : JobOK(l[d])
    BY <1>1 DEF JobsInv
  <1>6. KeysUnique(l)
    BY <1>1, <1>2 DEF KeysUnique, JobsInv
  <1> QED
    BY <1>3, <1>4, <1>5, <1>6 DEF JobsInv, l

(* The INSERT of the execution: nobody cancels a job that was not returned. *)
LEMMA JobsQueue ==
  ASSUME NEW f, NEW g, NEW k \in [Requests -> Job], NEW m,
         NEW c \in Requests, Moved(c, f, g), JobsInv(f, k, m),
         f[c].op = "create_job", f[c].at = "third",
         g[c].at \in {"reply", "done"}, g[c].target = c
  PROVE  JobsInv(g, [k EXCEPT ![c].exec = "open"], m)
  <1> DEFINE l == [k EXCEPT ![c].exec = "open"]
  <1>1. /\ l \in [Requests -> Job]
        /\ \A d \in Requests : d # c => l[d] = k[d]
        /\ l[c].status = k[c].status /\ l[c].trigger = k[c].trigger
        /\ l[c].key = k[c].key /\ l[c].scheduled = k[c].scheduled /\ l[c].exec = "open"
    BY DEF Job, Execution
  <1> HIDE DEF l
  <1>2. k[c].status # "none" /\ m = "library"
    BY DEF JobsInv, CreateOK
  <1>3. \A d \in Requests : CreateOK(d, g, l, m)
    <2>1. CreateOK(c, g, l, m)
      BY <1>1, <1>2 DEF CreateOK, Moved
    <2>2. ASSUME NEW d \in Requests, d # c PROVE CreateOK(d, g, l, m)
      <3>1. CreateOK(d, f, k, m) /\ Kept(f[d], g[d])
        BY <2>2 DEF JobsInv, Moved
      <3> QED
        BY <3>1, <2>2, <1>1, <1>2 DEF CreateOK, Kept
    <2> QED
      BY <2>1, <2>2
  <1>4. \A d \in Requests : CancelOK(d, g, l, m)
    <2>1. CancelOK(c, g, l, m)
      BY DEF CancelOK, Moved
    <2>2. ASSUME NEW d \in Requests, d # c PROVE CancelOK(d, g, l, m)
      <3>1. CancelOK(d, f, k, m) /\ Kept(f[d], g[d])
        BY <2>2 DEF JobsInv, Moved
      <3>2. \A e \in Requests : f[e].at = "done" => g[e].at = "done"
        BY DEF Moved, Kept
      <3> QED
        BY <3>1, <3>2, <2>2, <1>1, <1>2 DEF CancelOK, Kept
    <2> QED
      BY <2>1, <2>2
  <1>5. \A d \in Requests : JobOK(l[d])
    <2>1. JobOK(l[c])
      BY <1>1, <1>2 DEF JobsInv, JobOK
    <2> QED
      BY <2>1, <1>1 DEF JobsInv
  <1>6. KeysUnique(l)
    BY <1>1, <1>2 DEF KeysUnique, JobsInv
  <1> QED
    BY <1>3, <1>4, <1>5, <1>6 DEF JobsInv, l

-----------------------------------------------------------------------------
(* The ways in which the actions move a call.                              *)

(* What the record of a call keeps through all of them. *)
Same(x, y) == y.op = x.op /\ y.trigger = x.trigger /\ y.raced = x.raced

Ended(y, result) ==
  /\ y.result = result /\ y.at \in {"reply", "done"} /\ (y.at = "reply" => ~Library)

LEMMA ReturnMoves ==
  ASSUME TypeOK, NEW c \in Requests, call[c].at # "done",
         NEW result \in {"ok", "err"}, Return(c, result)
  PROVE  /\ Moved(c, call, call') /\ Same(call[c], call'[c])
         /\ Ended(call'[c], result) /\ call'[c].target = call[c].target
         /\ call'[c].wrote = call[c].wrote
  <1>1. call \in [Requests -> Call] /\ call[c] \in Call
    BY DEF TypeOK
  <1>2. PICK y : y = Returned(call[c], result)
    OBVIOUS
  <1>3. call' = [call EXCEPT ![c] = y]
    BY <1>1, <1>2 DEF Return
  <1>4. y \in Call /\ Ended(y, result) /\ Same(call[c], y)
        /\ y.target = call[c].target /\ y.wrote = call[c].wrote
    BY <1>1, <1>2, ReturnedIs DEF Ended, Same
  <1>5. Moved(c, call, call') /\ call'[c] = y
    BY <1>1, <1>3, <1>4, MovedByExcept DEF Same
  <1> QED
    BY <1>4, <1>5

LEMMA ContinueMoves ==
  ASSUME TypeOK, NEW c \in Requests, call[c].at # "done",
         NEW stage \in {"start", "second", "third", "reply", "done"}, Continue(c, stage)
  PROVE  /\ Moved(c, call, call') /\ Same(call[c], call'[c])
         /\ call'[c].at = stage /\ call'[c].result = call[c].result
         /\ call'[c].target = call[c].target /\ call'[c].wrote = call[c].wrote
  <1>1. call \in [Requests -> Call] /\ call[c] \in Call
    BY DEF TypeOK
  <1>2. PICK y : y = [call[c] EXCEPT !.at = stage]
    OBVIOUS
  <1>3. call' = [call EXCEPT ![c] = y]
    BY <1>1, <1>2 DEF Continue
  <1>4. /\ y \in Call /\ Same(call[c], y) /\ y.at = stage /\ y.result = call[c].result
        /\ y.target = call[c].target /\ y.wrote = call[c].wrote
    BY <1>1, <1>2, StageIs, ZenonT(60) DEF Same
  <1>5. Moved(c, call, call') /\ call'[c] = y
    BY <1>1, <1>3, <1>4, MovedByExcept DEF Same
  <1> QED
    BY <1>4, <1>5

LEMMA WroteMoves ==
  ASSUME TypeOK, NEW c \in Requests, call[c].at # "done", Wrote(c)
  PROVE  /\ Moved(c, call, call') /\ Same(call[c], call'[c])
         /\ Ended(call'[c], "ok") /\ call'[c].wrote
  <1>1. call \in [Requests -> Call] /\ call[c] \in Call
    BY DEF TypeOK
  <1>2. PICK x : x = Returned(call[c], "ok")
    OBVIOUS
  <1>3. x \in Call /\ Ended(x, "ok") /\ Same(call[c], x)
    BY <1>1, <1>2, ReturnedIs DEF Ended, Same
  <1>4. PICK y : y = [x EXCEPT !.wrote = TRUE]
    OBVIOUS
  <1>5. y \in Call /\ Ended(y, "ok") /\ Same(call[c], y) /\ y.wrote
    BY <1>3, <1>4, WroteIs DEF Ended, Same
  <1>6. call' = [call EXCEPT ![c] = y]
    BY <1>1, <1>2, <1>4 DEF Wrote
  <1>7. Moved(c, call, call') /\ call'[c] = y
    BY <1>1, <1>5, <1>6, MovedByExcept DEF Same
  <1> QED
    BY <1>5, <1>7

(* The call returns with the job it stands for. *)
LEMMA TargetMoves ==
  ASSUME TypeOK, NEW c \in Requests, call[c].at # "done", NEW d \in Requests,
         NEW result \in {"ok", "err"},
         call' = [call EXCEPT ![c] = [Returned(@, result) EXCEPT !.target = d]]
  PROVE  /\ Moved(c, call, call') /\ Same(call[c], call'[c])
         /\ Ended(call'[c], result) /\ call'[c].target = d
  <1>1. call \in [Requests -> Call] /\ call[c] \in Call
    BY DEF TypeOK
  <1>2. PICK x : x = Returned(call[c], result)
    OBVIOUS
  <1>3. x \in Call /\ Ended(x, result) /\ Same(call[c], x)
    BY <1>1, <1>2, ReturnedIs DEF Ended, Same
  <1>4. PICK y : y = [x EXCEPT !.target = d]
    OBVIOUS
  <1>5. y \in Call /\ Ended(y, result) /\ Same(call[c], y) /\ y.target = d
    BY <1>3, <1>4, TargetIs DEF Ended, Same
  <1>6. call' = [call EXCEPT ![c] = y]
    BY <1>1, <1>2, <1>4
  <1>7. Moved(c, call, call') /\ call'[c] = y
    <2>1. /\ y.op = call[c].op /\ y.trigger = call[c].trigger
          /\ call[c].raced => y.raced
      BY <1>5 DEF Same
    <2>2. /\ Moved(c, call, [call EXCEPT ![c] = y])
          /\ [call EXCEPT ![c] = y][c] = y
      BY <1>1, <1>5, <2>1, MovedByExcept
    <2> QED
      BY <1>6, <2>2, Zenon
  <1> QED
    BY <1>5, <1>7

(* The calls that mean to write the row learn that it was deleted. *)
LEMMA DeletedMoves ==
  ASSUME TypeOK, NEW c \in Requests, call[c].at # "done", NEW op, Deleted(c, op)
  PROVE  /\ Moved(c, call, call') /\ Same(call[c], call'[c]) /\ Ended(call'[c], "ok")
         /\ \A d \in Requests :
              d # c /\ call[d].op = op /\ call[d].result = "pending" => call'[d].raced
  <1>1. call \in [Requests -> Call] /\ call[c] \in Call
    BY DEF TypeOK
  <1>2. PICK y : y = Returned(call[c], "ok")
    OBVIOUS
  <1>3. y \in Call /\ Ended(y, "ok") /\ Same(call[c], y)
    BY <1>1, <1>2, ReturnedIs DEF Ended, Same
  <1>4. \A x \in Call : Kept(x, x)
    BY DEF Kept
  <1>5. \A d \in Requests :
          call'[d] = IF d = c THEN y
                     ELSE IF call[d].op = op /\ call[d].result = "pending"
                          THEN [call[d] EXCEPT !.raced = TRUE] ELSE call[d]
    BY <1>2 DEF Deleted
  <1>6. ASSUME NEW d \in Requests, d # c
        PROVE  /\ Kept(call[d], call'[d])
               /\ call[d].op = op /\ call[d].result = "pending" => call'[d].raced
    <2>1. call[d] \in Call
      BY <1>1
    <2>2. CASE call[d].op = op /\ call[d].result = "pending"
      <3>1. call'[d] = [call[d] EXCEPT !.raced = TRUE]
        BY <1>5, <1>6, <2>2
      <3> QED
        BY <2>1, <3>1, RacedIs
    <2>3. CASE ~(call[d].op = op /\ call[d].result = "pending")
      <3>1. call'[d] = call[d]
        BY <1>5, <1>6, <2>3
      <3> QED
        BY <2>1, <2>3, <3>1, <1>4
    <2> QED
      BY <2>2, <2>3
  <1>7. call' \in [Requests -> Call] /\ call'[c] = y
    <2>1. call'[c] = y
      BY <1>5
    <2>2. \A d \in Requests : call'[d] \in Call
      BY <1>3, <1>6, <2>1 DEF Kept
    <2>3. call' = [d \in Requests |-> call'[d]]
      BY DEF Deleted
    <2> QED
      BY <2>1, <2>2, <2>3
  <1>8. Moved(c, call, call')
    BY <1>1, <1>3, <1>6, <1>7 DEF Moved, Same
  <1> QED
    BY <1>3, <1>6, <1>7, <1>8

-----------------------------------------------------------------------------
(* The actions.                                                            *)

(* The row `row` of the calls of op, across a step of c. *)
RowStep(c, op, old, new) ==
  /\ \/ new = Nobody => old = Nobody
     \/ \A d \in Requests :
          d # c /\ call[d].op = op /\ call[d].result = "pending" => call'[d].raced
  /\ call'[c].op = op =>
       /\ call'[c].at = "third" /\ new = Nobody => call'[c].raced
       /\ call'[c].result = "ok" => call'[c].wrote \/ call'[c].raced

(* What there is to show of an action that moves call c. *)
LEMMA CallStep ==
  ASSUME IInv, UNCHANGED workspaceVars, mode' = mode, NEW c \in Requests,
         Moved(c, call, call'),
         secret' \in Writer, endpoint' \in Writer,
         job' \in [Requests -> Job], tables' \in {"none", "some", "all"},
         tables = "all" => tables' = "all",
         call'[c].result = "pending" <=> call'[c].at \in {"start", "second", "third"},
         call'[c].at = "reply" => ~Library,
         RowStep(c, "upsert_secret", secret, secret'),
         RowStep(c, "register_endpoint", endpoint, endpoint'),
         JobsInv(call', job', mode),
         call'[c].op = "provision_workspace" /\ call'[c].result = "ok" =>
           IF Library THEN tables' = "all" ELSE space[post[c].slug].row,
         call'[c].op = "provision_workspace" /\ call'[c].at = "second" => Library
  PROVE  IInv'
  <1>1. space' = space /\ post' = post /\ Library' = Library
    BY DEF workspaceVars, Library
  <1>2. TypeOK'
    BY <1>1 DEF IInv, ClientsInv, TypeOK, WorkspaceTypeOK, Moved
  <1>3. VersionMarksComplete' /\ SingleProvisioner' /\ PostInv'
    BY <1>1 DEF IInv, ClientsInv, VersionMarksComplete, SingleProvisioner, PostInv, Fits
  <1>4. ProvisionedIsListed'
    <2> SUFFICES ASSUME NEW d \in Requests, call'[d].op = "provision_workspace",
                        call'[d].result = "ok"
                 PROVE  IF Library THEN tables' = "all" ELSE space[post[d].slug].row
      BY <1>1 DEF ProvisionedIsListed
    <2>1. CASE d = c
      BY <2>1
    <2>2. CASE d # c
      <3>1. call[d].op = "provision_workspace" /\ call[d].result = "ok"
        BY <2>2 DEF Moved, Kept
      <3> QED
        BY <3>1 DEF IInv, ClientsInv, ProvisionedIsListed
    <2> QED
      BY <2>1, <2>2
  <1>5. PhasesInv(call, mode) /\ PhasesInv(call', mode)
    <2>1. /\ call'[c].at = "reply" => mode # "library"
          /\ call'[c].op = "provision_workspace" /\ call'[c].at = "second"
               => mode = "library"
      BY DEF Library
    <2> QED
      BY <2>1, PhasesKept DEF IInv
  <1>6. RowInv(call', "upsert_secret", secret')
    BY <1>5, RowKept DEF IInv, RowStep
  <1>7. RowInv(call', "register_endpoint", endpoint')
    BY <1>5, RowKept DEF IInv, RowStep
  <1>8. PhasesInv(call, mode)' /\ JobsInv(call, job, mode)'
    <2>1. JobsInv(call', job', mode')
      OBVIOUS
    <2> QED
      BY <1>5, <2>1 DEF PhasesInv, JobsInv, CreateOK, CancelOK, JobOK, KeysUnique
  <1>9. RowInv(call, "upsert_secret", secret)' /\ RowInv(call, "register_endpoint", endpoint)'
    BY <1>6, <1>7 DEF RowInv
  <1> QED
    BY <1>2, <1>3, <1>4, <1>8, <1>9 DEF IInv, ClientsInv

(* The facts about the state before that the actions need. *)
LEMMA Facts ==
  ASSUME IInv
  PROVE  /\ TypeOK /\ JobsInv(call, job, mode)
         /\ secret \in Writer /\ endpoint \in Writer
         /\ job \in [Requests -> Job] /\ tables \in {"none", "some", "all"}
         /\ \A c \in Requests :
              /\ c \in Writer /\ c # Nobody
              /\ call[c] \in Call
              /\ call[c].result = "pending" <=> call[c].at \in {"start", "second", "third"}
              /\ call[c].at = "reply" => ~Library
              /\ call[c].op = "provision_workspace" /\ call[c].at = "second" => Library
         /\ Nobody \in Writer
  BY ClientsAssumption DEF IInv, ClientsInv, TypeOK, PhasesInv, Library, Writer

(* A call returns and changes no row: an error, or an Ok that promises
   nothing that was not already so. *)
LEMMA OnlyReturns ==
  ASSUME IInv, UNCHANGED workspaceVars, NEW c \in Requests, call[c].at # "done",
         NEW result \in {"ok", "err"}, Return(c, result),
         UNCHANGED <<mode, secret, endpoint, job, tables>>,
         result = "ok" =>
           \/ call[c].op \in {"delete_secret", "delete_endpoint", "get_execution"}
           \/ call[c].op \in {"upsert_secret", "register_endpoint"} /\ call[c].raced
           \/ /\ call[c].op = "provision_workspace"
              /\ IF Library THEN tables = "all" ELSE space[post[c].slug].row
  PROVE  IInv'
  <1>1. /\ Moved(c, call, call') /\ Same(call[c], call'[c]) /\ Ended(call'[c], result)
    BY Facts, ReturnMoves
  <1>2. JobsInv(call', job, mode)
    BY <1>1, Facts, JobsMoveOther DEF Same, Ended
  <1> QED
    BY <1>1, <1>2, Facts, CallStep DEF Same, Ended, RowStep

LEMMA SecretWritten ==
  ASSUME IInv, UNCHANGED workspaceVars, NEW c \in Requests, call[c].at # "done",
         call[c].op = "upsert_secret", secret' = c, Wrote(c),
         UNCHANGED <<mode, endpoint, job, tables>>
  PROVE  IInv'
  <1>1. /\ Moved(c, call, call') /\ Same(call[c], call'[c])
        /\ Ended(call'[c], "ok") /\ call'[c].wrote
    BY Facts, WroteMoves
  <1>2. JobsInv(call', job, mode)
    BY <1>1, Facts, JobsMoveOther DEF Same
  <1> QED
    BY <1>1, <1>2, Facts, CallStep DEF Same, Ended, RowStep

LEMMA EndpointWritten ==
  ASSUME IInv, UNCHANGED workspaceVars, NEW c \in Requests, call[c].at # "done",
         call[c].op = "register_endpoint", endpoint' = c, Wrote(c),
         UNCHANGED <<mode, secret, job, tables>>
  PROVE  IInv'
  <1>1. /\ Moved(c, call, call') /\ Same(call[c], call'[c])
        /\ Ended(call'[c], "ok") /\ call'[c].wrote
    BY Facts, WroteMoves
  <1>2. JobsInv(call', job, mode)
    BY <1>1, Facts, JobsMoveOther DEF Same
  <1> QED
    BY <1>1, <1>2, Facts, CallStep DEF Same, Ended, RowStep

(* The first statement of an upsert decides for the INSERT or the UPDATE. *)
LEMMA WriteDecided ==
  ASSUME IInv, UNCHANGED workspaceVars, NEW c \in Requests, call[c].at = "start",
         NEW stage \in {"second", "third"}, Continue(c, stage),
         UNCHANGED <<mode, secret, endpoint, job, tables>>,
         \/ call[c].op = "upsert_secret" /\ (stage = "third" => secret # Nobody)
         \/ call[c].op = "register_endpoint" /\ (stage = "third" => endpoint # Nobody)
  PROVE  IInv'
  <1>1. /\ Moved(c, call, call') /\ Same(call[c], call'[c])
        /\ call'[c].at = stage /\ call'[c].result = call[c].result
    BY Facts, ContinueMoves
  <1>2. JobsInv(call', job, mode)
    BY <1>1, Facts, JobsMoveOther DEF Same
  <1> QED
    BY <1>1, <1>2, Facts, CallStep DEF Same, RowStep

LEMMA UpsertIInv ==
  ASSUME IInv, UNCHANGED workspaceVars, NEW c \in Requests,
         UpsertFirst(c) \/ UpsertInsert(c) \/ UpsertUpdate(c)
  PROVE  IInv'
  <1>1. CASE UpsertFirst(c)
    <2>1. CASE secret' = c /\ Wrote(c)
      BY <1>1, <2>1, SecretWritten DEF UpsertFirst, At
    <2>2. CASE UNCHANGED secret /\ Continue(c, "second")
      BY <1>1, <2>2, WriteDecided DEF UpsertFirst, At
    <2>3. CASE UNCHANGED secret /\ Continue(c, "third") /\ secret # Nobody
      BY <1>1, <2>3, WriteDecided DEF UpsertFirst, At
    <2> QED
      BY <1>1, <2>1, <2>2, <2>3 DEF UpsertFirst
  <1>2. CASE UpsertInsert(c)
    <2>1. CASE secret' = c /\ Wrote(c)
      BY <1>2, <2>1, SecretWritten DEF UpsertInsert, At
    <2>2. CASE UNCHANGED secret /\ Return(c, "err")
      BY <1>2, <2>2, OnlyReturns DEF UpsertInsert, At
    <2> QED
      BY <1>2, <2>1, <2>2 DEF UpsertInsert
  <1>3. CASE UpsertUpdate(c)
    <2>1. CASE secret' = c /\ Wrote(c)
      BY <1>3, <2>1, SecretWritten DEF UpsertUpdate, At
    <2>2. CASE secret = Nobody /\ UNCHANGED secret /\ Return(c, IF Library THEN "ok" ELSE "err")
      <3>1. call[c].raced
        BY <1>3, <2>2 DEF UpsertUpdate, At, IInv, RowInv
      <3> QED
        BY <1>3, <2>2, <3>1, OnlyReturns DEF UpsertUpdate, At
    <2> QED
      BY <1>3, <2>1, <2>2 DEF UpsertUpdate
  <1> QED
    BY <1>1, <1>2, <1>3

LEMMA RegisterIInv ==
  ASSUME IInv, UNCHANGED workspaceVars, NEW c \in Requests,
         RegisterFirst(c) \/ RegisterInsert(c) \/ RegisterUpdate(c)
  PROVE  IInv'
  <1>1. CASE RegisterFirst(c)
    <2>1. CASE endpoint' = c /\ Wrote(c)
      BY <1>1, <2>1, EndpointWritten DEF RegisterFirst, At
    <2>2. CASE UNCHANGED endpoint /\ Continue(c, "second")
      BY <1>1, <2>2, WriteDecided DEF RegisterFirst, At
    <2>3. CASE UNCHANGED endpoint /\ Continue(c, "third") /\ endpoint # Nobody
      BY <1>1, <2>3, WriteDecided DEF RegisterFirst, At
    <2> QED
      BY <1>1, <2>1, <2>2, <2>3 DEF RegisterFirst
  <1>2. CASE RegisterInsert(c)
    <2>1. CASE endpoint' = c /\ Wrote(c)
      BY <1>2, <2>1, EndpointWritten DEF RegisterInsert, At
    <2>2. CASE UNCHANGED endpoint /\ Return(c, "err")
      BY <1>2, <2>2, OnlyReturns DEF RegisterInsert, At
    <2> QED
      BY <1>2, <2>1, <2>2 DEF RegisterInsert
  <1>3. CASE RegisterUpdate(c)
    <2>1. CASE endpoint' = c /\ Wrote(c)
      BY <1>3, <2>1, EndpointWritten DEF RegisterUpdate, At
    <2>2. CASE endpoint = Nobody /\ UNCHANGED endpoint /\ Return(c, "ok")
      <3>1. call[c].raced
        BY <1>3, <2>2 DEF RegisterUpdate, At, IInv, RowInv
      <3> QED
        BY <1>3, <2>2, <3>1, OnlyReturns DEF RegisterUpdate, At
    <2> QED
      BY <1>3, <2>1, <2>2 DEF RegisterUpdate
  <1> QED
    BY <1>1, <1>2, <1>3

LEMMA DeleteIInv ==
  ASSUME IInv, UNCHANGED workspaceVars, NEW c \in Requests,
         delete_secret(c) \/ delete_endpoint(c)
  PROVE  IInv'
  <1>1. CASE delete_secret(c)
    <2>0. call[c].op = "delete_secret" /\ call[c].at = "start"
      BY <1>1 DEF delete_secret, At
    <2>1. CASE Deleted(c, "upsert_secret")
      <3>1. /\ Moved(c, call, call') /\ Same(call[c], call'[c]) /\ Ended(call'[c], "ok")
            /\ \A d \in Requests :
                 d # c /\ call[d].op = "upsert_secret" /\ call[d].result = "pending"
                   => call'[d].raced
        BY <2>0, <2>1, Facts, DeletedMoves
      <3>2. JobsInv(call', job, mode)
        BY <2>0, <3>1, Facts, JobsMoveOther DEF Same
      <3> QED
        BY <1>1, <2>0, <3>1, <3>2, Facts, CallStep DEF delete_secret, Same, Ended, RowStep
    <2>2. CASE secret = Nobody /\ Return(c, IF Library THEN "ok" ELSE "err")
      BY <1>1, <2>0, <2>2, OnlyReturns DEF delete_secret
    <2> QED
      BY <1>1, <2>1, <2>2 DEF delete_secret
  <1>2. CASE delete_endpoint(c)
    <2>0. call[c].op = "delete_endpoint" /\ call[c].at = "start"
      BY <1>2 DEF delete_endpoint, At
    <2>1. CASE endpoint' = Nobody /\ Deleted(c, "register_endpoint")
      <3>1. /\ Moved(c, call, call') /\ Same(call[c], call'[c]) /\ Ended(call'[c], "ok")
            /\ \A d \in Requests :
                 d # c /\ call[d].op = "register_endpoint" /\ call[d].result = "pending"
                   => call'[d].raced
        BY <2>0, <2>1, Facts, DeletedMoves
      <3>2. JobsInv(call', job, mode)
        BY <2>0, <3>1, Facts, JobsMoveOther DEF Same
      <3> QED
        BY <1>2, <2>0, <2>1, <3>1, <3>2, Facts, CallStep
           DEF delete_endpoint, Same, Ended, RowStep
    <2>2. CASE UNCHANGED endpoint /\ Return(c, IF Library THEN "ok" ELSE "err")
      BY <1>2, <2>0, <2>2, OnlyReturns DEF delete_endpoint
    <2>3. CASE UNCHANGED endpoint /\ Return(c, "err")
      BY <1>2, <2>0, <2>3, OnlyReturns DEF delete_endpoint
    <2> QED
      BY <1>2, <2>1, <2>2, <2>3 DEF delete_endpoint
  <1> QED
    BY <1>1, <1>2

(* A call of create_job or cancel_job: no row of secrets or endpoints and no
   workspace is concerned. *)
LEMMA JobStep ==
  ASSUME IInv, UNCHANGED workspaceVars, UNCHANGED <<mode, secret, endpoint, tables>>,
         NEW c \in Requests, call[c].op \in {"create_job", "cancel_job"},
         Moved(c, call, call'), job' \in [Requests -> Job],
         call'[c].result = "pending" <=> call'[c].at \in {"start", "second", "third"},
         call'[c].at = "reply" => ~Library,
         JobsInv(call', job', mode)
  PROVE  IInv'
  <1>1. call'[c].op \in {"create_job", "cancel_job"}
    BY DEF Moved
  <1>2. /\ RowStep(c, "upsert_secret", secret, secret')
        /\ RowStep(c, "register_endpoint", endpoint, endpoint')
    BY <1>1 DEF RowStep
  <1> QED
    BY <1>1, <1>2, Facts, CallStep

LEMMA CreateFirstIInv ==
  ASSUME IInv, UNCHANGED workspaceVars, NEW c \in Requests, CreateFirst(c)
  PROVE  IInv'
  <1>1. /\ call[c].op = "create_job" /\ call[c].at = "start"
        /\ UNCHANGED <<mode, secret, endpoint, job, tables>>
    BY DEF CreateFirst, At
  <1>2. job[c].status = "none"
    BY <1>1, Facts DEF JobsInv, CreateOK
  <1>3. CASE Return(c, "err")
    BY <1>1, <1>3, OnlyReturns
  <1>4. CASE Continue(c, "second")
    <2>1. /\ Moved(c, call, call') /\ Same(call[c], call'[c])
          /\ call'[c].at = "second" /\ call'[c].result = call[c].result
      BY <1>1, <1>4, Facts, ContinueMoves
    <2>2. JobsInv(call', job, mode)
      BY <1>1, <1>2, <2>1, Facts, JobsMoveOther DEF Same
    <2> QED
      BY <1>1, <2>1, <2>2, Facts, JobStep
  <1>5. CASE \E d \in Duplicates("given") : Service /\ call' = [call EXCEPT ![c] =
               [Returned(@, IF call[c].trigger = "CRON" \/ job[d].exec # "none"
                            THEN "ok" ELSE "err") EXCEPT !.target = d]]
    <2>1. PICK d \in Duplicates("given") : Service /\ call' = [call EXCEPT ![c] =
               [Returned(@, IF call[c].trigger = "CRON" \/ job[d].exec # "none"
                            THEN "ok" ELSE "err") EXCEPT !.target = d]]
      BY <1>5
    <2>2. d \in Requests /\ job[d].status # "none" /\ mode # "library"
      BY <2>1 DEF Duplicates, Service
    <2>3. PICK result \in {"ok", "err"} :
            result = IF call[c].trigger = "CRON" \/ job[d].exec # "none" THEN "ok" ELSE "err"
      OBVIOUS
    <2>4. /\ Moved(c, call, call') /\ Same(call[c], call'[c])
          /\ Ended(call'[c], result) /\ call'[c].target = d
      <3>1. call' = [call EXCEPT ![c] = [Returned(@, result) EXCEPT !.target = d]]
        BY <2>1, <2>3
      <3> QED
        BY <3>1, <1>1, <2>2, Facts, TargetMoves, ZenonT(60)
    <2>5. CreateOK(c, call', job, mode)
      BY <1>1, <1>2, <2>2, <2>3, <2>4 DEF CreateOK, Same, Ended
    <2>6. CancelOK(c, call', job, mode)
      BY <1>1, <2>4 DEF CancelOK, Same
    <2>7. JobsInv(call', job, mode)
      BY <2>4, <2>5, <2>6, Facts, JobsMove
    <2> QED
      BY <1>1, <2>4, <2>7, Facts, JobStep DEF Ended
  <1> QED
    BY <1>3, <1>4, <1>5 DEF CreateFirst

LEMMA InsertJobIInv ==
  ASSUME IInv, UNCHANGED workspaceVars, NEW c \in Requests, InsertJob(c)
  PROVE  IInv'
  <1>1. /\ call[c].op = "create_job" /\ call[c].at = "second"
        /\ UNCHANGED <<mode, secret, endpoint, tables>>
    BY DEF InsertJob, At
  <1>2. CASE Return(c, "err") /\ UNCHANGED job
    BY <1>1, <1>2, OnlyReturns
  <1>3. CASE ~(Return(c, "err") /\ UNCHANGED job)
    <2> DEFINE x == call[c]
               cron == x.trigger = "CRON"
               new == [status |-> "ACTIVE", trigger |-> x.trigger, key |-> StoredKey(x),
                       scheduled |-> Service /\ cron,
                       exec |-> IF Service /\ ~cron THEN "open" ELSE "none"]
    <2>1. /\ Duplicates(StoredKey(x)) = {}
          /\ job' = [job EXCEPT ![c] = new]
          /\ IF Library /\ ~cron THEN Continue(c, "third")
             ELSE call' = [call EXCEPT ![c] = [Returned(@, "ok") EXCEPT !.target = c]]
      BY <1>3 DEF InsertJob
    <2>2. StoredKey(x) \in {"null", "empty", "given"} /\ x.trigger \in JobTrigger
      BY Facts DEF StoredKey, Call
    <2>3. new \in Job
      BY <2>2 DEF Job, Execution
    <2>4. PICK y \in Job : y = new
      BY <2>3
    <2>5. JobOK(y) /\ y.status = "ACTIVE" /\ y.key = StoredKey(x)
          /\ (Service /\ ~cron => y.exec # "none")
      BY <2>4 DEF JobOK
    <2>6. \A d \in Requests : job[d].status # "none" /\ job[d].key = y.key => y.key = "null"
      BY <2>1, <2>5 DEF Duplicates
    <2>7. job' = [job EXCEPT ![c] = y] /\ job' \in [Requests -> Job]
      BY <2>1, <2>4, Facts
    <2> HIDE DEF new
    <2>8. CASE Library /\ ~cron
      <3>1. /\ Moved(c, call, call') /\ call'[c].at = "third"
            /\ call'[c].result = call[c].result
        BY <1>1, <2>1, <2>8, Facts, ContinueMoves
      <3>2. JobsInv(call', job', mode)
        <4>1. mode = "library" /\ call'[c].result # "ok"
          BY <1>1, <2>8, <3>1, Facts DEF Library
        <4>2. JobsInv(call', [job EXCEPT ![c] = y], mode)
          BY <1>1, <2>5, <2>6, <3>1, <4>1, Facts, JobsInsert
        <4> QED
          BY <2>7, <4>2
      <3> QED
        BY <1>1, <2>7, <3>1, <3>2, Facts, JobStep
    <2>9. CASE ~(Library /\ ~cron)
      <3>1. /\ Moved(c, call, call') /\ Ended(call'[c], "ok") /\ call'[c].target = c
        BY <1>1, <2>1, <2>9, Facts, TargetMoves
      <3>2. JobsInv(call', job', mode)
        <4>1. x.trigger # "CRON" => y.exec # "none"
          BY <2>5, <2>9, Facts DEF Library, Service, TypeOK
        <4>2. JobsInv(call', [job EXCEPT ![c] = y], mode)
          BY <1>1, <2>5, <2>6, <3>1, <4>1, Facts, JobsInsert DEF Ended
        <4> QED
          BY <2>7, <4>2
      <3> QED
        BY <1>1, <2>7, <3>1, <3>2, Facts, JobStep DEF Ended
    <2> QED
      BY <2>8, <2>9
  <1> QED
    BY <1>2, <1>3

LEMMA InsertExecutionIInv ==
  ASSUME IInv, UNCHANGED workspaceVars, NEW c \in Requests, InsertExecution(c)
  PROVE  IInv'
  <1>1. /\ call[c].op = "create_job" /\ call[c].at = "third"
        /\ UNCHANGED <<mode, secret, endpoint, tables>>
        /\ job' = [job EXCEPT ![c].exec = "open"]
        /\ call' = [call EXCEPT ![c] = [Returned(@, "ok") EXCEPT !.target = c]]
    BY DEF InsertExecution, At
  <1>2. /\ Moved(c, call, call') /\ Ended(call'[c], "ok") /\ call'[c].target = c
    BY <1>1, Facts, TargetMoves
  <1>3. JobsInv(call', job', mode)
    <2>1. JobsInv(call', [job EXCEPT ![c].exec = "open"], mode)
      BY <1>1, <1>2, Facts, JobsQueue DEF Ended
    <2> QED
      BY <1>1, <2>1
  <1>4. job' \in [Requests -> Job]
    BY <1>1, Facts DEF Job, Execution
  <1> QED
    BY <1>1, <1>2, <1>3, <1>4, Facts, JobStep DEF Ended

(* What cancelling does to a job. *)
LEMMA CancelAges ==
  ASSUME NEW j \in Job, j.status # "none"
  PROVE  /\ Ages(j, cancel(j)) /\ cancel(j).status = "RETIRED" /\ cancel(j).exec = j.exec
         /\ Ages(j, cancel_pending(j))
         /\ j.trigger # "CRON" /\ ~MustWait(j) => cancel_pending(j).exec \notin Fresh
         /\ Ages(j, [j EXCEPT !.scheduled = FALSE])
         /\ [j EXCEPT !.scheduled = FALSE].status = j.status
  BY DEF Ages, Job, cancel, cancel_pending, MustWait, Fresh, Execution

LEMMA AgesTransitive ==
  ASSUME NEW i, NEW j, NEW k, Ages(i, j), Ages(j, k)
  PROVE  Ages(i, k)
  BY DEF Ages

(* One job ages. *)
LEMMA JobsAgeOne ==
  ASSUME IInv, NEW d \in Requests, NEW y, Ages(job[d], y), job' = [job EXCEPT ![d] = y]
  PROVE  /\ job' \in [Requests -> Job] /\ job'[d] = y
         /\ JobsInv(call, job', mode)
  <1>1. job' \in [Requests -> Job] /\ job'[d] = y
    BY Facts DEF Ages
  <1>2. \A j \in Job : Ages(j, j)
    BY DEF Ages
  <1>3. \A e \in Requests : Ages(job[e], job'[e])
    BY <1>1, <1>2, Facts
  <1>4. call \in [Requests -> Call]
    BY Facts DEF TypeOK
  <1> QED
    BY <1>1, <1>3, <1>4, Facts, JobsAge

(* The job that a call returned is there, and in the library its call is
   over. *)
LEMMA KnownJob ==
  ASSUME IInv, NEW d \in Requests, Known(d)
  PROVE  /\ call[d].target \in Requests /\ job[call[d].target] \in Job
         /\ job[call[d].target].status # "none"
         /\ mode = "library" => call[call[d].target].at = "done"
  <1>1. CreateOK(d, call, job, mode) /\ call[d].at = "done"
    BY Facts DEF JobsInv, Known
  <1> QED
    BY <1>1, Facts DEF CreateOK, Known

LEMMA ServiceCancelIInv ==
  ASSUME IInv, UNCHANGED workspaceVars, NEW c \in Requests, NEW d \in Requests,
         ServiceCancel(c, d)
  PROVE  IInv'
  <1> DEFINE j == call[d].target
  <1>1. /\ call[c].op = "cancel_job" /\ call[c].at = "start" /\ Service /\ Known(d)
        /\ UNCHANGED <<mode, secret, endpoint, tables>>
    BY DEF ServiceCancel, At
  <1>2. CASE job[j].status = "RETIRED"
    BY <1>1, <1>2, OnlyReturns DEF ServiceCancel
  <1>3. CASE job[j].status # "RETIRED"
    <2>1. j \in Requests /\ job[j] \in Job /\ job[j].status # "none"
      BY <1>1, KnownJob
    <2>2. PICK y : y = IF job[j].trigger = "CRON"
                       THEN [cancel(job[j]) EXCEPT !.scheduled = FALSE]
                       ELSE cancel(cancel_pending(job[j]))
      OBVIOUS
    <2>3. /\ job' = [job EXCEPT ![j] = y]
          /\ call' = [call EXCEPT ![c] = [Returned(@, "ok") EXCEPT !.target = j]]
          /\ ~MustWait(job[j])
      BY <1>3, <2>2 DEF ServiceCancel
    <2>4. Ages(job[j], y) /\ y.status = "RETIRED" /\ (y.trigger # "CRON" => y.exec \notin Fresh)
      <3>1. CASE job[j].trigger = "CRON"
        <4>1. /\ Ages(job[j], cancel(job[j])) /\ cancel(job[j]) \in Job
              /\ cancel(job[j]).status = "RETIRED"
          BY <2>1, CancelAges DEF Ages
        <4>2. Ages(cancel(job[j]), y) /\ y.status = "RETIRED"
          BY <2>2, <3>1, <4>1, CancelAges
        <4>3. Ages(job[j], y)
          BY <4>1, <4>2, AgesTransitive
        <4> QED
          BY <3>1, <4>2, <4>3 DEF Ages
      <3>2. CASE job[j].trigger # "CRON"
        <4>1. /\ Ages(job[j], cancel_pending(job[j])) /\ cancel_pending(job[j]) \in Job
              /\ cancel_pending(job[j]).exec \notin Fresh
              /\ cancel_pending(job[j]).status # "none"
          BY <2>1, <2>3, <3>2, CancelAges DEF Ages
        <4>2. /\ Ages(cancel_pending(job[j]), y) /\ y.status = "RETIRED"
              /\ y.exec = cancel_pending(job[j]).exec
          BY <2>2, <3>2, <4>1, CancelAges
        <4>3. Ages(job[j], y)
          BY <4>1, <4>2, AgesTransitive
        <4> QED
          BY <4>1, <4>2, <4>3
      <3> QED
        BY <3>1, <3>2
    <2>5. job' \in [Requests -> Job] /\ job'[j] = y /\ JobsInv(call, job', mode)
      BY <2>1, <2>3, <2>4, JobsAgeOne
    <2>6. /\ Moved(c, call, call') /\ Same(call[c], call'[c])
          /\ Ended(call'[c], "ok") /\ call'[c].target = j
      BY <1>1, <2>1, <2>3, Facts, TargetMoves
    <2>7. CreateOK(c, call', job', mode)
      <3>1. job'[c].status = "none"
        BY <1>1, <2>5 DEF JobsInv, CreateOK
      <3> QED
        BY <1>1, <2>6, <3>1 DEF CreateOK, Same
    <2>8. CancelOK(c, call', job', mode)
      BY <1>1, <2>1, <2>4, <2>5, <2>6 DEF CancelOK, Service
    <2>9. JobsInv(call', job', mode)
      BY <2>5, <2>6, <2>7, <2>8, JobsMove
    <2> QED
      BY <1>1, <2>5, <2>6, <2>9, JobStep DEF Ended
  <1> QED
    BY <1>2, <1>3

LEMMA LibraryCancelIInv ==
  ASSUME IInv, UNCHANGED workspaceVars, NEW c \in Requests, NEW d \in Requests,
         LibraryCancel(c, d)
  PROVE  IInv'
  <1> DEFINE j == call[d].target
  <1>1. /\ call[c].op = "cancel_job" /\ call[c].at = "start" /\ Library /\ Known(d)
        /\ UNCHANGED <<mode, secret, endpoint, tables>>
        /\ job' = IF job[j].trigger = "CRON" THEN job
                  ELSE [job EXCEPT ![j] = cancel_pending(@)]
        /\ call' = [call EXCEPT ![c].at = "second", ![c].target = j]
        /\ ~MustWait(job[j])
    BY DEF LibraryCancel, At
  <1>2. /\ j \in Requests /\ job[j] \in Job /\ job[j].status # "none"
        /\ call[j].at = "done"
    BY <1>1, KnownJob DEF Library
  <1>3. /\ job' \in [Requests -> Job] /\ JobsInv(call, job', mode)
        /\ job'[j].status # "none"
        /\ job'[j].trigger # "CRON" => job'[j].exec \notin Fresh
    <2>1. CASE job[j].trigger = "CRON"
      BY <1>1, <1>2, <2>1, Facts
    <2>2. CASE job[j].trigger # "CRON"
      <3>1. PICK y : y = cancel_pending(job[j])
        OBVIOUS
      <3>2. job' = [job EXCEPT ![j] = y] /\ Ages(job[j], y) /\ y.exec \notin Fresh
        BY <1>1, <1>2, <2>2, <3>1, CancelAges
      <3>3. job' \in [Requests -> Job] /\ job'[j] = y /\ JobsInv(call, job', mode)
        BY <1>2, <3>2, JobsAgeOne
      <3> QED
        BY <1>2, <3>2, <3>3 DEF Ages
    <2> QED
      BY <2>1, <2>2
  <1>4. /\ Moved(c, call, call') /\ Same(call[c], call'[c]) /\ call'[c].at = "second"
        /\ call'[c].target = j /\ call'[c].result = call[c].result
    <2>1. call \in [Requests -> Call] /\ call[c] \in Call
      BY Facts DEF TypeOK
    <2>2. PICK x : x = [call[c] EXCEPT !.at = "second"]
      OBVIOUS
    <2>3. x \in Call /\ Same(call[c], x) /\ x.at = "second" /\ x.result = call[c].result
      BY <2>1, <2>2, StageIs DEF Same
    <2>4. PICK y : y = [x EXCEPT !.target = j]
      OBVIOUS
    <2>5. /\ y \in Call /\ Same(call[c], y) /\ y.at = "second" /\ y.target = j
          /\ y.result = call[c].result
      BY <1>2, <2>3, <2>4, TargetIs DEF Same
    <2>6. call' = [call EXCEPT ![c] = y]
      BY <1>1, <2>1, <2>2, <2>4
    <2>7. Moved(c, call, call') /\ call'[c] = y
      <3>1. call[c].at # "done"
        BY <1>1
      <3> QED
        BY <3>1, <2>1, <2>5, <2>6, MovedByExcept DEF Same
    <2> QED
      BY <2>5, <2>7
  <1>5. CreateOK(c, call', job', mode)
    <2>1. job'[c].status = "none"
      BY <1>1, <1>3 DEF JobsInv, CreateOK
    <2> QED
      BY <1>1, <1>4, <2>1 DEF CreateOK, Same
  <1>6. CancelOK(c, call', job', mode)
    <2>1. call'[j].at = "done"
      BY <1>1, <1>2, <1>4 DEF Moved, Kept
    <2>2. call'[c].result # "ok"
      BY <1>1, <1>4, Facts
    <2> QED
      BY <1>2, <1>3, <1>4, <2>1, <2>2 DEF CancelOK
  <1>7. JobsInv(call', job', mode)
    BY <1>3, <1>4, <1>5, <1>6, JobsMove
  <1> QED
    BY <1>1, <1>3, <1>4, <1>7, Facts, JobStep

LEMMA LibraryRetireIInv ==
  ASSUME IInv, UNCHANGED workspaceVars, NEW c \in Requests, LibraryRetire(c)
  PROVE  IInv'
  <1> DEFINE j == call[c].target
  <1>1. /\ call[c].op = "cancel_job" /\ call[c].at = "second"
        /\ UNCHANGED <<mode, secret, endpoint, tables>>
        /\ job' = [job EXCEPT ![j] = cancel(@)]
        /\ IF job[j].trigger = "CRON" THEN Continue(c, "third") ELSE Return(c, "ok")
    BY DEF LibraryRetire, At
  <1>2. /\ j \in Requests /\ job[j] \in Job /\ job[j].status # "none"
        /\ job[j].trigger # "CRON" => job[j].exec \notin Fresh
        /\ mode = "library" => call[j].at = "done"
    BY <1>1, Facts DEF JobsInv, CancelOK
  <1>3. PICK y : y = cancel(job[j])
    OBVIOUS
  <1>4. job' = [job EXCEPT ![j] = y] /\ Ages(job[j], y) /\ y.status = "RETIRED"
        /\ y.exec = job[j].exec
    BY <1>1, <1>2, <1>3, CancelAges
  <1>5. job' \in [Requests -> Job] /\ job'[j] = y /\ JobsInv(call, job', mode)
    BY <1>2, <1>4, JobsAgeOne
  <1>6. /\ Moved(c, call, call') /\ Same(call[c], call'[c]) /\ call'[c].target = j
        /\ \/ call'[c].at = "third" /\ call'[c].result = "pending"
           \/ Ended(call'[c], "ok")
    BY <1>1, Facts, ContinueMoves, ReturnMoves
  <1>7. CreateOK(c, call', job', mode)
    <2>1. job'[c].status = "none"
      BY <1>1, <1>5 DEF JobsInv, CreateOK
    <2> QED
      BY <1>1, <1>6, <2>1 DEF CreateOK, Same
  <1>8. CancelOK(c, call', job', mode)
    <2>1. mode = "library" => call'[j].at = "done"
      BY <1>1, <1>2, <1>6 DEF Moved, Kept
    <2> QED
      BY <1>2, <1>4, <1>5, <1>6, <2>1 DEF CancelOK, Ages
  <1>9. JobsInv(call', job', mode)
    BY <1>5, <1>6, <1>7, <1>8, JobsMove
  <1> QED
    BY <1>1, <1>5, <1>6, <1>9, Facts, JobStep DEF Ended

LEMMA LibraryUnscheduleIInv ==
  ASSUME IInv, UNCHANGED workspaceVars, NEW c \in Requests, LibraryUnschedule(c)
  PROVE  IInv'
  <1> DEFINE j == call[c].target
  <1>1. /\ call[c].op = "cancel_job" /\ call[c].at = "third"
        /\ UNCHANGED <<mode, secret, endpoint, tables>>
        /\ job' = [job EXCEPT ![j].scheduled = FALSE]
        /\ Return(c, IF job[j].scheduled THEN "ok" ELSE "err")
    BY DEF LibraryUnschedule, At
  <1>2. /\ j \in Requests /\ job[j] \in Job /\ job[j].status = "RETIRED"
        /\ job[j].trigger # "CRON" => job[j].exec \notin Fresh
        /\ mode = "library" => call[j].at = "done"
    BY <1>1, Facts DEF JobsInv, CancelOK
  <1>3. PICK y : y = [job[j] EXCEPT !.scheduled = FALSE]
    OBVIOUS
  <1>4. job' = [job EXCEPT ![j] = y] /\ Ages(job[j], y) /\ y.status = "RETIRED"
    BY <1>1, <1>2, <1>3, CancelAges
  <1>5. job' \in [Requests -> Job] /\ job'[j] = y /\ JobsInv(call, job', mode)
    BY <1>2, <1>4, JobsAgeOne
  <1>6. PICK result \in {"ok", "err"} : Return(c, result)
    BY <1>1
  <1>7. /\ Moved(c, call, call') /\ Same(call[c], call'[c]) /\ call'[c].target = j
        /\ Ended(call'[c], result)
    <2>1. call[c].at # "done"
      BY <1>1
    <2> QED
      BY <2>1, <1>6, Facts, ReturnMoves
  <1>8. CreateOK(c, call', job', mode)
    <2>1. job'[c].status = "none"
      BY <1>1, <1>5 DEF JobsInv, CreateOK
    <2> QED
      BY <1>1, <1>7, <2>1 DEF CreateOK, Same
  <1>9. CancelOK(c, call', job', mode)
    <2>1. mode = "library" => call'[j].at = "done"
      BY <1>1, <1>2, <1>7 DEF Moved, Kept
    <2> QED
      BY <1>2, <1>4, <1>5, <1>7, <2>1 DEF CancelOK, Ages
  <1>10. JobsInv(call', job', mode)
    BY <1>5, <1>7, <1>8, <1>9, JobsMove
  <1> QED
    BY <1>1, <1>5, <1>7, <1>10, Facts, JobStep DEF Ended

(* provision_workspace, in either mode, and get_execution. *)
LEMMA ProvisionIInv ==
  ASSUME IInv, UNCHANGED workspaceVars, NEW c \in Requests,
         LibraryProvision(c) \/ LibraryApplyDdl(c) \/ ServiceProvision(c) \/ get_execution(c)
  PROVE  IInv'
  <1>1. CASE LibraryProvision(c)
    <2>1. /\ call[c].op = "provision_workspace" /\ call[c].at = "start" /\ Library
          /\ Continue(c, "second") /\ UNCHANGED <<mode, secret, endpoint, job>>
          /\ tables' = IF tables = "none" THEN "some" ELSE tables
      BY <1>1 DEF LibraryProvision, At
    <2>2. /\ Moved(c, call, call') /\ Same(call[c], call'[c])
          /\ call'[c].at = "second" /\ call'[c].result = call[c].result
      BY <2>1, Facts, ContinueMoves
    <2>3. JobsInv(call', job, mode)
      BY <2>1, <2>2, Facts, JobsMoveOther DEF Same
    <2> QED
      BY <2>1, <2>2, <2>3, Facts, CallStep DEF Same, RowStep
  <1>2. CASE LibraryApplyDdl(c)
    <2>1. /\ call[c].op = "provision_workspace" /\ call[c].at = "second"
          /\ Return(c, "ok") /\ UNCHANGED <<mode, secret, endpoint, job>>
          /\ tables' = "all"
      BY <1>2 DEF LibraryApplyDdl, At
    <2>2. Moved(c, call, call') /\ Same(call[c], call'[c]) /\ Ended(call'[c], "ok")
      BY <2>1, Facts, ReturnMoves
    <2>3. JobsInv(call', job, mode)
      BY <2>1, <2>2, Facts, JobsMoveOther DEF Same
    <2>4. Library
      BY <2>1, Facts
    <2> QED
      BY <2>1, <2>2, <2>3, <2>4, Facts, CallStep DEF Same, Ended, RowStep
  <1>3. CASE ServiceProvision(c)
    <2>1. post[c].answer \in {201, 409} => space[post[c].slug].row
      BY DEF IInv, PostInv, Fits
    <2>2. ~Library
      BY <1>3 DEF ServiceProvision, Service, Library
    <2>3. PICK result \in {"ok", "err"} :
            Return(c, result) /\ (result = "ok" => post[c].answer \in {201, 409})
      BY <1>3 DEF ServiceProvision
    <2> QED
      BY <1>3, <2>1, <2>2, <2>3, OnlyReturns, ZenonT(60) DEF ServiceProvision, At
  <1>4. CASE get_execution(c)
    BY <1>4, OnlyReturns DEF get_execution, At
  <1> QED
    BY <1>1, <1>2, <1>3, <1>4

LEMMA ReceiveIInv ==
  ASSUME IInv, UNCHANGED workspaceVars, NEW c \in Requests, Receive(c)
  PROVE  IInv'
  <1>1. /\ call[c].at = "reply" /\ Continue(c, "done")
        /\ UNCHANGED <<mode, secret, endpoint, job, tables>>
    BY DEF Receive
  <1>2. /\ Moved(c, call, call') /\ Same(call[c], call'[c])
        /\ call'[c].at = "done" /\ call'[c].result = call[c].result
        /\ call'[c].target = call[c].target /\ call'[c].wrote = call[c].wrote
    BY <1>1, Facts, ContinueMoves
  <1>3. JobsInv(call', job, mode)
    BY <1>1, <1>2, Facts, JobsMoveOther DEF Same
  <1>4. /\ RowStep(c, "upsert_secret", secret, secret')
        /\ RowStep(c, "register_endpoint", endpoint, endpoint')
    BY <1>1, <1>2 DEF IInv, RowInv, RowStep, Same
  <1>5. call'[c].op = "provision_workspace" /\ call'[c].result = "ok" =>
          IF Library THEN tables' = "all" ELSE space[post[c].slug].row
    BY <1>1, <1>2 DEF IInv, ClientsInv, ProvisionedIsListed, Same
  <1> QED
    BY <1>1, <1>2, <1>3, <1>4, <1>5, Facts, CallStep DEF Same

LEMMA FailIInv ==
  ASSUME IInv, UNCHANGED workspaceVars, NEW c \in Requests, Fail(c)
  PROVE  IInv'
  <1>1. /\ call[c].at # "done"
        /\ UNCHANGED <<mode, secret, endpoint, job, tables>>
        /\ call' = [call EXCEPT ![c].at = "done", ![c].result = "err"]
    BY DEF Fail
  <1>2. /\ Moved(c, call, call') /\ Same(call[c], call'[c])
        /\ call'[c].at = "done" /\ call'[c].result = "err"
    <2>1. call \in [Requests -> Call] /\ call[c] \in Call /\ call[c].at # "done"
      BY <1>1, Facts DEF TypeOK
    <2>2. PICK x : x = [call[c] EXCEPT !.at = "done"]
      OBVIOUS
    <2>3. x \in Call /\ Same(call[c], x) /\ x.at = "done"
      BY <2>1, <2>2, StageIs DEF Same
    <2>4. PICK y : y = [x EXCEPT !.result = "err"]
      OBVIOUS
    <2>5. y \in Call /\ Same(call[c], y) /\ y.at = "done" /\ y.result = "err"
      BY <2>3, <2>4, ResultIs DEF Same
    <2>6. call' = [call EXCEPT ![c] = y]
      BY <1>1, <2>1, <2>2, <2>4
    <2>7. Moved(c, call, call') /\ call'[c] = y
      BY <2>1, <2>5, <2>6, MovedByExcept DEF Same
    <2> QED
      BY <2>5, <2>7
  <1>3. JobsInv(call', job, mode)
    BY <1>1, <1>2, Facts, JobsMoveOther DEF Same
  <1> QED
    BY <1>1, <1>2, <1>3, Facts, CallStep DEF Same, RowStep

(* What workers and pg_cron do to a job. *)
LEMMA WorkIInv ==
  ASSUME IInv, UNCHANGED workspaceVars, NEW d \in Requests,
         claim(d) \/ Settle(d) \/ Rollback(d) \/ Tick(d)
  PROVE  IInv'
  <1>1. UNCHANGED <<mode, call, secret, endpoint, tables>>
    BY DEF claim, Settle, Rollback, Tick
  <1>2. job[d] \in Job /\ JobOK(job[d])
    BY Facts DEF JobsInv
  <1>3. PICK y : Ages(job[d], y) /\ job' = [job EXCEPT ![d] = y]
    <2>1. CASE claim(d) \/ Settle(d) \/ Rollback(d)
      <3>1. PICK z \in Execution \ {"none"} :
              /\ job[d].exec # "none" /\ job' = [job EXCEPT ![d].exec = z]
              /\ z \in Fresh => job[d].exec \in Fresh
        <4>1. CASE claim(d)
          <5>1. PICK z : z = IF job[d].exec = "open" THEN "running" ELSE "rerunning"
            OBVIOUS
          <5>2. job' = [job EXCEPT ![d].exec = z] /\ job[d].exec \in {"open", "RETRYING"}
            BY <4>1, <5>1, Facts DEF claim
          <5>3. z \in Execution \ {"none"} /\ (z \in Fresh => job[d].exec \in Fresh)
            BY <5>1, <5>2 DEF Execution, Fresh
          <5> QED
            BY <5>2, <5>3
        <4>2. CASE Settle(d)
          BY <4>2, Facts DEF Settle, Execution, Fresh, Locked
        <4>3. CASE Rollback(d)
          <5>1. PICK z : z = IF job[d].exec = "running" THEN "open" ELSE "RETRYING"
            OBVIOUS
          <5>2. job' = [job EXCEPT ![d].exec = z] /\ job[d].exec \in {"running", "rerunning"}
            BY <4>3, <5>1, Facts DEF Rollback, Locked
          <5>3. z \in Execution \ {"none"} /\ (z \in Fresh => job[d].exec \in Fresh)
            BY <5>1, <5>2 DEF Execution, Fresh
          <5> QED
            BY <5>2, <5>3
        <4> QED
          BY <2>1, <4>1, <4>2, <4>3
      <3>2. PICK y : y = [job[d] EXCEPT !.exec = z]
        OBVIOUS
      <3>3. Ages(job[d], y)
        BY <1>2, <3>1, <3>2 DEF Ages, Job, JobOK
      <3>4. job' = [job EXCEPT ![d] = y]
        BY <3>1, <3>2, Facts
      <3> QED
        BY <3>3, <3>4
    <2>2. CASE Tick(d)
      <3>1. PICK y : y = [job[d] EXCEPT !.exec = "open"]
        OBVIOUS
      <3>2. Ages(job[d], y)
        BY <1>2, <2>2, <3>1 DEF Tick, Ages, Job, JobOK, Execution
      <3>3. job' = [job EXCEPT ![d] = y]
        BY <2>2, <3>1, Facts DEF Tick
      <3> QED
        BY <3>2, <3>3
    <2> QED
      BY <2>1, <2>2
  <1>4. job' \in [Requests -> Job] /\ JobsInv(call, job', mode)
    BY <1>3, JobsAgeOne
  <1>5. /\ TypeOK' /\ VersionMarksComplete' /\ SingleProvisioner' /\ PostInv'
        /\ ProvisionedIsListed'
    BY <1>1, <1>4 DEF IInv, ClientsInv, TypeOK, WorkspaceTypeOK, workspaceVars,
       VersionMarksComplete, SingleProvisioner, PostInv, Fits, ProvisionedIsListed,
       Library
  <1>6. /\ PhasesInv(call, mode)' /\ RowInv(call, "upsert_secret", secret)'
        /\ RowInv(call, "register_endpoint", endpoint)'
    BY <1>1 DEF IInv, PhasesInv, RowInv
  <1>7. JobsInv(call, job, mode)'
    <2>1. JobsInv(call', job', mode')
      BY <1>1, <1>4
    <2> QED
      BY <2>1 DEF JobsInv, CreateOK, CancelOK, JobOK, KeysUnique
  <1> QED
    BY <1>5, <1>6, <1>7 DEF IInv, ClientsInv

-----------------------------------------------------------------------------
(* The commits of POST /workspaces.                                        *)

(* Request r moves on; its slug stays. *)
PostMoved(r) ==
  /\ post' \in [Requests -> Post] /\ post'[r].slug = post[r].slug
  /\ \A q \in Requests : q # r => post'[q] = post[q]

LEMMA AnswerMoves ==
  ASSUME WorkspaceTypeOK, NEW r \in Requests,
         NEW status \in {201, 400, 404, 409, 500}, Answer(r, status)
  PROVE  PostMoved(r) /\ post'[r].at = "answered" /\ post'[r].answer = status
  <1>1. post \in [Requests -> Post] /\ post[r] \in Post
    BY DEF WorkspaceTypeOK
  <1>2. PICK f : f = [post EXCEPT ![r].at = "answered"]
    OBVIOUS
  <1>3. /\ f \in [Requests -> Post] /\ f[r].at = "answered" /\ f[r].slug = post[r].slug
        /\ \A q \in Requests : q # r => f[q] = post[q]
    BY <1>1, <1>2 DEF Post, Stage
  <1>4. post' = [f EXCEPT ![r].answer = status]
    BY <1>1, <1>2 DEF Answer
  <1> QED
    BY <1>3, <1>4 DEF PostMoved, Post

LEMMA GotoMoves ==
  ASSUME WorkspaceTypeOK, NEW r \in Requests, NEW stage \in Stage, Goto(r, stage)
  PROVE  PostMoved(r) /\ post'[r].at = stage /\ post'[r].answer = post[r].answer
  BY DEF WorkspaceTypeOK, Goto, PostMoved, Post

(* What a workspace step leaves to show: the rest concerns the workspaces. *)
LEMMA WorkspaceFrame ==
  ASSUME IInv, UNCHANGED clientVars, NEW r \in Requests, PostMoved(r),
         space' \in [Slugs -> Space],
         \A s \in Slugs : space[s].row => space'[s].row,
         VersionMarksComplete', SingleProvisioner', PostInv'
  PROVE  IInv'
  <1>1. /\ call' = call /\ mode' = mode /\ secret' = secret /\ endpoint' = endpoint
        /\ job' = job /\ tables' = tables
    BY DEF clientVars
  <1>2. TypeOK'
    BY <1>1 DEF IInv, ClientsInv, TypeOK, WorkspaceTypeOK, PostMoved
  <1>3. ProvisionedIsListed'
    <2>1. \A c \in Requests : post'[c].slug = post[c].slug /\ post[c].slug \in Slugs
      BY DEF PostMoved, IInv, ClientsInv, TypeOK, WorkspaceTypeOK, Post
    <2> QED
      BY <1>1, <2>1 DEF IInv, ClientsInv, ProvisionedIsListed, Library
  <1>4. /\ PhasesInv(call, mode)' /\ RowInv(call, "upsert_secret", secret)'
        /\ RowInv(call, "register_endpoint", endpoint)'
    BY <1>1 DEF IInv, PhasesInv, RowInv
  <1>5. JobsInv(call, job, mode)'
    BY <1>1 DEF IInv, JobsInv, CreateOK, CancelOK, JobOK, KeysUnique
  <1> QED
    BY <1>2, <1>3, <1>4, <1>5 DEF IInv, ClientsInv

(* A request is refused or fails: nothing is undone. *)
LEMMA RefusedIInv ==
  ASSUME IInv, UNCHANGED clientVars, NEW r \in Requests, post[r].at # "answered",
         NEW status \in {400, 404, 409, 500}, Answer(r, status), space' = space,
         status = 409 => space[post[r].slug].row
  PROVE  IInv'
  <1>1. /\ WorkspaceTypeOK /\ VersionMarksComplete /\ SingleProvisioner /\ PostInv
    BY DEF IInv, ClientsInv, TypeOK
  <1>2. PostMoved(r) /\ post'[r].at = "answered" /\ post'[r].answer = status
    BY <1>1, AnswerMoves
  <1>3. VersionMarksComplete'
    BY <1>1 DEF VersionMarksComplete
  <1>4. SingleProvisioner'
    BY <1>1, <1>2 DEF SingleProvisioner, PostMoved, Working
  <1>5. PostInv'
    BY <1>1, <1>2 DEF PostInv, Fits, PostMoved, Working
  <1>6. space' \in [Slugs -> Space]
    BY <1>1 DEF WorkspaceTypeOK
  <1> QED
    BY <1>2, <1>3, <1>4, <1>5, <1>6, WorkspaceFrame

(* A commit of the one request that provisions slug s. *)
LEMMA CommitIInv ==
  ASSUME IInv, UNCHANGED clientVars, NEW r \in Requests, PostMoved(r),
         NEW y \in Space, space' = [space EXCEPT ![post[r].slug] = y],
         \A q \in Requests : q # r /\ post[q].slug = post[r].slug =>
           post[q].at \notin Working /\ post[q].answer # 201,
         y.row, y.version => y.reaper, y.reaper => y.tables = "all",
         Fits(post'[r], y), post[r].at # "answered",
         post'[r].answer = 201 => y = Complete
  PROVE  IInv'
  <1>1. /\ WorkspaceTypeOK /\ VersionMarksComplete /\ SingleProvisioner /\ PostInv
    BY DEF IInv, ClientsInv, TypeOK
  <1>2. \A q \in Requests : post[q].slug \in Slugs
    BY <1>1 DEF WorkspaceTypeOK, Post
  <1>3. /\ space' \in [Slugs -> Space] /\ space'[post[r].slug] = y
        /\ \A s \in Slugs : s # post[r].slug => space'[s] = space[s]
    BY <1>1, <1>2 DEF WorkspaceTypeOK
  <1>4. VersionMarksComplete'
    BY <1>1, <1>3 DEF VersionMarksComplete
  <1>5. SingleProvisioner'
    <2> SUFFICES ASSUME NEW p \in Requests, NEW q \in Requests
                 PROVE  /\ post'[p].answer = 201 => space'[post'[p].slug] = Complete
                        /\ (post'[p].slug = post'[q].slug /\ p # q) =>
                             /\ post'[p].at \in Working =>
                                  post'[q].at \notin Working /\ post'[q].answer # 201
                             /\ ~(post'[p].answer = 201 /\ post'[q].answer = 201)
      BY DEF SingleProvisioner, Working
    <2>1. post'[p].answer = 201 => space'[post'[p].slug] = Complete
      BY <1>1, <1>2, <1>3 DEF SingleProvisioner, PostMoved
    <2>2. ASSUME post'[p].slug = post'[q].slug, p # q
          PROVE  /\ post'[p].at \in Working =>
                      post'[q].at \notin Working /\ post'[q].answer # 201
                 /\ ~(post'[p].answer = 201 /\ post'[q].answer = 201)
      <3>1. CASE p # r /\ q # r
        BY <1>1, <2>2, <3>1 DEF SingleProvisioner, PostMoved, Working
      <3>2. CASE p = r \/ q = r
        BY <2>2, <3>2 DEF PostMoved
      <3> QED
        BY <3>1, <3>2
    <2> QED
      BY <2>1, <2>2
  <1>6. PostInv'
    <2> SUFFICES ASSUME NEW q \in Requests
                 PROVE  Fits(post'[q], space'[post'[q].slug])
      BY DEF PostInv
    <2>1. CASE q = r
      BY <2>1, <1>3 DEF PostMoved
    <2>2. CASE q # r /\ post[q].slug = post[r].slug
      BY <2>2, <1>1, <1>3 DEF PostMoved, PostInv, Fits, Working
    <2>3. CASE q # r /\ post[q].slug # post[r].slug
      BY <2>3, <1>1, <1>2, <1>3 DEF PostMoved, PostInv, Fits
    <2> QED
      BY <2>1, <2>2, <2>3
  <1> QED
    BY <1>3, <1>4, <1>5, <1>6, WorkspaceFrame

(* The one request that provisions a slug is alone with it. *)
LEMMA Alone ==
  ASSUME IInv, NEW r \in Requests,
         \/ post[r].at \in Working
         \/ ~space[post[r].slug].row
  PROVE  \A q \in Requests : q # r /\ post[q].slug = post[r].slug =>
           post[q].at \notin Working /\ post[q].answer # 201
  <1> SUFFICES ASSUME NEW q \in Requests, q # r, post[q].slug = post[r].slug
               PROVE  post[q].at \notin Working /\ post[q].answer # 201
    OBVIOUS
  <1>1. SingleProvisioner /\ PostInv
    BY DEF IInv, ClientsInv
  <1>2. CASE post[r].at \in Working
    BY <1>1, <1>2 DEF SingleProvisioner
  <1>3. CASE ~space[post[r].slug].row
    <2>1. post[q].answer = 201 => space[post[r].slug].row
      BY <1>1 DEF PostInv, Fits
    <2>2. post[q].at \in Working => space[post[r].slug].row
      BY <1>1 DEF PostInv, Fits
    <2> QED
      BY <1>3, <2>1, <2>2
  <1> QED
    BY <1>2, <1>3

LEMMA WorkspaceStepIInv ==
  ASSUME IInv, UNCHANGED clientVars, NEW r \in Requests, WorkspaceStep(r)
  PROVE  IInv'
  <1> DEFINE s == post[r].slug
             x == space[s]
  <1>1. /\ WorkspaceTypeOK /\ VersionMarksComplete /\ PostInv
        /\ space \in [Slugs -> Space] /\ s \in Slugs /\ x \in Space
    BY DEF IInv, ClientsInv, TypeOK, WorkspaceTypeOK, Post
  <1>2. CASE Refuse(r)
    <2>1. PICK status \in {400, 404} : Answer(r, status)
      BY <1>2 DEF Refuse
    <2> QED
      BY <1>2, <2>1, RefusedIInv DEF Refuse
  <1>3. CASE CreateError(r)
    BY <1>3, RefusedIInv DEF CreateError, Working
  <1>4. CASE create(r) /\ x.row
    BY <1>4, RefusedIInv DEF create
  <1>5. CASE create(r) /\ ~x.row
    <2>1. post[r].at = "new" /\ space' = [space EXCEPT ![s].row = TRUE] /\ Goto(r, "schema")
      BY <1>5 DEF create
    <2>2. PICK y : y = [x EXCEPT !.row = TRUE]
      OBVIOUS
    <2>3. /\ y \in Space /\ y.row /\ y.tables = "none" /\ ~y.reaper /\ ~y.version
          /\ space' = [space EXCEPT ![s] = y]
      BY <1>1, <1>5, <2>1, <2>2 DEF Space, VersionMarksComplete
    <2>4. PostMoved(r) /\ post'[r].at = "schema" /\ post'[r].answer = 0
      BY <1>1, <2>1, GotoMoves DEF PostInv, Fits, Stage, Working
    <2>5. \A q \in Requests : q # r /\ post[q].slug = post[r].slug =>
            post[q].at \notin Working /\ post[q].answer # 201
      BY <1>5, Alone
    <2>6. Fits(post'[r], y)
      BY <2>3, <2>4 DEF Fits, Working
    <2>7. /\ y.version => y.reaper
          /\ y.reaper => y.tables = "all"
          /\ post'[r].answer = 201 => y = Complete
      BY <2>3, <2>4
    <2> QED
      BY <2>1, <2>3, <2>4, <2>5, <2>6, <2>7, CommitIInv
  <1>6. CASE provision_schema(r)
    <2>1. /\ post[r].at = "schema" /\ Goto(r, "ddl")
          /\ space' = [space EXCEPT ![s].tables = IF @ = "none" THEN "some" ELSE @]
      BY <1>6 DEF provision_schema
    <2>2. PICK y : y = [x EXCEPT !.tables = "some"]
      OBVIOUS
    <2>3. x.row /\ ~x.version /\ x.tables = "none" /\ ~x.reaper
      BY <1>1, <2>1 DEF PostInv, Fits, Working
    <2>4. /\ y \in Space /\ y.row /\ y.tables = "some" /\ ~y.reaper /\ ~y.version
          /\ space' = [space EXCEPT ![s] = y]
      BY <1>1, <2>1, <2>2, <2>3 DEF Space
    <2>5. PostMoved(r) /\ post'[r].at = "ddl" /\ post'[r].answer = 0
      BY <1>1, <2>1, GotoMoves DEF PostInv, Fits, Stage, Working
    <2>6. \A q \in Requests : q # r /\ post[q].slug = post[r].slug =>
            post[q].at \notin Working /\ post[q].answer # 201
      BY <2>1, Alone DEF Working
    <2>7. Fits(post'[r], y)
      BY <2>4, <2>5 DEF Fits, Working
    <2>8. /\ y.version => y.reaper
          /\ y.reaper => y.tables = "all"
          /\ post'[r].answer = 201 => y = Complete
      BY <2>4, <2>5
    <2> QED
      BY <2>1, <2>4, <2>5, <2>6, <2>7, <2>8, CommitIInv
  <1>7. CASE ApplyDdl(r)
    <2>1. /\ post[r].at = "ddl" /\ Goto(r, "reaper")
          /\ space' = [space EXCEPT ![s].tables = "all"]
      BY <1>7 DEF ApplyDdl
    <2>2. PICK y : y = [x EXCEPT !.tables = "all"]
      OBVIOUS
    <2>3. x.row /\ ~x.version /\ ~x.reaper
      BY <1>1, <2>1 DEF PostInv, Fits, Working
    <2>4. /\ y \in Space /\ y.row /\ y.tables = "all" /\ ~y.reaper /\ ~y.version
          /\ space' = [space EXCEPT ![s] = y]
      BY <1>1, <2>1, <2>2, <2>3 DEF Space
    <2>5. PostMoved(r) /\ post'[r].at = "reaper" /\ post'[r].answer = 0
      BY <1>1, <2>1, GotoMoves DEF PostInv, Fits, Stage, Working
    <2>6. \A q \in Requests : q # r /\ post[q].slug = post[r].slug =>
            post[q].at \notin Working /\ post[q].answer # 201
      BY <2>1, Alone DEF Working
    <2>7. Fits(post'[r], y)
      BY <2>4, <2>5 DEF Fits, Working
    <2>8. /\ y.version => y.reaper
          /\ y.reaper => y.tables = "all"
          /\ post'[r].answer = 201 => y = Complete
      BY <2>4, <2>5
    <2> QED
      BY <2>1, <2>4, <2>5, <2>6, <2>7, <2>8, CommitIInv
  <1>8. CASE provision_reaper(r)
    <2>1. /\ post[r].at = "reaper" /\ Goto(r, "version")
          /\ space' = [space EXCEPT ![s].reaper = TRUE]
      BY <1>8 DEF provision_reaper
    <2>2. PICK y : y = [x EXCEPT !.reaper = TRUE]
      OBVIOUS
    <2>3. x.row /\ ~x.version /\ x.tables = "all"
      BY <1>1, <2>1 DEF PostInv, Fits, Working
    <2>4. /\ y \in Space /\ y.row /\ y.tables = "all" /\ y.reaper /\ ~y.version
          /\ space' = [space EXCEPT ![s] = y]
      BY <1>1, <2>1, <2>2, <2>3 DEF Space
    <2>5. PostMoved(r) /\ post'[r].at = "version" /\ post'[r].answer = 0
      BY <1>1, <2>1, GotoMoves DEF PostInv, Fits, Stage, Working
    <2>6. \A q \in Requests : q # r /\ post[q].slug = post[r].slug =>
            post[q].at \notin Working /\ post[q].answer # 201
      BY <2>1, Alone DEF Working
    <2>7. Fits(post'[r], y)
      BY <2>4, <2>5 DEF Fits, Working
    <2>8. /\ y.version => y.reaper
          /\ y.reaper => y.tables = "all"
          /\ post'[r].answer = 201 => y = Complete
      BY <2>4, <2>5
    <2> QED
      BY <2>1, <2>4, <2>5, <2>6, <2>7, <2>8, CommitIInv
  <1>9. CASE SetVersion(r)
    <2>1. /\ post[r].at = "version" /\ Goto(r, "read")
          /\ space' = [space EXCEPT ![s].version = TRUE]
      BY <1>9 DEF SetVersion
    <2>2. PICK y : y = [x EXCEPT !.version = TRUE]
      OBVIOUS
    <2>3. x.row /\ x.reaper /\ x.tables = "all"
      BY <1>1, <2>1 DEF PostInv, Fits, Working
    <2>4. y \in Space /\ y = Complete /\ space' = [space EXCEPT ![s] = y]
      BY <1>1, <2>1, <2>2, <2>3 DEF Space, Complete
    <2>5. y.row /\ y.reaper /\ y.tables = "all"
      BY <2>4 DEF Complete
    <2>6. PostMoved(r) /\ post'[r].at = "read" /\ post'[r].answer = 0
      BY <1>1, <2>1, GotoMoves DEF PostInv, Fits, Stage, Working
    <2>7. \A q \in Requests : q # r /\ post[q].slug = post[r].slug =>
            post[q].at \notin Working /\ post[q].answer # 201
      BY <2>1, Alone DEF Working
    <2>8. Fits(post'[r], y)
      BY <2>4, <2>5, <2>6 DEF Fits, Working
    <2> QED
      BY <2>1, <2>4, <2>5, <2>6, <2>7, <2>8, CommitIInv
  <1>10. CASE ReadBack(r)
    <2>1. post[r].at = "read" /\ Answer(r, 201) /\ space' = space
      BY <1>10 DEF ReadBack
    <2>2. x = Complete /\ space' = [space EXCEPT ![s] = x]
      BY <1>1, <2>1 DEF PostInv, Fits
    <2>3. x.row /\ x.reaper /\ x.tables = "all"
      BY <2>2 DEF Complete
    <2>4. PostMoved(r) /\ post'[r].at = "answered" /\ post'[r].answer = 201
      BY <1>1, <2>1, AnswerMoves
    <2>5. \A q \in Requests : q # r /\ post[q].slug = post[r].slug =>
            post[q].at \notin Working /\ post[q].answer # 201
      BY <2>1, Alone DEF Working
    <2>6. Fits(post'[r], x)
      BY <2>3, <2>4 DEF Fits, Working
    <2> QED
      BY <1>1, <2>1, <2>2, <2>3, <2>4, <2>5, <2>6, CommitIInv
  <1> QED
    BY <1>2, <1>3, <1>4, <1>5, <1>6, <1>7, <1>8, <1>9, <1>10 DEF WorkspaceStep

-----------------------------------------------------------------------------
(* Theorems.                                                               *)

LEMMA InitIInv == Init => IInv
  <1> SUFFICES ASSUME Init PROVE IInv
    OBVIOUS
  <1>1. \A c \in Requests :
          /\ call[c] \in Call /\ call[c].at = "start" /\ call[c].result = "pending"
    <2>1. ASSUME NEW op \in Op, NEW t \in JobTrigger, NEW k \in BOOLEAN
          PROVE  LET x == NewCall(op, t, k) IN
                 x \in Call /\ x.at = "start" /\ x.result = "pending"
      BY DEF NewCall, Call
    <2>2. \A x \in Asked : x \in Call /\ x.at = "start" /\ x.result = "pending"
      <3> SUFFICES ASSUME NEW x \in Asked
                   PROVE  x \in Call /\ x.at = "start" /\ x.result = "pending"
        OBVIOUS
      <3> DEFINE A == {NewCall(op, "IMMEDIATE", FALSE) : op \in Op \ {"create_job"}}
                 B == {NewCall("create_job", t, k) : t \in JobTrigger, k \in BOOLEAN}
      <3>0. Asked = A \cup B
        BY DEF Asked
      <3>1. CASE x \in A
        <4>1. PICK op \in Op \ {"create_job"} : x = NewCall(op, "IMMEDIATE", FALSE)
          BY <3>1
        <4>2. "IMMEDIATE" \in JobTrigger /\ op \in Op
          BY DEF JobTrigger
        <4> QED
          BY <4>1, <4>2, <2>1
      <3>2. CASE x \in B
        <4>1. PICK t \in JobTrigger, k \in BOOLEAN : x = NewCall("create_job", t, k)
          BY <3>2
        <4>2. "create_job" \in Op
          BY DEF Op
        <4> QED
          BY <4>1, <4>2, <2>1
      <3> HIDE DEF A, B
      <3> QED
        BY <3>0, <3>1, <3>2
    <2> QED
      BY <2>2 DEF Init
  <1>2. \A r \in Requests : /\ post[r] \in Post /\ post[r].at = "new"
                            /\ post[r].answer = 0
    BY DEF Init, WorkspaceInit, Post, Stage
  <1>3. \A s \in Slugs : space[s] \in Space /\ (space[s] = Complete \/ space[s] = NoSpace)
    BY DEF Init, WorkspaceInit, Space, Complete, NoSpace
  <1>4. \A c \in Requests : job[c] = NoJob /\ NoJob \in Job
    BY DEF Init, NoJob, Job, JobTrigger, Execution
  <1>5. TypeOK
    <2>1. call \in [Requests -> Call]
      BY <1>1 DEF Init
    <2>2. WorkspaceTypeOK
      BY <1>2, <1>3 DEF Init, WorkspaceInit, WorkspaceTypeOK
    <2>3. job \in [Requests -> Job]
      BY <1>4 DEF Init
    <2> QED
      BY <2>1, <2>2, <2>3 DEF TypeOK, Init, Writer
  <1>6. VersionMarksComplete
    BY <1>3 DEF VersionMarksComplete, Complete, NoSpace
  <1>7. SingleProvisioner
    BY <1>2 DEF SingleProvisioner, Working
  <1>8. PostInv
    BY <1>2 DEF PostInv, Fits, Working
  <1>9. /\ ProvisionedIsListed /\ PhasesInv(call, mode)
        /\ RowInv(call, "upsert_secret", secret)
        /\ RowInv(call, "register_endpoint", endpoint)
    BY <1>1 DEF ProvisionedIsListed, PhasesInv, RowInv
  <1>10. JobsInv(call, job, mode)
    BY <1>1, <1>4 DEF JobsInv, CreateOK, CancelOK, JobOK, KeysUnique, NoJob
  <1> QED
    BY <1>5, <1>6, <1>7, <1>8, <1>9, <1>10 DEF IInv, ClientsInv

LEMMA NextIInv == IInv /\ [Next]_vars => IInv'
  <1> SUFFICES ASSUME IInv, [Next]_vars PROVE IInv'
    OBVIOUS
  <1>1. ASSUME NEW c \in Requests, ClientStep(c), UNCHANGED workspaceVars
        PROVE  IInv'
    BY <1>1, UpsertIInv, RegisterIInv, DeleteIInv, CreateFirstIInv, InsertJobIInv,
       InsertExecutionIInv, ServiceCancelIInv, LibraryCancelIInv, LibraryRetireIInv,
       LibraryUnscheduleIInv, ProvisionIInv, ReceiveIInv, FailIInv, WorkIInv
       DEF ClientStep
  <1>2. ASSUME NEW c \in Requests, ProvisionStep(c)
        PROVE  IInv'
    BY <1>2, WorkspaceStepIInv DEF ProvisionStep
  <1>3. CASE UNCHANGED vars
    BY <1>3 DEF vars, IInv, ClientsInv, TypeOK, WorkspaceTypeOK, VersionMarksComplete,
       SingleProvisioner, ProvisionedIsListed, Library, PostInv, Fits, PhasesInv, RowInv,
       JobsInv, CreateOK, CancelOK, JobOK, KeysUnique
  <1> QED
    BY <1>1, <1>2, <1>3 DEF Next

(* The inductive invariant of concurrent client calls, for any set of calls
   and workspaces, in both modes. *)
THEOREM Invariance == Spec => []IInv
  BY InitIInv, NextIInv, PTL DEF Spec

(* Only one request provisions a workspace, its version mark tells the truth,
   and an Ok of provision_workspace means what its mode can promise. *)
THEOREM ProvisioningIsSafe == Spec => []ClientsInv
  <1>1. IInv => ClientsInv
    BY DEF IInv
  <1> QED
    BY <1>1, Invariance, PTL

(* An upsert_secret or register_endpoint that returned Ok stored its value, or
   lost the row to a delete that overlapped it. *)
THEOREM UpsertsTakeEffect == Spec => []UpsertTakesEffect
  <1>1. IInv => UpsertTakesEffect
    BY DEF IInv, RowInv, UpsertTakesEffect
  <1> QED
    BY <1>1, Invariance, PTL

(* A one-shot job whose creation returned Ok has its execution, and a key
   stands for one job. *)
THEOREM CreatedJobsAreQueued == Spec => []CreatedIsQueued
  <1>1. IInv => CreatedIsQueued
    <2> SUFFICES ASSUME IInv PROVE CreatedIsQueued
      OBVIOUS
    <2>1. \A c \in Requests : CreateOK(c, call, job, mode)
      BY DEF IInv, JobsInv
    <2>2. KeysUnique(job)
      BY DEF IInv, JobsInv
    <2> QED
      BY <2>1, <2>2 DEF CreatedIsQueued, Known, CreateOK, KeysUnique, Duplicates
  <1> QED
    BY <1>1, Invariance, PTL

(* After Ok from cancel_job of a one-shot job it is RETIRED and none of its
   executions ever makes a first attempt, in both modes. *)
THEOREM CancellationIsFinal == Spec => []CancelIsFinal
  <1>1. IInv => CancelIsFinal
    BY DEF IInv, JobsInv, CancelOK, CancelIsFinal
  <1> QED
    BY <1>1, Invariance, PTL

(* Provisioning in separate commits, whichever fails, implements the abstract
   workspace that the pollers rely on: Init maps to its Init, the INSERT of
   the row to Register, the last DDL statement to Provide, and every other
   step to a stutter. *)
THEOREM Refinement == Spec => TenantsImplemented
  <1> DEFINE bar == [s \in Slugs |->
         IF ~space[s].row THEN "absent"
         ELSE IF space[s].tables = "all" THEN "usable" ELSE "listed"]
  <1>1. Init => T!TenantsInit
    BY WorkspacesAssumption DEF Init, WorkspaceInit, T!TenantsInit, Complete, NoSpace
  <1>2. ASSUME IInv, [Next]_vars
        PROVE  [T!TenantsNext]_bar
    <2>1. /\ WorkspaceTypeOK /\ VersionMarksComplete /\ PostInv
          /\ space \in [Slugs -> Space]
      BY <1>2 DEF IInv, ClientsInv, TypeOK, WorkspaceTypeOK
    <2>2. CASE space' = space
      BY <2>2
    <2>3. ASSUME NEW r \in Requests, WorkspaceStep(r), space' # space
          PROVE  [T!TenantsNext]_bar
      <3> DEFINE s == post[r].slug
                 x == space[s]
      <3>1. s \in Slugs /\ x \in Space
        BY <2>1 DEF WorkspaceTypeOK, Post
      <3>2. CASE create(r)
        <4>1. ~x.row /\ x.tables = "none" /\ space' = [space EXCEPT ![s].row = TRUE]
          BY <2>1, <2>3, <3>1, <3>2 DEF create, VersionMarksComplete, Space
        <4>2. bar[s] = "absent" /\ bar' = [bar EXCEPT ![s] = "listed"]
          BY <2>1, <3>1, <4>1 DEF Space
        <4> QED
          BY <3>1, <4>2 DEF T!TenantsNext, T!Register
      <3>3. CASE ApplyDdl(r)
        <4>1. x.row /\ x.tables = "some" /\ space' = [space EXCEPT ![s].tables = "all"]
          BY <2>1, <3>1, <3>3 DEF ApplyDdl, PostInv, Fits, Working
        <4>2. bar[s] = "listed" /\ bar' = [bar EXCEPT ![s] = "usable"]
          BY <2>1, <3>1, <4>1 DEF Space
        <4> QED
          BY <3>1, <4>2 DEF T!TenantsNext, T!Provide
      <3>4. CASE provision_schema(r)
        <4>1. /\ x.tables = "none"
              /\ space' = [space EXCEPT ![s].tables = IF @ = "none" THEN "some" ELSE @]
          BY <2>1, <3>1, <3>4 DEF provision_schema, PostInv, Fits, Working
        <4>2. bar' = bar
          BY <2>1, <3>1, <4>1 DEF Space
        <4> QED
          BY <4>2
      <3>5. CASE provision_reaper(r) \/ SetVersion(r)
        <4>1. bar' = bar
          BY <2>1, <3>1, <3>5 DEF provision_reaper, SetVersion, Space
        <4> QED
          BY <4>1
      <3> QED
        BY <2>3, <3>2, <3>3, <3>4, <3>5 DEF WorkspaceStep, Refuse, CreateError, ReadBack
    <2>4. space' = space \/ \E r \in Requests : WorkspaceStep(r)
      BY <1>2 DEF Next, ProvisionStep, vars, workspaceVars
    <2> QED
      BY <2>2, <2>3, <2>4
  <1> QED
    BY <1>1, <1>2, Invariance, PTL DEF Spec, TenantsImplemented, T!TenantsSpec
=============================================================================
