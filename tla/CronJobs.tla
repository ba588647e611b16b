------------------------------- MODULE CronJobs -------------------------------
(***************************************************************************)
(* CRON jobs of one workspace: their versions (handlers/jobs.rs create,    *)
(* update and cancel over db/jobs.rs), their pg_cron entries, the command  *)
(* pg_cron runs at every tick, and the reaper, itself an INTERNAL CRON job *)
(* whose executions retire the jobs whose window has closed                *)
(* (worker/reaper.rs, dispatcher/internal.rs).                             *)
(*                                                                         *)
(* An API transaction takes the lock on its job row with its first UPDATE  *)
(* and keeps it to the commit, so it is one step, at the commit; what an   *)
(* update read before its transaction is kept in put[r].  A sweep holds    *)
(* its locks across several statements of the worker's transaction and is  *)
(* several steps.  pg_cron is external: an entry makes its command run in  *)
(* a session of its own, any number of times.                              *)
(*                                                                         *)
(* The clock is coarse, several ticks may fall in one of its units, and    *)
(* executions holds one member for all the executions of a job in a unit.  *)
(***************************************************************************)
EXTENDS Integers, FiniteSets

CONSTANTS
  Jobs,      \* job ids
  Reaper,    \* the id of the reaper's own job
  None,      \* no job
  Requests,  \* concurrent PUT requests
  Sweepers,  \* concurrent executions of the reaper job
  Starts,    \* values of starts_at that requests ask for
  Ends,      \* values of ends_at that requests ask for
  Horizon,   \* bound: the clock stops here
  MaxFaults  \* bound: failed transactions

ASSUME CronAssumption ==
  /\ Reaper \in Jobs /\ None \notin Jobs
  /\ Starts \subseteq Nat /\ Ends \subseteq Nat
  /\ Horizon \in Nat /\ MaxFaults \in Nat

VARIABLES
  job,        \* rows of the jobs table
  cron,       \* ids with a pg_cron entry
  fire,       \* the pg_cron command running for each id
  executions, \* materialized executions of user jobs
  put,        \* update requests between their read and their commit
  sweep,      \* the reaper's executions
  clock,      \* wall-clock time
  faults      \* history: failed transactions so far

vars == <<job, cron, fire, executions, put, sweep, clock, faults>>

-----------------------------------------------------------------------------
(* Rows.  Forever stands for a NULL cron_ends_at.                          *)

Forever == Horizon + 1

Job == [status : {"NONE", "ACTIVE", "RETIRED"}, version : Nat,
        previous_version_id : Jobs \cup {None},
        replaced_by_id : Jobs \cup {None},
        cron_starts_at : Nat, cron_ends_at : Nat]

NoJob == [status |-> "NONE", version |-> 0, previous_version_id |-> None,
          replaced_by_id |-> None, cron_starts_at |-> 0,
          cron_ends_at |-> Forever]

NewJob(version, previous, starts_at, ends_at) ==
  [status |-> "ACTIVE", version |-> version,
   previous_version_id |-> previous, replaced_by_id |-> None,
   cron_starts_at |-> starts_at, cron_ends_at |-> ends_at]

retired(r) == [r EXCEPT !.status = "RETIRED"]

\* endpoint_type = INTERNAL.
Internal(j) == j = Reaper

Put   == [phase : {"idle", "read"}, id : Jobs \cup {None}, old : Job]
NoPut == [phase |-> "idle", id |-> None, old |-> NoJob]

Sweep == [phase : {"idle", "queued", "begun", "swept"}, now : Nat,
          retired : SUBSET Jobs]
NoSweep == [phase |-> "idle", now |-> 0, retired |-> {}]

Fire   == [phase : {"idle", "inserting"}, now : Nat]
NoFire == [phase |-> "idle", now |-> 0]

\* Job rows a sweep has updated and not committed.
Locked(j) == \E s \in Sweepers : j \in sweep[s].retired

\* The entries after cron.schedule of j, which replaces one of the same name,
\* and after cron.unschedule of js, which does not mind absent ones.
register_pg_cron_conn(c, j) == c \cup {j}
unregister_pg_cron_conn(c, js) == c \ js

Fault == faults < MaxFaults /\ faults' = faults + 1

-----------------------------------------------------------------------------
(* API.                                                                    *)

\* POST /jobs: the row and its pg_cron entry commit together.
create_cron(j, starts_at, ends_at) ==
  /\ job[j].status = "NONE"
  /\ job' = [job EXCEPT ![j] = NewJob(1, None, starts_at, ends_at)]
  /\ cron' = register_pg_cron_conn(cron, j)
  /\ UNCHANGED <<fire, executions, put, sweep, clock, faults>>

\* PUT /jobs/{id}, up to drop(conn): the old version is read on a connection
\* of its own, and checked.
ReadOld(r, j) ==
  /\ put[r].phase = "idle"
  /\ job[j].status = "ACTIVE"
  /\ ~Internal(j)
  /\ put' = [put EXCEPT ![r] = [phase |-> "read", id |-> j, old |-> job[j]]]
  /\ UNCHANGED <<job, cron, fire, executions, sweep, clock, faults>>

\* Mutant: AND status = 'ACTIVE' is dropped.
retire_any(j) == [retired(job[j]) EXCEPT !.replaced_by_id = j]

\* The UPDATE of retire_and_replace: it matches an ACTIVE row only, and
\* writes new_job.job_id, which is still the old job's.
retire(j) == IF job[j].status = "ACTIVE"
             THEN [retired(job[j]) EXCEPT !.replaced_by_id = j]
             ELSE job[j]

\* Mutant: the old version stays scheduled.
retire_and_replace_scheduled(r, new, starts_at, ends_at) ==
  LET j == put[r].id IN
  /\ put[r].phase = "read"
  /\ job[new].status = "NONE"
  /\ ~Locked(j)
  /\ job' = [job EXCEPT ![j] = retire(j),
                        ![new] = NewJob(put[r].old.version + 1, j,
                                        starts_at, ends_at)]
  /\ cron' = register_pg_cron_conn(cron, new)
  /\ put' = [put EXCEPT ![r] = NoPut]
  /\ UNCHANGED <<fire, executions, sweep, clock, faults>>

\* The rest of update, one transaction: the new version is inserted whether
\* or not the UPDATE found the old one ACTIVE.
retire_and_replace(r, new, starts_at, ends_at) ==
  LET j == put[r].id IN
  /\ put[r].phase = "read"
  /\ job[new].status = "NONE"
  /\ ~Locked(j)
  /\ job' = [job EXCEPT ![j] = retire(j),
                        ![new] = NewJob(put[r].old.version + 1, j,
                                        starts_at, ends_at)]
  /\ cron' = register_pg_cron_conn(unregister_pg_cron_conn(cron, {j}), new)
  /\ put' = [put EXCEPT ![r] = NoPut]
  /\ UNCHANGED <<fire, executions, sweep, clock, faults>>

\* What a body may ask for: absent fields keep the old version's.
update(r) ==
  \E new \in Jobs, starts_at \in {put[r].old.cron_starts_at} \cup Starts,
     ends_at \in {put[r].old.cron_ends_at} \cup Ends :
       retire_and_replace(r, new, starts_at, ends_at)

\* The request is refused after its checks (no upcoming run), or its
\* transaction fails: nothing is committed.
UpdateFails(r) ==
  /\ put[r].phase = "read"
  /\ put' = [put EXCEPT ![r] = NoPut]
  /\ UNCHANGED <<job, cron, fire, executions, sweep, clock, faults>>

\* POST /jobs/{id}/cancel for a CRON job.
cancel(j) ==
  /\ job[j].status = "ACTIVE"
  /\ ~Internal(j)
  /\ ~Locked(j)
  /\ job' = [job EXCEPT ![j] = retired(job[j])]
  /\ cron' = unregister_pg_cron_conn(cron, {j})
  /\ UNCHANGED <<fire, executions, put, sweep, clock, faults>>

-----------------------------------------------------------------------------
(* pg_cron.                                                                *)

\* Mutant: the cron_ends_at guard is left out.
Fires_forever(j, now) == job[j].status = "ACTIVE" /\ job[j].cron_starts_at <= now

\* The SELECT of build_cron_command at its now().
Fires(j, now) == /\ job[j].status = "ACTIVE"
                 /\ job[j].cron_starts_at <= now
                 /\ job[j].cron_ends_at > now

\* A tick of a user job: the command takes its snapshot ...
FireStart(j) ==
  /\ j \in cron \ {Reaper}
  /\ fire[j].phase = "idle"
  /\ Fires(j, clock)
  /\ fire' = [fire EXCEPT ![j] = [phase |-> "inserting", now |-> clock]]
  /\ UNCHANGED <<job, cron, executions, put, sweep, clock, faults>>

\* ... and commits the execution it inserts.
FireCommit(j) ==
  /\ fire[j].phase = "inserting"
  /\ executions' = executions \cup {[job_id |-> j, run_at |-> fire[j].now]}
  /\ fire' = [fire EXCEPT ![j] = NoFire]
  /\ UNCHANGED <<job, cron, put, sweep, clock, faults>>

\* A tick of the reaper's job queues a sweep.
FireReaper(s) ==
  /\ Reaper \in cron
  /\ Fires(Reaper, clock)
  /\ sweep[s].phase = "idle"
  /\ sweep' = [sweep EXCEPT ![s].phase = "queued"]
  /\ UNCHANGED <<job, cron, fire, executions, put, clock, faults>>

-----------------------------------------------------------------------------
(* The reaper, in the worker's transaction.                                *)

\* A worker claims the sweep: its transaction's now() is fixed.
SweepBegin(s) ==
  /\ sweep[s].phase = "queued"
  /\ sweep' = [sweep EXCEPT ![s].phase = "begun", ![s].now = clock]
  /\ UNCHANGED <<job, cron, fire, executions, put, clock, faults>>

Expired(now) == {j \in Jobs : job[j].status = "ACTIVE"
                              /\ job[j].cron_ends_at <= now}

\* The UPDATE of retire_expired_cron_jobs.  It waits for the rows another
\* sweep has locked.
retire_expired_cron_jobs(s) ==
  /\ sweep[s].phase = "begun"
  /\ \A j \in Expired(sweep[s].now) : ~Locked(j)
  /\ sweep' = [sweep EXCEPT ![s].phase = "swept",
                            ![s].retired = Expired(sweep[s].now)]
  /\ UNCHANGED <<job, cron, fire, executions, put, clock, faults>>

\* Mutant: the entries are not unscheduled.
SweepCommit_scheduled(s) ==
  /\ sweep[s].phase = "swept"
  /\ job' = [j \in Jobs |-> IF j \in sweep[s].retired THEN retired(job[j])
                                                      ELSE job[j]]
  /\ sweep' = [sweep EXCEPT ![s] = NoSweep]
  /\ UNCHANGED <<cron, fire, executions, put, clock, faults>>

\* unregister_pg_cron_conn for each of them, and the worker's commit.
SweepCommit(s) ==
  /\ sweep[s].phase = "swept"
  /\ job' = [j \in Jobs |-> IF j \in sweep[s].retired THEN retired(job[j])
                                                      ELSE job[j]]
  /\ cron' = unregister_pg_cron_conn(cron, sweep[s].retired)
  /\ sweep' = [sweep EXCEPT ![s] = NoSweep]
  /\ UNCHANGED <<fire, executions, put, clock, faults>>

\* A statement fails or the pod dies: all of it is rolled back, and the
\* execution is claimed again.
SweepRollback(s) ==
  /\ sweep[s].phase \in {"begun", "swept"}
  /\ Fault
  /\ sweep' = [sweep EXCEPT ![s] = [NoSweep EXCEPT !.phase = "queued"]]
  /\ UNCHANGED <<job, cron, fire, executions, put, clock>>

TimePasses ==
  /\ clock < Horizon
  /\ clock' = clock + 1
  /\ UNCHANGED <<job, cron, fire, executions, put, sweep, faults>>

-----------------------------------------------------------------------------

\* provision_reaper has run: the workspace has its reaper job and nothing else.
Init ==
  /\ job = [j \in Jobs |-> IF j = Reaper THEN NewJob(1, None, 0, Forever)
                                         ELSE NoJob]
  /\ cron = {Reaper}
  /\ fire = [j \in Jobs |-> NoFire]
  /\ executions = {}
  /\ put = [r \in Requests |-> NoPut]
  /\ sweep = [s \in Sweepers |-> NoSweep]
  /\ clock = 0
  /\ faults = 0

Api ==
  \/ \E j \in Jobs, starts_at \in Starts, ends_at \in Ends \cup {Forever} :
       create_cron(j, starts_at, ends_at)
  \/ \E r \in Requests, j \in Jobs : ReadOld(r, j)
  \/ \E r \in Requests : update(r) \/ UpdateFails(r)
  \/ \E j \in Jobs : cancel(j)

SweepStep(s) ==
  \/ SweepBegin(s)
  \/ retire_expired_cron_jobs(s)
  \/ SweepCommit(s)

Next ==
  \/ Api
  \/ \E j \in Jobs : FireStart(j) \/ FireCommit(j)
  \/ \E s \in Sweepers : FireReaper(s) \/ SweepStep(s) \/ SweepRollback(s)
  \/ TimePasses

Spec == Init /\ [][Next]_vars

\* The reaper's job ticks again and again and a worker runs its executions
\* (EverySettles of module Executions); transactions end.
Fairness ==
  /\ \A s \in Sweepers : WF_vars(FireReaper(s)) /\ WF_vars(SweepStep(s))
  /\ WF_vars(TimePasses)

FairSpec == Spec /\ Fairness

-----------------------------------------------------------------------------
(* Properties.                                                             *)

\* The variables have their types.
TypeOK ==
  /\ job \in [Jobs -> Job]
  /\ cron \subseteq Jobs
  /\ fire \in [Jobs -> Fire]
  /\ executions \subseteq [job_id : Jobs, run_at : Nat]
  /\ put \in [Requests -> Put]
  /\ sweep \in [Sweepers -> Sweep]
  /\ clock \in Nat
  /\ faults \in Nat

\* A job has a pg_cron entry exactly while it is ACTIVE: no RETIRED row is
\* left with a live entry, no ACTIVE job is left without one, however
\* updates, cancels and sweeps interleave and whichever of them fails.
ScheduledIffActive == \A j \in Jobs : j \in cron <=> job[j].status = "ACTIVE"

\* A version replaces a RETIRED one and is numbered after it, even when the
\* update that made it acted on a version retired in the meantime.
VersionChain ==
  \A j \in Jobs : LET p == job[j].previous_version_id IN
    p # None => /\ job[p].status = "RETIRED"
                /\ job[j].version = job[p].version + 1

\* The executions of a job lie in its window, also those that commit after
\* the job was retired.
ExecutionsInWindow ==
  \A x \in executions : /\ job[x.job_id].cron_starts_at <= x.run_at
                        /\ x.run_at < job[x.job_id].cron_ends_at

\* No API request or sweep stops the reaper, which nothing would restart.
ReaperSurvives == job[Reaper].status = "ACTIVE" /\ Reaper \in cron

\* What the tables of a workspace satisfy at every commit: versions form
\* chains, executions lie in the window of their job, and the reaper's job is
\* there to sweep, whatever the handlers, ticks and sweeps in flight do.
CronInv == TypeOK /\ VersionChain /\ ExecutionsInWindow /\ ReaperSurvives

\* A RETIRED row never changes again: a late update, cancel or sweep does not
\* revive it or rewrite how it ended.
RetiredIsFinal ==
  [][\A j \in Jobs : job[j].status = "RETIRED" => job'[j] = job[j]]_vars

\* A job whose window has closed is retired and unscheduled in the end.
ExpiredIsReaped ==
  \A j \in Jobs :
    (job[j].status = "ACTIVE" /\ job[j].cron_ends_at <= clock)
      ~> (job[j].status = "RETIRED" /\ j \notin cron)

\* The versions that replaced v, through previous_version_id.
Successors(v) == {j \in Jobs : job[j].previous_version_id = v}

\* A version is replaced once at most, so the versions of a job form a line
\* with at most one ACTIVE version, its last: "ACTIVE for the current version,
\* RETIRED for previous versions".
LinearHistory == \A v \in Jobs : Cardinality(Successors(v)) <= 1
=============================================================================
