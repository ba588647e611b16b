--------------------------- MODULE CronJobsProofs ---------------------------
(***************************************************************************)
(* Proofs about CRON jobs and their pg_cron entries, for any number of     *)
(* jobs, concurrent updates, sweeps and faults, and any clock.             *)
(***************************************************************************)
EXTENDS CronJobs, TLAPS

-----------------------------------------------------------------------------
(* The inductive invariant: what every transaction in flight may rely on.  *)

\* A run at t lies in the window of the job j, whose row exists.
InWindow(j, t) == /\ job[j].status # "NONE"
                  /\ job[j].cron_starts_at <= t
                  /\ t < job[j].cron_ends_at

\* Runs, committed and not, lie in the windows of their jobs.
WindowInv ==
  /\ \A x \in executions : InWindow(x.job_id, x.run_at)
  /\ \A j \in Jobs : fire[j].phase = "inserting" => InWindow(j, fire[j].now)

\* What an update has read is stale in the status of the row only: the row
\* is a user's, exists, and keeps its version.
PutInv ==
  \A r \in Requests : put[r].phase = "read" =>
    /\ put[r].id \in Jobs
    /\ put[r].id # Reaper
    /\ job[put[r].id].status # "NONE"
    /\ put[r].old.version = job[put[r].id].version

\* The rows a sweep has locked are ACTIVE user jobs, locked by it alone.
SweepInv ==
  /\ \A s \in Sweepers : \A j \in sweep[s].retired :
       j # Reaper /\ job[j].status = "ACTIVE"
  /\ \A s, t \in Sweepers : \A j \in Jobs :
       j \in sweep[s].retired /\ j \in sweep[t].retired => s = t
  /\ \A s \in Sweepers : sweep[s].now <= clock

\* The reaper's job has no end, and the clock never gets past the horizon.
ReaperInv == /\ job[Reaper].status = "ACTIVE"
             /\ job[Reaper].cron_ends_at = Forever
             /\ clock <= Horizon

IInv == /\ TypeOK
        /\ ScheduledIffActive
        /\ VersionChain
        /\ WindowInv
        /\ PutInv
        /\ SweepInv
        /\ ReaperInv

-----------------------------------------------------------------------------
(* Rows.                                                                   *)

\* The two ways a row changes: it is inserted, or it is retired, which
\* touches its status and replaced_by_id only.
RowStep(r, s) ==
  \/ s = r
  \/ r.status = "NONE" /\ s.status = "ACTIVE"
  \/ /\ r.status = "ACTIVE" /\ s.status = "RETIRED"
     /\ s.version = r.version
     /\ s.previous_version_id = r.previous_version_id
     /\ s.cron_starts_at = r.cron_starts_at
     /\ s.cron_ends_at = r.cron_ends_at

RowsStep == \A j \in Jobs : RowStep(job[j], job'[j])

(* The values of the row operators are rows. *)
LEMMA RowTypes ==
  /\ Forever \in Nat
  /\ NoJob \in Job
  /\ \A v \in Nat, p \in Jobs \cup {None}, b, e \in Nat :
       NewJob(v, p, b, e) \in Job
  /\ \A r \in Job : retired(r) \in Job
  /\ \A r \in Job, j \in Jobs : [retired(r) EXCEPT !.replaced_by_id = j] \in Job
  <1>1. Forever \in Nat
    BY CronAssumption DEF Forever
  <1>2. NoJob \in Job
    BY <1>1 DEF NoJob, Job
  <1>3. \A v \in Nat, p \in Jobs \cup {None}, b, e \in Nat :
          NewJob(v, p, b, e) \in Job
    BY DEF NewJob, Job
  <1>4. \A r \in Job : retired(r) \in Job
    BY DEF retired, Job
  <1>5. \A r \in Job, j \in Jobs : [retired(r) EXCEPT !.replaced_by_id = j] \in Job
    BY <1>4 DEF Job
  <1> QED
    BY <1>1, <1>2, <1>3, <1>4, <1>5

(* Retiring an ACTIVE row is a row step. *)
LEMMA RetireStep ==
  ASSUME NEW r \in Job, r.status = "ACTIVE", NEW j \in Jobs
  PROVE  /\ retired(r).status = "RETIRED"
         /\ RowStep(r, retired(r))
         /\ [retired(r) EXCEPT !.replaced_by_id = j].status = "RETIRED"
         /\ RowStep(r, [retired(r) EXCEPT !.replaced_by_id = j])
  BY DEF retired, RowStep, Job

(* What rows in flight rely on survives any row step. *)
LEMMA RowsStepKeeps ==
  ASSUME TypeOK, RowsStep
  PROVE  /\ \A j \in Jobs : job[j].status # "NONE" =>
              /\ job'[j].status # "NONE"
              /\ job'[j].version = job[j].version
              /\ job'[j].previous_version_id = job[j].previous_version_id
              /\ job'[j].cron_starts_at = job[j].cron_starts_at
              /\ job'[j].cron_ends_at = job[j].cron_ends_at
         /\ \A j \in Jobs : job[j].status = "RETIRED" => job'[j] = job[j]
  BY DEF RowsStep, RowStep

(* Runs stay in their windows while rows step, when none is added. *)
LEMMA WindowKeeps ==
  ASSUME TypeOK, WindowInv, RowsStep, UNCHANGED <<executions, fire>>
  PROVE  WindowInv'
  <1>1. \A j \in Jobs : \A t \in Nat : InWindow(j, t) => InWindow(j, t)'
    BY RowsStepKeeps DEF InWindow
  <1>2. \A x \in executions : x.job_id \in Jobs /\ x.run_at \in Nat
    BY DEF TypeOK
  <1>3. \A j \in Jobs : fire[j].now \in Nat
    BY DEF TypeOK, Fire
  <1> QED
    BY <1>1, <1>2, <1>3 DEF WindowInv, InWindow

(* So does what an update has read, when no other update reads. *)
LEMMA PutKeeps ==
  ASSUME TypeOK, PutInv, RowsStep,
         \A r \in Requests : put'[r] = put[r] \/ put'[r] = NoPut
  PROVE  PutInv'
  BY RowsStepKeeps DEF PutInv, NoPut

(* Versions keep their chain while rows step, when none is inserted. *)
LEMMA VersionKeeps ==
  ASSUME TypeOK, VersionChain, RowsStep,
         \A i \in Jobs : job[i].status # "NONE" \/ job'[i] = job[i]
  PROVE  VersionChain'
  <1> SUFFICES ASSUME NEW i \in Jobs, job'[i].previous_version_id # None
               PROVE  /\ job'[job'[i].previous_version_id].status = "RETIRED"
                      /\ job'[i].version
                           = job'[job'[i].previous_version_id].version + 1
    BY DEF VersionChain
  <1> DEFINE p == job[i].previous_version_id
  <1>1. /\ job'[i].previous_version_id = p
        /\ job'[i].version = job[i].version
    BY RowsStepKeeps
  <1>2. p \in Jobs /\ p # None
    BY <1>1 DEF TypeOK, Job
  <1>3. job[p].status = "RETIRED" /\ job[i].version = job[p].version + 1
    BY <1>2 DEF VersionChain
  <1>4. job'[p] = job[p]
    BY <1>2, <1>3, RowsStepKeeps
  <1> QED
    BY <1>1, <1>3, <1>4

(* A user's row that steps leaves the reaper's alone. *)
LEMMA ReaperKeeps ==
  ASSUME ReaperInv, job'[Reaper] = job[Reaper], clock' = clock
  PROVE  ReaperInv'
  BY DEF ReaperInv

-----------------------------------------------------------------------------
(* The transactions that write rows.                                       *)

(* POST /jobs keeps the invariant. *)
LEMMA CreateStep ==
  ASSUME IInv, NEW j \in Jobs, NEW b \in Starts, NEW e \in Ends \cup {Forever},
         create_cron(j, b, e)
  PROVE  IInv' /\ RowsStep
  <1> DEFINE n == NewJob(1, None, b, e)
  <1>1. n \in Job /\ n.status = "ACTIVE" /\ n.previous_version_id = None
    BY RowTypes, CronAssumption DEF NewJob
  <1>2. /\ job \in [Jobs -> Job]
        /\ job' = [job EXCEPT ![j] = n]
        /\ job[j].status = "NONE" /\ j # Reaper
        /\ cron' = cron \cup {j}
        /\ UNCHANGED <<fire, executions, put, sweep, clock, faults>>
    BY DEF IInv, TypeOK, create_cron, register_pg_cron_conn, ReaperInv
  <1> HIDE DEF n
  <1>3. job'[j] = n /\ \A i \in Jobs \ {j} : job'[i] = job[i]
    BY <1>2
  <1>4. RowsStep
    BY <1>1, <1>2, <1>3 DEF RowsStep, RowStep
  <1>5. TypeOK'
    BY <1>1, <1>2 DEF IInv, TypeOK
  <1>6. ScheduledIffActive'
    BY <1>1, <1>2, <1>3 DEF IInv, ScheduledIffActive
  <1>7. VersionChain'
    <2>1. \A i \in Jobs : job[i].previous_version_id \in Jobs \cup {None}
      BY <1>2 DEF Job
    <2> QED
      BY <1>1, <1>2, <1>3, <2>1, CronAssumption DEF IInv, VersionChain
  <1>8. WindowInv'
    BY <1>2, <1>4, WindowKeeps DEF IInv
  <1>9. PutInv'
    BY <1>2, <1>4, PutKeeps DEF IInv
  <1>10. SweepInv'
    BY <1>2, <1>3 DEF IInv, SweepInv, TypeOK, Sweep
  <1>11. ReaperInv'
    BY <1>2, <1>3, CronAssumption, ReaperKeeps DEF IInv
  <1> QED
    BY <1>4, <1>5, <1>6, <1>7, <1>8, <1>9, <1>10, <1>11 DEF IInv

(* The commit of PUT /jobs/{id} keeps the invariant, also when the version it
   replaces was retired since it was read. *)
LEMMA UpdateStep ==
  ASSUME IInv, NEW r \in Requests, update(r)
  PROVE  IInv' /\ RowsStep
  <1> DEFINE j == put[r].id
  <1>1. PICK new \in Jobs, b \in {put[r].old.cron_starts_at} \cup Starts,
             e \in {put[r].old.cron_ends_at} \cup Ends :
               retire_and_replace(r, new, b, e)
    BY DEF update
  <1> DEFINE n == NewJob(put[r].old.version + 1, j, b, e)
             o == retire(j)
  <1>2. put[r] \in Put /\ job \in [Jobs -> Job]
    BY DEF IInv, TypeOK
  <1>3. j \in Jobs /\ j # Reaper /\ job[j].status # "NONE"
        /\ put[r].old.version = job[j].version /\ put[r].phase = "read"
    BY <1>1 DEF retire_and_replace, IInv, PutInv
  <1>4. job[j] \in Job /\ put[r].old \in Job
    BY <1>2, <1>3 DEF Put
  <1>5. b \in Nat /\ e \in Nat /\ put[r].old.version + 1 \in Nat
    <2>1. /\ put[r].old.version \in Nat
          /\ put[r].old.cron_starts_at \in Nat
          /\ put[r].old.cron_ends_at \in Nat
      BY <1>4 DEF Job
    <2>2. put[r].old.version + 1 \in Nat
      BY <2>1
    <2>3. b \in Nat /\ e \in Nat
      BY <2>1, CronAssumption, Zenon
    <2> QED
      BY <2>2, <2>3
  <1>6. /\ n \in Job /\ n.status = "ACTIVE"
        /\ n.previous_version_id = j /\ n.version = job[j].version + 1
    <2>1. n \in Job
      BY <1>3, <1>5, RowTypes
    <2> QED
      BY <1>3, <2>1 DEF NewJob
  <1>7. o \in Job /\ o.status = "RETIRED" /\ RowStep(job[j], o)
        /\ o.version = job[j].version
    <2>1. CASE job[j].status = "ACTIVE"
      <3>1. o = [retired(job[j]) EXCEPT !.replaced_by_id = j]
        BY <2>1 DEF retire
      <3>2. o \in Job
        BY <3>1, <1>3, <1>4, RowTypes
      <3>3. o.status = "RETIRED" /\ RowStep(job[j], o)
        BY <3>1, <1>3, <1>4, <2>1, RetireStep
      <3> QED
        BY <3>2, <3>3, <2>1 DEF RowStep
    <2>2. CASE job[j].status # "ACTIVE"
      <3>1. o = job[j]
        BY <2>2 DEF retire
      <3> QED
        BY <3>1, <1>3, <1>4, <2>2 DEF RowStep, Job
    <2> QED
      BY <2>1, <2>2
  <1>8. job[new].status = "NONE" /\ new # j /\ new # Reaper
    BY <1>1, <1>3 DEF retire_and_replace, IInv, ReaperInv
  <1>9. /\ job' = [job EXCEPT ![j] = o, ![new] = n]
        /\ cron' = (cron \ {j}) \cup {new}
        /\ put' = [put EXCEPT ![r] = NoPut]
        /\ ~Locked(j)
        /\ UNCHANGED <<fire, executions, sweep, clock, faults>>
    BY <1>1 DEF retire_and_replace, register_pg_cron_conn, unregister_pg_cron_conn
  <1> HIDE DEF n, o, j
  <1>10. /\ job'[j] = o /\ job'[new] = n
         /\ \A i \in Jobs \ {j, new} : job'[i] = job[i]
    BY <1>2, <1>3, <1>8, <1>9
  <1>11. RowsStep
    BY <1>6, <1>7, <1>8, <1>10 DEF RowsStep, RowStep
  <1>12. TypeOK'
    <2>1. job' \in [Jobs -> Job]
      BY <1>2, <1>6, <1>7, <1>9
    <2>2. NoPut \in Put
      BY RowTypes DEF NoPut, Put
    <2>3. put' \in [Requests -> Put]
      BY <1>9, <2>2 DEF IInv, TypeOK
    <2> QED
      BY <1>3, <1>9, <2>1, <2>3 DEF IInv, TypeOK
  <1>13. ScheduledIffActive'
    BY <1>3, <1>6, <1>7, <1>8, <1>9, <1>10 DEF IInv, ScheduledIffActive
  <1>14. VersionChain'
    <2> SUFFICES ASSUME NEW i \in Jobs, job'[i].previous_version_id # None
                 PROVE  /\ job'[job'[i].previous_version_id].status = "RETIRED"
                        /\ job'[i].version
                             = job'[job'[i].previous_version_id].version + 1
      BY DEF VersionChain
    <2>1. CASE i = new
      BY <2>1, <1>6, <1>7, <1>10
    <2>2. CASE i # new
      <3>1. /\ job'[i].previous_version_id = job[i].previous_version_id
            /\ job'[i].version = job[i].version
        BY <2>2, <1>7, <1>10, <1>3 DEF RowStep
      <3> DEFINE p == job[i].previous_version_id
      <3>2. p \in Jobs /\ p # None
        BY <3>1, <1>2 DEF Job
      <3>3. job[p].status = "RETIRED" /\ job[i].version = job[p].version + 1
        BY <3>2 DEF IInv, VersionChain
      <3>4. job'[p] = job[p]
        BY <3>2, <3>3, <1>11, RowsStepKeeps DEF IInv
      <3> QED
        BY <3>1, <3>3, <3>4
    <2> QED
      BY <2>1, <2>2
  <1>15. WindowInv'
    BY <1>9, <1>11, WindowKeeps DEF IInv
  <1>16. PutInv'
    <2>1. \A q \in Requests : put'[q] = put[q] \/ put'[q] = NoPut
      BY <1>9 DEF IInv, TypeOK
    <2> QED
      BY <1>11, <2>1, PutKeeps DEF IInv
  <1>17. SweepInv'
    <2>1. \A s \in Sweepers : \A i \in sweep[s].retired :
            i \in Jobs /\ i # j /\ i # new
      BY <1>8, <1>9 DEF IInv, SweepInv, TypeOK, Sweep, Locked
    <2> QED
      BY <1>9, <1>10, <2>1 DEF IInv, SweepInv
  <1>18. ReaperInv'
    BY <1>3, <1>8, <1>9, <1>10, CronAssumption, ReaperKeeps DEF IInv
  <1> QED
    BY <1>11, <1>12, <1>13, <1>14, <1>15, <1>16, <1>17, <1>18 DEF IInv

(* POST /jobs/{id}/cancel keeps the invariant. *)
LEMMA CancelStep ==
  ASSUME IInv, NEW j \in Jobs, cancel(j)
  PROVE  IInv' /\ RowsStep
  <1> DEFINE o == retired(job[j])
  <1>1. /\ job \in [Jobs -> Job]
        /\ job' = [job EXCEPT ![j] = o]
        /\ job[j].status = "ACTIVE" /\ j # Reaper /\ ~Locked(j)
        /\ cron' = cron \ {j}
        /\ UNCHANGED <<fire, executions, put, sweep, clock, faults>>
    BY DEF IInv, TypeOK, cancel, unregister_pg_cron_conn, Internal
  <1>2. o \in Job /\ o.status = "RETIRED" /\ RowStep(job[j], o)
    BY <1>1, RowTypes, RetireStep
  <1> HIDE DEF o
  <1>3. job'[j] = o /\ \A i \in Jobs \ {j} : job'[i] = job[i]
    BY <1>1
  <1>4. RowsStep
    BY <1>2, <1>3 DEF RowsStep, RowStep
  <1>5. TypeOK'
    BY <1>1, <1>2 DEF IInv, TypeOK
  <1>6. ScheduledIffActive'
    BY <1>1, <1>2, <1>3 DEF IInv, ScheduledIffActive
  <1>7. VersionChain'
    <2>1. \A i \in Jobs : job[i].status # "NONE" \/ job'[i] = job[i]
      BY <1>1, <1>3
    <2> QED
      BY <1>4, <2>1, VersionKeeps DEF IInv
  <1>8. WindowInv'
    BY <1>1, <1>4, WindowKeeps DEF IInv
  <1>9. PutInv'
    BY <1>1, <1>4, PutKeeps DEF IInv
  <1>10. SweepInv'
    BY <1>1, <1>3 DEF IInv, SweepInv, TypeOK, Sweep, Locked
  <1>11. ReaperInv'
    BY <1>1, <1>3, CronAssumption, ReaperKeeps DEF IInv
  <1> QED
    BY <1>4, <1>5, <1>6, <1>7, <1>8, <1>9, <1>10, <1>11 DEF IInv

(* The commit of a sweep keeps the invariant: the rows it retires are still
   ACTIVE, and no other sweep holds them. *)
LEMMA SweepCommitStep ==
  ASSUME IInv, NEW s \in Sweepers, SweepCommit(s)
  PROVE  IInv' /\ RowsStep
  <1> DEFINE R == sweep[s].retired
  <1>1. /\ job \in [Jobs -> Job]
        /\ job' = [j \in Jobs |-> IF j \in R THEN retired(job[j]) ELSE job[j]]
        /\ cron' = cron \ R
        /\ sweep' = [sweep EXCEPT ![s] = NoSweep]
        /\ UNCHANGED <<fire, executions, put, clock, faults>>
    BY DEF IInv, TypeOK, SweepCommit, unregister_pg_cron_conn
  <1>2. \A j \in R : j \in Jobs /\ j # Reaper /\ job[j].status = "ACTIVE"
    BY DEF IInv, TypeOK, Sweep, SweepInv
  <1>3. \A t \in Sweepers \ {s} : \A j \in sweep[t].retired : j \notin R
    BY <1>2 DEF IInv, SweepInv
  <1>4. /\ sweep'[s].retired = {} /\ sweep'[s].now = 0
        /\ \A t \in Sweepers \ {s} : sweep'[t] = sweep[t]
    BY <1>1 DEF IInv, TypeOK, NoSweep
  <1> HIDE DEF R
  <1>5. \A j \in R : /\ job'[j] \in Job
                     /\ job'[j].status = "RETIRED"
                     /\ RowStep(job[j], job'[j])
    BY <1>1, <1>2, RowTypes, RetireStep
  <1>6. \A j \in Jobs \ R : job'[j] = job[j]
    BY <1>1
  <1>7. RowsStep
    BY <1>5, <1>6 DEF RowsStep, RowStep
  <1>8. TypeOK'
    <2>1. job' \in [Jobs -> Job]
      BY <1>1, <1>5, <1>6
    <2>2. NoSweep \in Sweep
      BY DEF NoSweep, Sweep
    <2>3. sweep' \in [Sweepers -> Sweep]
      BY <1>1, <2>2 DEF IInv, TypeOK
    <2> QED
      BY <1>1, <2>1, <2>3 DEF IInv, TypeOK
  <1>9. ScheduledIffActive'
    BY <1>1, <1>5, <1>6 DEF IInv, ScheduledIffActive
  <1>10. VersionChain'
    <2>1. \A i \in Jobs : job[i].status # "NONE" \/ job'[i] = job[i]
      BY <1>2, <1>6
    <2> QED
      BY <1>7, <2>1, VersionKeeps DEF IInv
  <1>11. WindowInv'
    BY <1>1, <1>7, WindowKeeps DEF IInv
  <1>12. PutInv'
    BY <1>1, <1>7, PutKeeps DEF IInv
  <1>13. SweepInv'
    <2>1. \A t \in Sweepers : \A j \in sweep'[t].retired :
            /\ t # s /\ j \in sweep[t].retired
            /\ j # Reaper /\ job'[j].status = "ACTIVE"
      BY <1>3, <1>4, <1>6 DEF IInv, SweepInv, TypeOK, Sweep
    <2>2. \A t \in Sweepers : sweep'[t].now <= clock'
      BY <1>1, <1>4 DEF IInv, SweepInv, TypeOK
    <2> QED
      BY <2>1, <2>2 DEF IInv, SweepInv
  <1>14. ReaperInv'
    BY <1>1, <1>2, <1>6, CronAssumption, ReaperKeeps DEF IInv
  <1> QED
    BY <1>7, <1>8, <1>9, <1>10, <1>11, <1>12, <1>13, <1>14 DEF IInv

-----------------------------------------------------------------------------
(* The other steps, which leave the rows and their entries alone.          *)

(* A step that writes no row keeps every part that is about rows only. *)
LEMMA NoRowStep ==
  ASSUME IInv, UNCHANGED <<job, cron>>
  PROVE  /\ RowsStep /\ ScheduledIffActive' /\ VersionChain'
         /\ (UNCHANGED <<executions, fire>> => WindowInv')
         /\ (UNCHANGED put => PutInv')
         /\ (UNCHANGED <<sweep, clock>> => SweepInv')
         /\ (UNCHANGED clock => ReaperInv')
  BY DEF IInv, RowsStep, RowStep, ScheduledIffActive, VersionChain, WindowInv,
         InWindow, PutInv, SweepInv, ReaperInv

(* The read of an update keeps the invariant. *)
LEMMA ReadOldStep ==
  ASSUME IInv, NEW r \in Requests, NEW j \in Jobs, ReadOld(r, j)
  PROVE  IInv' /\ RowsStep
  <1> DEFINE p == [phase |-> "read", id |-> j, old |-> job[j]]
  <1>1. /\ job[j].status = "ACTIVE" /\ j # Reaper
        /\ put' = [put EXCEPT ![r] = p]
        /\ UNCHANGED <<job, cron, fire, executions, sweep, clock, faults>>
    BY DEF ReadOld, Internal
  <1>2. p \in Put
    BY DEF Put, IInv, TypeOK
  <1>3. put' \in [Requests -> Put]
    BY <1>1, <1>2 DEF IInv, TypeOK
  <1>4. TypeOK'
    BY <1>1, <1>3 DEF IInv, TypeOK
  <1>5. PutInv'
    BY <1>1 DEF IInv, PutInv, TypeOK
  <1> QED
    BY <1>1, <1>4, <1>5, NoRowStep DEF IInv

(* An update that fails keeps the invariant. *)
LEMMA UpdateFailsStep ==
  ASSUME IInv, NEW r \in Requests, UpdateFails(r)
  PROVE  IInv' /\ RowsStep
  <1>1. /\ put' = [put EXCEPT ![r] = NoPut]
        /\ UNCHANGED <<job, cron, fire, executions, sweep, clock, faults>>
    BY DEF UpdateFails
  <1>2. NoPut \in Put
    BY RowTypes DEF NoPut, Put
  <1>3. TypeOK'
    BY <1>1, <1>2 DEF IInv, TypeOK
  <1>4. \A q \in Requests : put'[q] = put[q] \/ put'[q] = NoPut
    BY <1>1 DEF IInv, TypeOK
  <1>5. PutInv'
    BY <1>1, <1>4, NoRowStep, PutKeeps DEF IInv
  <1> QED
    BY <1>1, <1>3, <1>5, NoRowStep DEF IInv

(* The two steps of a tick keep the invariant. *)
LEMMA FireStep ==
  ASSUME IInv, NEW j \in Jobs, FireStart(j) \/ FireCommit(j)
  PROVE  IInv' /\ RowsStep
  <1>1. CASE FireStart(j)
    <2> DEFINE f == [phase |-> "inserting", now |-> clock]
    <2>1. /\ Fires(j, clock) /\ fire' = [fire EXCEPT ![j] = f]
          /\ UNCHANGED <<job, cron, executions, put, sweep, clock, faults>>
      BY <1>1 DEF FireStart
    <2>2. f \in Fire
      BY DEF Fire, IInv, TypeOK
    <2>3. TypeOK'
      BY <2>1, <2>2 DEF IInv, TypeOK
    <2>4. InWindow(j, clock)
      BY <2>1 DEF InWindow, Fires, IInv, TypeOK, Job
    <2>5. WindowInv'
      BY <2>1, <2>4 DEF IInv, TypeOK, WindowInv, InWindow
    <2> QED
      BY <2>1, <2>3, <2>5, NoRowStep DEF IInv
  <1>2. CASE FireCommit(j)
    <2> DEFINE x == [job_id |-> j, run_at |-> fire[j].now]
    <2>1. /\ fire[j].phase = "inserting"
          /\ executions' = executions \cup {x}
          /\ fire' = [fire EXCEPT ![j] = NoFire]
          /\ UNCHANGED <<job, cron, put, sweep, clock, faults>>
      BY <1>2 DEF FireCommit
    <2>2. x \in [job_id : Jobs, run_at : Nat] /\ NoFire \in Fire
      BY DEF Fire, NoFire, IInv, TypeOK
    <2>3. TypeOK'
      BY <2>1, <2>2 DEF IInv, TypeOK
    <2>4. InWindow(j, fire[j].now)
      BY <2>1 DEF IInv, WindowInv
    <2>5. \A i \in Jobs : fire'[i] = fire[i] \/ fire'[i].phase = "idle"
      BY <2>1 DEF IInv, TypeOK, NoFire
    <2>6. WindowInv'
      BY <2>1, <2>4, <2>5 DEF IInv, WindowInv, InWindow
    <2> QED
      BY <2>1, <2>3, <2>6, NoRowStep DEF IInv
  <1> QED
    BY <1>1, <1>2

(* A sweep that changes its phase, its now() or its locks to fitting values
   keeps the invariant. *)
LEMMA SweepMoves ==
  ASSUME IInv, NEW s \in Sweepers, NEW w \in Sweep,
         sweep' = [sweep EXCEPT ![s] = w], faults' \in Nat,
         UNCHANGED <<job, cron, fire, executions, put, clock>>,
         w.now <= clock,
         \A j \in w.retired : /\ j # Reaper /\ job[j].status = "ACTIVE"
                              /\ \A t \in Sweepers \ {s} : j \notin sweep[t].retired
  PROVE  IInv' /\ RowsStep
  <1>1. sweep'[s] = w /\ \A t \in Sweepers \ {s} : sweep'[t] = sweep[t]
    BY DEF IInv, TypeOK
  <1>2. TypeOK'
    BY DEF IInv, TypeOK
  <1>3. SweepInv'
    <2>1. \A t \in Sweepers : \A j \in sweep'[t].retired :
            j # Reaper /\ job'[j].status = "ACTIVE"
      BY <1>1 DEF IInv, SweepInv
    <2>2. \A t, u \in Sweepers : \A j \in Jobs :
            j \in sweep'[t].retired /\ j \in sweep'[u].retired => t = u
      BY <1>1 DEF IInv, SweepInv
    <2>3. \A t \in Sweepers : sweep'[t].now <= clock'
      BY <1>1 DEF IInv, SweepInv
    <2> QED
      BY <2>1, <2>2, <2>3 DEF SweepInv
  <1> QED
    BY <1>2, <1>3, NoRowStep DEF IInv

(* The steps of a sweep before its commit, and its rollback, keep the
   invariant.  The reaper's own job is never swept: it has no end. *)
LEMMA SweepingStep ==
  ASSUME IInv, NEW s \in Sweepers,
         \/ FireReaper(s) \/ SweepBegin(s)
         \/ retire_expired_cron_jobs(s) \/ SweepRollback(s)
  PROVE  IInv' /\ RowsStep
  <1>1. /\ sweep \in [Sweepers -> Sweep] /\ sweep[s] \in Sweep
        /\ clock \in Nat /\ faults \in Nat /\ sweep[s].now <= clock
    BY DEF IInv, TypeOK, SweepInv
  <1>2. \A j \in sweep[s].retired :
          /\ j # Reaper /\ job[j].status = "ACTIVE"
          /\ \A t \in Sweepers \ {s} : j \notin sweep[t].retired
    BY <1>1 DEF IInv, SweepInv, Sweep
  <1>3. CASE FireReaper(s)
    <2> DEFINE w == [sweep[s] EXCEPT !.phase = "queued"]
    <2>1. /\ sweep' = [sweep EXCEPT ![s] = w]
          /\ UNCHANGED <<job, cron, fire, executions, put, clock, faults>>
      BY <1>1, <1>3 DEF FireReaper
    <2>2. /\ w \in Sweep /\ w.now = sweep[s].now
          /\ w.retired = sweep[s].retired
      BY <1>1 DEF Sweep
    <2> HIDE DEF w
    <2>3. faults' \in Nat /\ w.now <= clock
      BY <1>1, <2>1, <2>2
    <2>4. \A j \in w.retired :
            /\ j # Reaper /\ job[j].status = "ACTIVE"
            /\ \A t \in Sweepers \ {s} : j \notin sweep[t].retired
      BY <1>2, <2>2
    <2> QED
      BY <2>1, <2>2, <2>3, <2>4, SweepMoves
  <1>4. CASE SweepBegin(s)
    <2> DEFINE w == [sweep[s] EXCEPT !.phase = "begun", !.now = clock]
    <2>1. /\ sweep' = [sweep EXCEPT ![s] = w]
          /\ UNCHANGED <<job, cron, fire, executions, put, clock, faults>>
      BY <1>1, <1>4 DEF SweepBegin
    <2>2. w \in Sweep /\ w.now = clock /\ w.retired = sweep[s].retired
      BY <1>1 DEF Sweep
    <2> HIDE DEF w
    <2>3. faults' \in Nat /\ w.now <= clock
      BY <1>1, <2>1, <2>2
    <2>4. \A j \in w.retired :
            /\ j # Reaper /\ job[j].status = "ACTIVE"
            /\ \A t \in Sweepers \ {s} : j \notin sweep[t].retired
      BY <1>2, <2>2
    <2> QED
      BY <2>1, <2>2, <2>3, <2>4, SweepMoves
  <1>5. CASE retire_expired_cron_jobs(s)
    <2> DEFINE E == Expired(sweep[s].now)
               w == [sweep[s] EXCEPT !.phase = "swept", !.retired = E]
    <2>1. /\ sweep' = [sweep EXCEPT ![s] = w]
          /\ \A j \in E : ~Locked(j)
          /\ UNCHANGED <<job, cron, fire, executions, put, clock, faults>>
      BY <1>1, <1>5 DEF retire_expired_cron_jobs
    <2>2. \A j \in E : /\ j \in Jobs /\ job[j].status = "ACTIVE"
                       /\ job[j].cron_ends_at <= sweep[s].now
      BY DEF Expired
    <2>3. Reaper \notin E
      BY <1>1, <2>2, CronAssumption DEF IInv, ReaperInv, Forever, Sweep
    <2> HIDE DEF E
    <2>4. w \in Sweep /\ w.now = sweep[s].now /\ w.retired = E
      BY <1>1, <2>2 DEF Sweep
    <2>5. \A j \in E : \A t \in Sweepers : j \notin sweep[t].retired
      BY <2>1 DEF Locked
    <2> HIDE DEF w
    <2>6. faults' \in Nat /\ w.now <= clock
      BY <1>1, <2>1, <2>4
    <2>7. \A j \in w.retired :
            /\ j # Reaper /\ job[j].status = "ACTIVE"
            /\ \A t \in Sweepers \ {s} : j \notin sweep[t].retired
      BY <2>2, <2>3, <2>4, <2>5
    <2> QED
      BY <2>1, <2>4, <2>6, <2>7, SweepMoves
  <1>6. CASE SweepRollback(s)
    <2> DEFINE w == [NoSweep EXCEPT !.phase = "queued"]
    <2>1. /\ sweep' = [sweep EXCEPT ![s] = w] /\ faults' = faults + 1
          /\ UNCHANGED <<job, cron, fire, executions, put, clock>>
      BY <1>6 DEF SweepRollback, Fault
    <2>2. w \in Sweep /\ w.now = 0 /\ w.retired = {}
      BY DEF NoSweep, Sweep
    <2>3. faults' \in Nat /\ 0 <= clock
      BY <1>1, <2>1
    <2> HIDE DEF w
    <2> QED
      BY <2>1, <2>2, <2>3, SweepMoves
  <1> QED
    BY <1>3, <1>4, <1>5, <1>6

(* The passing of time keeps the invariant. *)
LEMMA TimeStep ==
  ASSUME IInv, TimePasses
  PROVE  IInv' /\ RowsStep
  <1>1. /\ clock \in Nat /\ Horizon \in Nat
        /\ clock < Horizon /\ clock' = clock + 1
        /\ UNCHANGED <<job, cron, fire, executions, put, sweep, faults>>
    BY CronAssumption DEF IInv, TypeOK, TimePasses
  <1>2. TypeOK'
    BY <1>1 DEF IInv, TypeOK
  <1>3. SweepInv'
    <2>1. \A s \in Sweepers : sweep[s].now \in Nat /\ sweep[s].now <= clock
      BY DEF IInv, TypeOK, Sweep, SweepInv
    <2>2. \A s \in Sweepers : sweep'[s].now <= clock'
      BY <1>1, <2>1
    <2> QED
      BY <1>1, <2>2 DEF IInv, SweepInv
  <1>4. ReaperInv'
    BY <1>1 DEF IInv, ReaperInv
  <1> QED
    BY <1>1, <1>2, <1>3, <1>4, NoRowStep DEF IInv

-----------------------------------------------------------------------------
(* Theorems.                                                               *)

(* The freshly provisioned workspace satisfies the invariant. *)
LEMMA InitIInv == Init => IInv
  <1> SUFFICES ASSUME Init PROVE IInv
    OBVIOUS
  <1> DEFINE reaper == NewJob(1, None, 0, Forever)
  <1>1. /\ reaper \in Job /\ NoJob \in Job
        /\ NoFire \in Fire /\ NoPut \in Put /\ NoSweep \in Sweep
    BY RowTypes DEF NoFire, Fire, NoPut, Put, NoSweep, Sweep
  <1>2. /\ reaper.status = "ACTIVE" /\ reaper.previous_version_id = None
        /\ reaper.cron_ends_at = Forever
        /\ NoJob.status = "NONE" /\ NoJob.previous_version_id = None
    BY DEF NewJob, NoJob
  <1>3. /\ NoFire.phase = "idle" /\ NoPut.phase = "idle"
        /\ NoSweep.now = 0 /\ NoSweep.retired = {}
    BY DEF NoFire, NoPut, NoSweep
  <1> HIDE DEF reaper
  <1>4. /\ Reaper \in Jobs /\ Horizon \in Nat
        /\ job = [j \in Jobs |-> IF j = Reaper THEN reaper ELSE NoJob]
        /\ cron = {Reaper} /\ fire = [j \in Jobs |-> NoFire]
        /\ executions = {} /\ put = [r \in Requests |-> NoPut]
        /\ sweep = [s \in Sweepers |-> NoSweep]
        /\ clock = 0 /\ faults = 0
    BY CronAssumption DEF Init, reaper
  <1>5. TypeOK
    BY <1>1, <1>4 DEF TypeOK
  <1>6. ScheduledIffActive /\ VersionChain
    BY <1>2, <1>4 DEF ScheduledIffActive, VersionChain
  <1>7. WindowInv /\ PutInv
    BY <1>3, <1>4 DEF WindowInv, PutInv
  <1>8. SweepInv /\ ReaperInv
    BY <1>2, <1>3, <1>4 DEF SweepInv, ReaperInv
  <1> QED
    BY <1>5, <1>6, <1>7, <1>8 DEF IInv

(* Every step keeps the invariant, and changes rows only by inserting or
   retiring them. *)
LEMMA NextIInv == IInv /\ [Next]_vars => IInv' /\ RowsStep
  <1> SUFFICES ASSUME IInv, [Next]_vars PROVE IInv' /\ RowsStep
    OBVIOUS
  <1>1. CASE Api
    BY <1>1, CreateStep, ReadOldStep, UpdateStep, UpdateFailsStep, CancelStep
       DEF Api
  <1>2. CASE \E j \in Jobs : FireStart(j) \/ FireCommit(j)
    BY <1>2, FireStep
  <1>3. CASE \E s \in Sweepers :
               FireReaper(s) \/ SweepStep(s) \/ SweepRollback(s)
    BY <1>3, SweepingStep, SweepCommitStep DEF SweepStep
  <1>4. CASE TimePasses
    BY <1>4, TimeStep
  <1>5. CASE UNCHANGED vars
    <2>1. UNCHANGED <<job, cron, fire, executions, put, sweep, clock, faults>>
      BY <1>5 DEF vars
    <2>2. TypeOK'
      BY <2>1 DEF IInv, TypeOK
    <2> QED
      BY <2>1, <2>2, NoRowStep DEF IInv
  <1> QED
    BY <1>1, <1>2, <1>3, <1>4, <1>5 DEF Next

(* The invariant implies what the run checks. *)
LEMMA IInvImplies == IInv => CronInv /\ ScheduledIffActive
  <1> SUFFICES ASSUME IInv PROVE CronInv /\ ScheduledIffActive
    OBVIOUS
  <1>1. ExecutionsInWindow
    BY DEF IInv, WindowInv, InWindow, ExecutionsInWindow
  <1>2. ReaperSurvives
    BY CronAssumption DEF IInv, ReaperInv, ScheduledIffActive, ReaperSurvives
  <1> QED
    BY <1>1, <1>2 DEF IInv, CronInv

(* The invariant holds throughout. *)
THEOREM Invariance == Spec => []IInv
  BY InitIInv, NextIInv, PTL DEF Spec

(* Rows and pg_cron entries agree at every commit: whatever updates, cancels
   and sweeps are in flight, a job is scheduled exactly while it is ACTIVE. *)
THEOREM Scheduled == Spec => []ScheduledIffActive
  BY Invariance, IInvImplies, PTL

(* Versions form chains of RETIRED rows numbered in order, executions lie in
   the window of their job, and the reaper's own job is always there. *)
THEOREM Tables == Spec => []CronInv
  BY Invariance, IInvImplies, PTL

(* No step changes a RETIRED row. *)
THEOREM Final == Spec => RetiredIsFinal
  <1>1. IInv /\ [Next]_vars =>
          [\A j \in Jobs : job[j].status = "RETIRED" => job'[j] = job[j]]_vars
    BY NextIInv, RowsStepKeeps DEF IInv
  <1> QED
    BY <1>1, Invariance, PTL DEF Spec, RetiredIsFinal
=============================================================================
