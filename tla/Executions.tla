------------------------------ MODULE Executions ------------------------------
(***************************************************************************)
(* The execution table of one workspace and the worker pipeline that runs  *)
(* it: db/executions.rs, db/attempts.rs, worker/poller.rs                  *)
(* (claim_and_process) and worker/pipeline.rs (process_execution), with    *)
(* the API operations that touch the same rows.                            *)
(*                                                                         *)
(* The worker claims, dispatches, records and finalizes one execution in a *)
(* single Postgres transaction.  The model therefore has two versions of a *)
(* row: row[e], the committed one that every other session reads, and      *)
(* tx[t].row, the version that task t has written and not committed.  The  *)
(* row lock on e is held from claim to commit or rollback.  now() is the   *)
(* time the transaction began (tx[t].now), Utc::now() is the clock.        *)
(*                                                                         *)
(* Executions belong to one-shot jobs here (IMMEDIATE and DELAYED jobs own *)
(* exactly one execution); the CRON side is module CronJobs.  Two branches *)
(* of the code are dead under the schema's foreign keys and have no        *)
(* action: a claimed execution whose job is missing, and a job whose       *)
(* endpoint is missing.                                                    *)
(***************************************************************************)
EXTENDS Integers, FiniteSets

CONSTANTS
  Execs,         \* execution ids
  Tasks,         \* concurrent claim_and_process tasks, over all worker pods
  None,          \* no execution
  AttemptLimits, \* values of retry_policy.max_attempts, an unvalidated i64
  Backoffs,      \* values compute_backoff may return
  Horizon,       \* bound: the clock stops here
  MaxFaults      \* bound: crashes, SQL errors and failed commits

ASSUME ConstantsAssumption ==
  /\ None \notin Execs
  /\ AttemptLimits \subseteq Int
  /\ Backoffs \subseteq Nat
  /\ Backoffs # {}
  /\ Horizon \in Nat
  /\ MaxFaults \in Nat

VARIABLES
  row,       \* committed rows of the executions table
  attempts,  \* committed rows of the attempts table
  job,       \* committed status of the one-shot job that owns each execution
  tx,        \* each task's database transaction
  clock,     \* wall-clock time
  delivered, \* history: dispatches of e that reached the target
  accepted,  \* history: dispatches of e whose target answered with success
  faults     \* history: crashes, SQL errors and failed commits so far

vars == <<row, attempts, job, tx, clock, delivered, accepted, faults>>

-----------------------------------------------------------------------------
(* Rows.                                                                   *)

Cancellable == {"PENDING", "QUEUED"}
Open        == {"PENDING", "QUEUED", "RETRYING"}
Terminal    == {"SUCCESS", "FAILED", "CANCELLED"}
Status      == Open \cup Terminal \cup {"NONE", "RUNNING"}

Row == [status : Status, attempt_count : Nat, max_attempts : Int,
        run_at : Nat, started_at : Nat, duration_ms : Int]

NoRow == [status |-> "NONE", attempt_count |-> 0, max_attempts |-> 0,
          run_at |-> 0, started_at |-> 0, duration_ms |-> 0]

NewRow(status, limit, run_at) ==
  [NoRow EXCEPT !.status = status, !.max_attempts = limit, !.run_at = run_at]

\* Mutant: the claim does not count the attempt.
claim_uncounted(r, now) ==
  [r EXCEPT !.status = "RUNNING", !.started_at = now]

\* The UPDATE ... SET lists of db/executions.rs; now is the transaction's now().
claim(r, now) ==
  [r EXCEPT !.status = "RUNNING", !.started_at = now,
            !.attempt_count = r.attempt_count + 1]

complete_success(r, now) ==
  [r EXCEPT !.status = "SUCCESS", !.duration_ms = now - r.started_at]

complete_failed(r, now) ==
  [r EXCEPT !.status = "FAILED", !.duration_ms = now - r.started_at]

complete_retry(r, now, backoff) ==
  IF r.attempt_count >= r.max_attempts
  THEN complete_failed(r, now)
  ELSE [r EXCEPT !.status = "RETRYING", !.run_at = now + backoff,
                 !.duration_ms = 0]

cancelled(r) == [r EXCEPT !.status = "CANCELLED"]

Attempt == [execution_id : Execs, attempt_number : Nat,
            status : {"SUCCESS", "FAILED"}, completed_at : Nat]

-----------------------------------------------------------------------------
(* Transactions.  A task's phases:                                         *)
(*   idle -> begun -> claimed -> prepared -> dispatched -> finished -> idle *)
(* and orphan, when the task died and Postgres has not noticed yet.        *)

Phase == {"idle", "begun", "claimed", "prepared", "dispatched", "finished",
          "orphan"}

Tx == [phase : Phase, exec : Execs \cup {None}, now : Nat, row : Row,
       attempts : SUBSET Attempt, aborted : BOOLEAN,
       result : {"none", "success", "failure"}]

IdleTx == [phase |-> "idle", exec |-> None, now |-> 0, row |-> NoRow,
           attempts |-> {}, aborted |-> FALSE, result |-> "none"]

\* e's row is locked by a transaction that claimed it.
Locked(e) == \E t \in Tasks : tx[t].exec = e

\* Mutants: FOR UPDATE without SKIP LOCKED's exclusion; run_at not compared.
Due_shared(now) == {e \in Execs : /\ row[e].status \in Open
                                  /\ row[e].run_at <= now}

Due_early(now) == {e \in Execs : row[e].status \in Open /\ ~Locked(e)}

\* The rows the claim subquery can lock: due at now(), not locked by another.
Due(now) == {e \in Execs : /\ row[e].status \in Open
                           /\ row[e].run_at <= now
                           /\ ~Locked(e)}

Rollback(t) == tx' = [tx EXCEPT ![t] = IdleTx]

\* One more fault, as long as the bound allows it.
Fault == faults < MaxFaults /\ faults' = faults + 1

TableUnchanged  == UNCHANGED <<row, attempts, job>>
EffectUnchanged == UNCHANGED <<delivered, accepted>>

-----------------------------------------------------------------------------
(* API operations on the same rows.                                        *)

create_immediate(e, limit) ==
  /\ row[e].status = "NONE"
  /\ row' = [row EXCEPT ![e] = NewRow("QUEUED", limit, clock)]
  /\ job' = [job EXCEPT ![e] = "ACTIVE"]
  /\ UNCHANGED <<attempts, tx, clock, faults>> /\ EffectUnchanged

create_delayed(e, limit, run_at) ==
  /\ row[e].status = "NONE"
  /\ row' = [row EXCEPT ![e] = NewRow("PENDING", limit, run_at)]
  /\ job' = [job EXCEPT ![e] = "ACTIVE"]
  /\ UNCHANGED <<attempts, tx, clock, faults>> /\ EffectUnchanged

\* Mutant: the UPDATE's status condition is dropped.
cancel_execution_any(e) ==
  /\ row[e].status # "NONE"
  /\ ~Locked(e)
  /\ row' = [row EXCEPT ![e] = cancelled(row[e])]
  /\ UNCHANGED <<attempts, job, tx, clock, faults>> /\ EffectUnchanged

\* POST executions/{id}/cancel.  The UPDATE waits for the row lock and
\* re-evaluates its status condition, so it takes effect only on a row no
\* worker holds.
cancel_execution(e) ==
  /\ row[e].status \in Cancellable
  /\ ~Locked(e)
  /\ row' = [row EXCEPT ![e] = cancelled(row[e])]
  /\ UNCHANGED <<attempts, job, tx, clock, faults>> /\ EffectUnchanged

\* Mutant: cancel_pending_for_job is not called.
cancel_job_only(e) ==
  /\ job[e] = "ACTIVE"
  /\ job' = [job EXCEPT ![e] = "RETIRED"]
  /\ UNCHANGED <<row, attempts, tx, clock, faults>> /\ EffectUnchanged

\* POST jobs/{id}/cancel for a one-shot job: cancel_pending_for_job and
\* jobs::cancel in one transaction.  A RETRYING execution does not match the
\* UPDATE, so the job retires at once and the execution stays.
cancel_job(e) ==
  /\ job[e] = "ACTIVE"
  /\ row[e].status \in Cancellable => ~Locked(e)
  /\ row' = [row EXCEPT ![e] = IF row[e].status \in Cancellable
                               THEN cancelled(row[e]) ELSE row[e]]
  /\ job' = [job EXCEPT ![e] = "RETIRED"]
  /\ UNCHANGED <<attempts, tx, clock, faults>> /\ EffectUnchanged

-----------------------------------------------------------------------------
(* claim_and_process.                                                      *)

begin(t) ==
  /\ tx[t].phase = "idle"
  /\ tx' = [tx EXCEPT ![t] = [IdleTx EXCEPT !.phase = "begun", !.now = clock]]
  /\ UNCHANGED <<clock, faults>> /\ TableUnchanged /\ EffectUnchanged

\* ORDER BY run_at ASC LIMIT 1 FOR UPDATE SKIP LOCKED.
ClaimDue(t) ==
  LET due == Due(tx[t].now) IN
  /\ tx[t].phase = "begun"
  /\ \E e \in due :
       /\ \A f \in due : row[e].run_at <= row[f].run_at
       /\ tx' = [tx EXCEPT ![t] = [tx[t] EXCEPT
                   !.phase = "claimed", !.exec = e,
                   !.row = claim(row[e], tx[t].now)]]
  /\ UNCHANGED <<clock, faults>> /\ TableUnchanged /\ EffectUnchanged

ClaimNothing(t) ==
  /\ tx[t].phase = "begun"
  /\ Due(tx[t].now) = {}
  /\ Rollback(t)
  /\ UNCHANGED <<clock, faults>> /\ TableUnchanged /\ EffectUnchanged

\* The claim itself fails, or jobs::get fails after it: `continue` drops the
\* transaction.  The complete_failed issued after the failed read runs in an
\* aborted transaction and is rolled back with it.
ClaimError(t) ==
  /\ tx[t].phase \in {"begun", "claimed"}
  /\ Fault
  /\ Rollback(t)
  /\ UNCHANGED clock /\ TableUnchanged /\ EffectUnchanged

-----------------------------------------------------------------------------
(* process_execution.                                                      *)

\* record_attempt: the row added to the transaction, stamped with Utc::now().
record_attempt(x, status) ==
  x.attempts \cup {[execution_id |-> x.exec,
                    attempt_number |-> x.row.attempt_count,
                    status |-> status, completed_at |-> clock]}

\* uq_attempts_exec_number rejects the insert, which aborts the transaction.
DuplicateAttempt(x) ==
  \E a \in attempts : /\ a.execution_id = x.exec
                      /\ a.attempt_number = x.row.attempt_count

\* Endpoint, config and secrets are read, templates resolved, and the
\* "Dispatching" line logged.  A failed log insert is only reported: the
\* dispatch goes on in an aborted transaction.
Prepare(t) ==
  /\ tx[t].phase = "claimed"
  /\ tx' = [tx EXCEPT ![t] = [tx[t] EXCEPT !.phase = "prepared"]]
  /\ UNCHANGED <<clock, faults>> /\ TableUnchanged /\ EffectUnchanged

PrepareLogError(t) ==
  /\ tx[t].phase = "claimed"
  /\ Fault
  /\ tx' = [tx EXCEPT ![t] = [tx[t] EXCEPT !.phase = "prepared",
                                           !.aborted = TRUE]]
  /\ UNCHANGED clock /\ TableUnchanged /\ EffectUnchanged

\* Reading the endpoint, the config or a secret fails in the database: the
\* complete_failed and record_attempt that follow fail too.
LoadError(t) ==
  /\ tx[t].phase = "claimed"
  /\ Fault
  /\ tx' = [tx EXCEPT ![t] = [tx[t] EXCEPT !.phase = "finished",
                                           !.aborted = TRUE]]
  /\ UNCHANGED clock /\ TableUnchanged /\ EffectUnchanged

\* The config or secret does not exist, or a template does not resolve: the
\* execution fails for good, whatever attempts are left.
ResolutionFails(t) ==
  LET x == tx[t] IN
  /\ x.phase = "claimed"
  /\ tx' = [tx EXCEPT ![t] =
       IF DuplicateAttempt(x)
       THEN [x EXCEPT !.phase = "finished", !.aborted = TRUE]
       ELSE [x EXCEPT !.phase = "finished",
                      !.row = complete_failed(x.row, x.now),
                      !.attempts = record_attempt(x, "FAILED")]]
  /\ UNCHANGED <<clock, faults>> /\ TableUnchanged /\ EffectUnchanged

\* The dispatcher answers.  A success reached its target; a failure may have
\* (timeout, non-2xx) or not (connection refused, unsupported type).
Dispatch(t) ==
  LET e == tx[t].exec IN
  /\ tx[t].phase = "prepared"
  /\ \E result \in {"success", "failure"}, reached \in BOOLEAN :
       /\ result = "success" => reached
       /\ tx' = [tx EXCEPT ![t] = [tx[t] EXCEPT !.phase = "dispatched",
                                                !.result = result]]
       /\ delivered' = [delivered EXCEPT ![e] =
                          IF reached THEN delivered[e] + 1 ELSE delivered[e]]
       /\ accepted' = [accepted EXCEPT ![e] =
                         IF result = "success" THEN accepted[e] + 1
                                               ELSE accepted[e]]
  /\ UNCHANGED <<clock, faults>> /\ TableUnchanged

\* Mutant: the last failure is not written.
FinalRow_stuck(x, backoff) ==
  IF x.result = "success" THEN complete_success(x.row, x.now)
  ELSE IF x.row.attempt_count < x.row.max_attempts
       THEN complete_retry(x.row, x.now, backoff)
       ELSE x.row

\* What the pipeline writes for the dispatch result.
FinalRow(x, backoff) ==
  IF x.result = "success" THEN complete_success(x.row, x.now)
  ELSE IF x.row.attempt_count < x.row.max_attempts
       THEN complete_retry(x.row, x.now, backoff)
       ELSE complete_failed(x.row, x.now)

AttemptStatus(x) == IF x.result = "success" THEN "SUCCESS" ELSE "FAILED"

Finalize(t) ==
  LET x == tx[t] IN
  /\ x.phase = "dispatched"
  /\ \E backoff \in Backoffs :
       tx' = [tx EXCEPT ![t] =
         IF x.aborted \/ DuplicateAttempt(x)
         THEN [x EXCEPT !.phase = "finished", !.aborted = TRUE]
         ELSE [x EXCEPT !.phase = "finished", !.row = FinalRow(x, backoff),
                        !.attempts = record_attempt(x, AttemptStatus(x))]]
  /\ UNCHANGED <<clock, faults>> /\ TableUnchanged /\ EffectUnchanged

\* One of the statements after the dispatch fails: the others fail after it.
FinalizeError(t) ==
  /\ tx[t].phase = "dispatched"
  /\ Fault
  /\ tx' = [tx EXCEPT ![t] = [tx[t] EXCEPT !.phase = "finished",
                                           !.aborted = TRUE]]
  /\ UNCHANGED clock /\ TableUnchanged /\ EffectUnchanged

-----------------------------------------------------------------------------
(* The end of the transaction.                                             *)

\* COMMIT of an aborted transaction is a ROLLBACK.
Commit(t) ==
  LET x == tx[t] IN
  /\ x.phase = "finished"
  /\ row' = IF x.aborted THEN row ELSE [row EXCEPT ![x.exec] = x.row]
  /\ attempts' = IF x.aborted THEN attempts ELSE attempts \cup x.attempts
  /\ Rollback(t)
  /\ UNCHANGED <<job, clock, faults>> /\ EffectUnchanged

\* tx.commit() returns an error, which is only logged.
CommitError(t) ==
  /\ tx[t].phase = "finished"
  /\ Fault
  /\ Rollback(t)
  /\ UNCHANGED clock /\ TableUnchanged /\ EffectUnchanged

\* The pod dies or the shutdown timeout expires with the task in flight.
Crash(t) ==
  /\ tx[t].phase \notin {"idle", "orphan"}
  /\ Fault
  /\ tx' = [tx EXCEPT ![t] = [tx[t] EXCEPT !.phase = "orphan"]]
  /\ UNCHANGED clock /\ TableUnchanged /\ EffectUnchanged

\* Postgres notices the lost connection; a new pod takes the task's place.
OrphanRollback(t) ==
  /\ tx[t].phase = "orphan"
  /\ Rollback(t)
  /\ UNCHANGED <<clock, faults>> /\ TableUnchanged /\ EffectUnchanged

Tick ==
  /\ clock < Horizon
  /\ clock' = clock + 1
  /\ UNCHANGED <<tx, faults>> /\ TableUnchanged /\ EffectUnchanged

-----------------------------------------------------------------------------

Init ==
  /\ row = [e \in Execs |-> NoRow]
  /\ attempts = {}
  /\ job = [e \in Execs |-> "NONE"]
  /\ tx = [t \in Tasks |-> IdleTx]
  /\ clock = 0
  /\ delivered = [e \in Execs |-> 0]
  /\ accepted = [e \in Execs |-> 0]
  /\ faults = 0

Api(e) ==
  \/ \E limit \in AttemptLimits : create_immediate(e, limit)
  \/ \E limit \in AttemptLimits, run_at \in 0..Horizon :
       create_delayed(e, limit, run_at)
  \/ cancel_execution(e)
  \/ cancel_job(e)

\* The steps of the pipeline when nothing goes wrong with the database.
Pipeline(t) ==
  \/ begin(t)
  \/ ClaimDue(t)
  \/ ClaimNothing(t)
  \/ Prepare(t)
  \/ ResolutionFails(t)
  \/ Dispatch(t)
  \/ Finalize(t)
  \/ Commit(t)
  \/ OrphanRollback(t)

Failure(t) ==
  \/ ClaimError(t)
  \/ PrepareLogError(t)
  \/ LoadError(t)
  \/ FinalizeError(t)
  \/ CommitError(t)
  \/ Crash(t)

Next ==
  \/ \E e \in Execs : Api(e)
  \/ \E t \in Tasks : Pipeline(t) \/ Failure(t)
  \/ Tick

Spec == Init /\ [][Next]_vars

\* Tasks keep running (the poller loop respawns them), Postgres ends orphaned
\* sessions, and time passes.  Faults are finitely many by MaxFaults.
Fairness == WF_vars(Tick) /\ \A t \in Tasks : WF_vars(Pipeline(t))

FairSpec == Spec /\ Fairness

-----------------------------------------------------------------------------
(* Properties.                                                             *)

\* The variables have their types.
TypeOK ==
  /\ row \in [Execs -> Row]
  /\ attempts \subseteq Attempt
  /\ job \in [Execs -> {"NONE", "ACTIVE", "RETIRED"}]
  /\ tx \in [Tasks -> Tx]
  /\ clock \in Nat
  /\ delivered \in [Execs -> Nat]
  /\ accepted \in [Execs -> Nat]
  /\ faults \in Nat

\* FOR UPDATE SKIP LOCKED: two tasks never work on the same execution, from
\* any two pods and in any order of claims, crashes and rollbacks.
RowLock ==
  \A t, u \in Tasks : t # u /\ tx[t].exec # None => tx[t].exec # tx[u].exec

\* RUNNING is only ever written inside the worker's transaction: no committed
\* row has it, so no execution can be stranded in RUNNING by a dead worker.
RunningInvisible == \A e \in Execs : row[e].status # "RUNNING"

AttemptsOf(e) == {a \in attempts : a.execution_id = e}

\* The attempts table tells the history of the row: one attempt per number
\* from 1 to attempt_count, and a successful one exactly when the execution
\* is SUCCESS, as its last.  Rolled-back attempts leave nothing behind that a
\* later attempt's insert could collide with.
AttemptLedger ==
  \A e \in Execs :
    /\ {a.attempt_number : a \in AttemptsOf(e)} = 1..row[e].attempt_count
    /\ \A a, b \in AttemptsOf(e) :
         a.attempt_number = b.attempt_number => a = b
    /\ \A a \in AttemptsOf(e) :
         a.status = "SUCCESS" <=> /\ row[e].status = "SUCCESS"
                                  /\ a.attempt_number = row[e].attempt_count

\* Counted attempts stay within max_attempts (the first one is always made),
\* and an execution waits in RETRYING only with attempts left and at least one
\* made.  An execution that was cancelled was never counted as attempted.
AttemptBudget ==
  \A e \in Execs :
    /\ row[e].attempt_count > 1 => row[e].attempt_count <= row[e].max_attempts
    /\ row[e].status = "RETRYING" => /\ row[e].attempt_count >= 1
                                     /\ row[e].attempt_count < row[e].max_attempts
    /\ row[e].status \in Cancellable \cup {"CANCELLED", "NONE"} =>
         row[e].attempt_count = 0

\* A transaction of e that a fault has doomed.
Doomed(x) == x.aborted \/ x.phase = "orphan"

\* Transactions of e that have dispatched (or dispatched with success), whose
\* commit will count the dispatch.
InFlight(e) == {t \in Tasks : tx[t].exec = e /\ tx[t].result # "none"
                              /\ ~Doomed(tx[t])}

\* Delivery is exactly-once but for faults: every delivery to the target is
\* counted as an attempt, is about to be, or is paid for by a crash, an SQL
\* error or a failed commit; every delivery the target accepted is the SUCCESS
\* of the row, is about to be, or is paid for likewise.
DuplicatesArePaidFor ==
  \A e \in Execs :
    LET flying == IF InFlight(e) = {} THEN 0 ELSE 1 IN
    /\ delivered[e] <= row[e].attempt_count + flying + faults
    /\ accepted[e] <= (IF row[e].status = "SUCCESS" THEN 1 ELSE 0)
                       + flying + faults

\* A committed SUCCESS was accepted by the target.
SuccessIsAccepted ==
  \A e \in Execs : row[e].status = "SUCCESS" => accepted[e] >= 1

\* A one-shot job is RETIRED only when its execution is settled or is between
\* two attempts: a cancelled job whose execution was never attempted is
\* cancelled with it, however cancel and claim interleave.
RetiredJobIsSettled ==
  \A e \in Execs : job[e] = "RETIRED" =>
                      row[e].status \in Terminal \cup {"RETRYING"}

\* A settled execution stays as it is and is never sent to its target again:
\* a cancel, a late worker or a rollback cannot revive or refire it.
SettledIsFinal ==
  [][\A e \in Execs : row[e].status \in Terminal =>
        /\ row'[e] = row[e]
        /\ delivered'[e] = delivered[e]]_vars

\* Nothing is sent before the run_at of the committed row.
NotBeforeRunAt ==
  [][\A e \in Execs : delivered'[e] # delivered[e] =>
        row[e].run_at <= clock]_vars

\* Every execution that falls due within the horizon is settled, or retries
\* past the horizon: no fault, lock or interleaving strands it.
EverySettles ==
  \A e \in Execs :
    (row[e].status \in Open \cup {"RUNNING"})
      ~> (row[e].status \in Terminal \/ row[e].run_at > Horizon)

\* The committed rows and the target's history behave as the execution
\* lifecycle that clients see: transactions, locks and faults of the pipeline
\* never show.
Lifecycle == INSTANCE ExecutionLifecycle WITH
  status        <- [e \in Execs |-> row[e].status],
  attempt_count <- [e \in Execs |-> row[e].attempt_count],
  delivered     <- delivered,
  accepted      <- accepted

ImplementsLifecycle == Lifecycle!Spec

-----------------------------------------------------------------------------
(* The inductive invariant behind the properties: what a transaction knows *)
(* about the committed row it has locked.                                  *)

\* A transaction holds an execution exactly while it works on one.
TxPhases ==
  \A t \in Tasks :
    /\ tx[t].phase \in {"idle", "begun"} => tx[t].exec = None
    /\ tx[t].phase \in {"claimed", "prepared", "dispatched", "finished"} =>
         tx[t].exec \in Execs

\* The committed row under a lock is the one that was claimed: still open, due
\* at the transaction's now(), one attempt behind the uncommitted version.
ClaimedRow ==
  \A t \in Tasks :
    /\ tx[t].now <= clock
    /\ tx[t].exec # None =>
         /\ row[tx[t].exec].status \in Open
         /\ row[tx[t].exec].run_at <= tx[t].now
         /\ tx[t].row.attempt_count = row[tx[t].exec].attempt_count + 1
         /\ tx[t].row.max_attempts = row[tx[t].exec].max_attempts

\* What a transaction that may still commit has written, by phase.
TxOutcome ==
  \A t \in Tasks :
    LET x == tx[t] IN
    /\ x.phase = "begun" =>
         x.attempts = {} /\ x.result = "none" /\ ~x.aborted
    /\ x.phase \in {"claimed", "prepared", "dispatched"} =>
         x.row.status = "RUNNING" /\ x.attempts = {}
    /\ x.phase \in {"claimed", "prepared"} => x.result = "none"
    /\ x.phase = "dispatched" => x.result # "none"
    /\ x.result # "none" => x.exec # None
    /\ x.result = "success" => accepted[x.exec] >= 1
    /\ x.phase = "finished" /\ ~x.aborted =>
         /\ x.row.status \in {"RETRYING", "SUCCESS", "FAILED"}
         /\ (x.row.status = "SUCCESS") <=> (x.result = "success")
         /\ x.row.status = "RETRYING" =>
              x.row.attempt_count < x.row.max_attempts
         /\ \E c \in 0..clock : x.attempts =
              {[execution_id |-> x.exec,
                attempt_number |-> x.row.attempt_count,
                status |-> IF x.row.status = "SUCCESS" THEN "SUCCESS"
                                                       ELSE "FAILED",
                completed_at |-> c]}

\* A job exists as soon as its execution does.
JobHasRow == \A e \in Execs : job[e] = "ACTIVE" => row[e].status # "NONE"

\* DuplicatesArePaidFor, with what the transaction that holds e owes: a doomed
\* one that has not dispatched yet has paid for the dispatch in advance.
Ledger(e) ==
  LET paid == row[e].attempt_count + faults
      done == IF row[e].status = "SUCCESS" THEN 1 ELSE 0
  IN  /\ ~Locked(e) => /\ delivered[e] <= paid
                       /\ accepted[e] <= done + faults
      /\ \A t \in Tasks : tx[t].exec = e =>
           LET x == tx[t] IN
           /\ Doomed(x) /\ x.result = "none" =>
                delivered[e] + 1 <= paid /\ accepted[e] + 1 <= done + faults
           /\ (Doomed(x) <=> x.result # "none") =>
                delivered[e] <= paid /\ accepted[e] <= done + faults
           /\ ~Doomed(x) /\ x.result # "none" =>
                /\ delivered[e] <= paid + 1
                /\ accepted[e] <= done + faults
                                  + (IF x.result = "success" THEN 1 ELSE 0)

\* The inductive invariant: locks, claimed rows, uncommitted outcomes and the
\* delivery ledger agree with the committed tables.
IInv ==
  /\ TypeOK /\ TxPhases /\ RowLock /\ RunningInvisible
  /\ ClaimedRow /\ TxOutcome /\ AttemptBudget /\ AttemptLedger
  /\ SuccessIsAccepted /\ RetiredJobIsSettled /\ JobHasRow
  /\ \A e \in Execs : Ledger(e)
=============================================================================
