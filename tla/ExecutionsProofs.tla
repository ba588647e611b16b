-------------------------- MODULE ExecutionsProofs --------------------------
(***************************************************************************)
(* Proofs about the execution pipeline, for any number of executions,      *)
(* tasks, attempts, faults and any clock.                                  *)
(***************************************************************************)
EXTENDS Executions, TLAPS

-----------------------------------------------------------------------------
(* Types.                                                                  *)

(* Assigning one column of a row keeps it a row.  *)
LEMMA RowColumn ==
  ASSUME NEW r \in Row
  PROVE  /\ \A s \in Status : [r EXCEPT !.status = s] \in Row
         /\ \A n \in Nat : [r EXCEPT !.attempt_count = n] \in Row
         /\ \A n \in Int : [r EXCEPT !.max_attempts = n] \in Row
         /\ \A n \in Nat : [r EXCEPT !.run_at = n] \in Row
         /\ \A n \in Nat : [r EXCEPT !.started_at = n] \in Row
         /\ \A n \in Int : [r EXCEPT !.duration_ms = n] \in Row
  BY DEF Row

(* Assigning one field of a transaction keeps it a transaction. *)
LEMMA TxField ==
  ASSUME NEW x \in Tx
  PROVE  /\ \A p \in Phase : [x EXCEPT !.phase = p] \in Tx
         /\ \A e \in Execs : [x EXCEPT !.exec = e] \in Tx
         /\ \A n \in Nat : [x EXCEPT !.now = n] \in Tx
         /\ \A r \in Row : [x EXCEPT !.row = r] \in Tx
         /\ \A a \in SUBSET Attempt : [x EXCEPT !.attempts = a] \in Tx
         /\ [x EXCEPT !.aborted = TRUE] \in Tx
         /\ \A v \in {"none", "success", "failure"} :
              [x EXCEPT !.result = v] \in Tx
  BY DEF Tx

(* Moving a transaction to another phase changes nothing else. *)
LEMMA SetPhase ==
  ASSUME NEW x \in Tx, NEW p \in Phase
  PROVE  LET y == [x EXCEPT !.phase = p]
         IN  /\ y \in Tx /\ y.phase = p /\ y.exec = x.exec
             /\ y.now = x.now /\ y.row = x.row /\ y.attempts = x.attempts
             /\ y.aborted = x.aborted /\ y.result = x.result
  <1>1. [x EXCEPT !.phase = p] \in Tx
    BY TxField
  <1> QED
    BY <1>1 DEF Tx

(* The row operators of db/executions.rs return rows. *)
LEMMA RowTypes ==
  ASSUME NEW r \in Row, NEW now \in Nat, NEW b \in Nat
  PROVE  /\ claim(r, now) \in Row
         /\ complete_success(r, now) \in Row
         /\ complete_failed(r, now) \in Row
         /\ complete_retry(r, now, b) \in Row
         /\ cancelled(r) \in Row
  <1>1. /\ {"RUNNING", "SUCCESS", "FAILED", "RETRYING", "CANCELLED"} \subseteq Status
        /\ r.attempt_count + 1 \in Nat /\ now - r.started_at \in Int
        /\ now + b \in Nat /\ 0 \in Int
    BY DEF Status, Open, Terminal, Row
  <1>2. claim(r, now) \in Row
    BY <1>1, RowColumn DEF claim
  <1>3. complete_success(r, now) \in Row /\ complete_failed(r, now) \in Row
    BY <1>1, RowColumn DEF complete_success, complete_failed
  <1>4. complete_retry(r, now, b) \in Row
    BY <1>1, <1>3, RowColumn DEF complete_retry
  <1>5. cancelled(r) \in Row
    BY <1>1, RowColumn DEF cancelled
  <1> QED
    BY <1>2, <1>3, <1>4, <1>5

(* The rows and transactions that the model starts from have their types. *)
LEMMA FreshTypes ==
  /\ NoRow \in Row
  /\ IdleTx \in Tx
  /\ \A limit \in AttemptLimits, n \in Nat :
       /\ NewRow("QUEUED", limit, n) \in Row
       /\ NewRow("PENDING", limit, n) \in Row
  <1>1. NoRow \in Row
    BY DEF NoRow, Row, Status
  <1>2. IdleTx \in Tx
    BY <1>1 DEF IdleTx, Tx, Phase
  <1>3. ASSUME NEW limit \in AttemptLimits, NEW n \in Nat,
               NEW s \in {"QUEUED", "PENDING"}
        PROVE  NewRow(s, limit, n) \in Row
    <2>1. s \in Status /\ limit \in Int
      BY ConstantsAssumption DEF Status, Open
    <2> QED
      BY <1>1, <2>1, RowColumn DEF NewRow
  <1> QED
    BY <1>1, <1>2, <1>3

(* FinalRow, the row the pipeline writes after a dispatch, is a row, and so
   are the attempts it records. *)
LEMMA FinalTypes ==
  ASSUME NEW x \in Tx, x.exec \in Execs, clock \in Nat, NEW b \in Backoffs
  PROVE  /\ FinalRow(x, b) \in Row
         /\ complete_failed(x.row, x.now) \in Row
         /\ \A s \in {"SUCCESS", "FAILED"} :
              record_attempt(x, s) \in SUBSET Attempt
  <1>1. x.row \in Row /\ x.now \in Nat /\ b \in Nat
    BY ConstantsAssumption DEF Tx
  <1>2. FinalRow(x, b) \in Row /\ complete_failed(x.row, x.now) \in Row
    BY <1>1, RowTypes DEF FinalRow
  <1>3. ASSUME NEW s \in {"SUCCESS", "FAILED"}
        PROVE  record_attempt(x, s) \in SUBSET Attempt
    BY <1>1 DEF record_attempt, Attempt, Tx, Row
  <1> QED
    BY <1>2, <1>3

(* A step of [Next]_vars keeps the types and the phases of transactions. *)
LEMMA TypeStep ==
  ASSUME TypeOK, TxPhases, [Next]_vars
  PROVE  TypeOK' /\ TxPhases'
  <1> USE ConstantsAssumption DEF TypeOK, TxPhases
  <1>1. ASSUME NEW e \in Execs, Api(e) PROVE TypeOK' /\ TxPhases'
    <2>1. /\ \A limit \in AttemptLimits, n \in Nat :
               /\ NewRow("QUEUED", limit, n) \in Row
               /\ NewRow("PENDING", limit, n) \in Row
          /\ cancelled(row[e]) \in Row
          /\ 0..Horizon \subseteq Nat
      BY FreshTypes, RowTypes, 0 \in Nat
    <2> QED
      BY <1>1, <2>1
      DEF Api, create_immediate, create_delayed, cancel_execution, cancel_job,
          EffectUnchanged
  <1>2. ASSUME NEW t \in Tasks, NEW x \in Tx,
               tx' = [tx EXCEPT ![t] = x],
               x.phase \in {"idle", "begun"} => x.exec = None,
               x.phase \in {"claimed", "prepared", "dispatched", "finished"} =>
                 x.exec \in Execs
        PROVE  tx' \in [Tasks -> Tx] /\ TxPhases'
    BY <1>2
  <1>3. IdleTx \in Tx /\ IdleTx.phase = "idle" /\ IdleTx.exec = None
    BY FreshTypes DEF IdleTx
  <1>4. ASSUME NEW t \in Tasks, begin(t) PROVE TypeOK' /\ TxPhases'
    <2> DEFINE x == [IdleTx EXCEPT !.phase = "begun", !.now = clock]
    <2>1. x \in Tx /\ x.phase = "begun" /\ x.exec = None
      BY <1>3, TxField DEF Phase, IdleTx
    <2> HIDE DEF x
    <2>2. tx' = [tx EXCEPT ![t] = x]
      BY <1>4 DEF begin, x
    <2> QED
      BY <1>2, <1>4, <2>1, <2>2 DEF begin, TableUnchanged, EffectUnchanged
  <1>5. ASSUME NEW t \in Tasks, ClaimDue(t) PROVE TypeOK' /\ TxPhases'
    <2>1. PICK e \in Due(tx[t].now) :
            tx' = [tx EXCEPT ![t] = [tx[t] EXCEPT !.phase = "claimed",
                    !.exec = e, !.row = claim(row[e], tx[t].now)]]
      BY <1>5 DEF ClaimDue
    <2> DEFINE x == [tx[t] EXCEPT !.phase = "claimed", !.exec = e,
                                  !.row = claim(row[e], tx[t].now)]
    <2>2. claim(row[e], tx[t].now) \in Row /\ e \in Execs
      BY RowTypes DEF Due, Tx
    <2>3. x \in Tx /\ x.phase = "claimed" /\ x.exec = e
      <3> DEFINE y == [tx[t] EXCEPT !.phase = "claimed"]
                 z == [y EXCEPT !.exec = e]
      <3>1. y \in Tx
        BY TxField DEF Phase
      <3>2. z \in Tx
        BY <2>2, <3>1, TxField
      <3>3. [z EXCEPT !.row = claim(row[e], tx[t].now)] \in Tx
        BY <2>2, <3>2, TxField
      <3> QED
        BY <3>3 DEF Tx
    <2> HIDE DEF x
    <2>4. tx' = [tx EXCEPT ![t] = x]
      BY <2>1 DEF x
    <2> QED
      BY <1>2, <1>5, <2>2, <2>3, <2>4
      DEF ClaimDue, TableUnchanged, EffectUnchanged
  <1>6. ASSUME NEW t \in Tasks,
               ClaimNothing(t) \/ ClaimError(t) \/ CommitError(t)
                 \/ OrphanRollback(t)
        PROVE  TypeOK' /\ TxPhases'
    BY <1>2, <1>3, <1>6
    DEF ClaimNothing, ClaimError, CommitError, OrphanRollback, Rollback,
        Fault, TableUnchanged, EffectUnchanged
  <1>7. ASSUME NEW t \in Tasks, NEW p \in {"prepared", "finished", "orphan"},
               p = "orphan" \/ tx[t].exec \in Execs,
               \/ tx' = [tx EXCEPT ![t] = [tx[t] EXCEPT !.phase = p]]
               \/ tx' = [tx EXCEPT ![t] = [tx[t] EXCEPT !.phase = p,
                                                       !.aborted = TRUE]]
        PROVE  tx' \in [Tasks -> Tx] /\ TxPhases'
    <2> DEFINE x == [tx[t] EXCEPT !.phase = p]
               y == [x EXCEPT !.aborted = TRUE]
    <2>1. p \in Phase /\ tx[t] \in Tx
      BY DEF Phase
    <2>2. x \in Tx /\ x.phase = p /\ x.exec = tx[t].exec
      BY <2>1, SetPhase
    <2>3. y \in Tx /\ y.phase = p /\ y.exec = tx[t].exec
      BY <2>2, TxField, ZenonT(60) DEF Tx
    <2>4. tx' = [tx EXCEPT ![t] = x] \/ tx' = [tx EXCEPT ![t] = y]
      BY <1>7
    <2> HIDE DEF x, y
    <2> QED
      BY <1>2, <1>7, <2>2, <2>3, <2>4
  <1>8. ASSUME NEW t \in Tasks,
               \/ Prepare(t) \/ PrepareLogError(t) \/ LoadError(t)
               \/ FinalizeError(t) \/ Crash(t)
        PROVE  TypeOK' /\ TxPhases'
    <2>1. tx' \in [Tasks -> Tx] /\ TxPhases'
      BY <1>7, <1>8
      DEF Prepare, PrepareLogError, LoadError, FinalizeError, Crash
    <2> QED
      BY <1>8, <2>1
      DEF Prepare, PrepareLogError, LoadError, FinalizeError, Crash,
          Fault, TableUnchanged, EffectUnchanged
  <1>9. ASSUME NEW t \in Tasks, Dispatch(t) PROVE TypeOK' /\ TxPhases'
    <2>1. PICK result \in {"success", "failure"}, reached \in BOOLEAN :
            /\ tx' = [tx EXCEPT ![t] = [tx[t] EXCEPT !.phase = "dispatched",
                                                    !.result = result]]
            /\ delivered' = [delivered EXCEPT ![tx[t].exec] =
                 IF reached THEN delivered[tx[t].exec] + 1
                            ELSE delivered[tx[t].exec]]
            /\ accepted' = [accepted EXCEPT ![tx[t].exec] =
                 IF result = "success" THEN accepted[tx[t].exec] + 1
                                       ELSE accepted[tx[t].exec]]
      BY <1>9 DEF Dispatch
    <2> DEFINE x == [tx[t] EXCEPT !.phase = "dispatched"]
               y == [x EXCEPT !.result = result]
    <2>2. tx[t].exec \in Execs
      BY <1>9 DEF Dispatch
    <2>3. x \in Tx /\ x.phase = "dispatched" /\ x.exec = tx[t].exec
      BY SetPhase DEF Phase
    <2>4. y \in Tx /\ y.phase = "dispatched" /\ y.exec = tx[t].exec
      BY <2>3, TxField, ZenonT(60) DEF Tx
    <2>5. tx' = [tx EXCEPT ![t] = y]
      BY <2>1
    <2> HIDE DEF x, y
    <2>6. tx' \in [Tasks -> Tx] /\ TxPhases'
      BY <1>2, <2>2, <2>4, <2>5
    <2> QED
      BY <1>9, <2>1, <2>2, <2>6 DEF Dispatch, TableUnchanged
  <1>10. ASSUME NEW t \in Tasks, NEW r \in Row, NEW s \in {"SUCCESS", "FAILED"},
                tx[t].exec \in Execs,
                \/ tx' = [tx EXCEPT ![t] = [tx[t] EXCEPT !.phase = "finished",
                                                        !.aborted = TRUE]]
                \/ tx' = [tx EXCEPT ![t] = [tx[t] EXCEPT !.phase = "finished",
                            !.row = r, !.attempts = record_attempt(tx[t], s)]]
         PROVE  tx' \in [Tasks -> Tx] /\ TxPhases'
    <2>1. CASE tx' = [tx EXCEPT ![t] = [tx[t] EXCEPT !.phase = "finished",
                                                     !.aborted = TRUE]]
      BY <1>7, <1>10, <2>1
    <2>2. CASE tx' = [tx EXCEPT ![t] = [tx[t] EXCEPT !.phase = "finished",
                       !.row = r, !.attempts = record_attempt(tx[t], s)]]
      <3> DEFINE x == [tx[t] EXCEPT !.phase = "finished"]
                 y == [x EXCEPT !.row = r]
                 z == [y EXCEPT !.attempts = record_attempt(tx[t], s)]
      <3>1. record_attempt(tx[t], s) \in SUBSET Attempt
        BY <1>10, FinalTypes
      <3>2. x \in Tx /\ x.phase = "finished" /\ x.exec = tx[t].exec
        BY SetPhase DEF Phase
      <3>3. y \in Tx /\ y.phase = "finished" /\ y.exec = tx[t].exec
        BY <3>2, TxField, ZenonT(60) DEF Tx
      <3>4. z \in Tx /\ z.phase = "finished" /\ z.exec = tx[t].exec
        BY <3>1, <3>3, TxField, ZenonT(60) DEF Tx
      <3>5. tx' = [tx EXCEPT ![t] = z]
        BY <2>2
      <3> HIDE DEF z
      <3> QED
        BY <1>2, <1>10, <3>4, <3>5
    <2> QED
      BY <1>10, <2>1, <2>2
  <1>11. ASSUME NEW t \in Tasks, ResolutionFails(t) \/ Finalize(t)
         PROVE  TypeOK' /\ TxPhases'
    <2>1. tx[t].exec \in Execs /\ tx[t] \in Tx
      BY <1>11 DEF ResolutionFails, Finalize
    <2>2. /\ complete_failed(tx[t].row, tx[t].now) \in Row
          /\ \A b \in Backoffs : FinalRow(tx[t], b) \in Row
          /\ AttemptStatus(tx[t]) \in {"SUCCESS", "FAILED"}
      BY <2>1, FinalTypes DEF AttemptStatus
    <2>3. tx' \in [Tasks -> Tx] /\ TxPhases'
      BY <1>10, <1>11, <2>1, <2>2 DEF ResolutionFails, Finalize
    <2> QED
      BY <1>11, <2>3
      DEF ResolutionFails, Finalize, TableUnchanged, EffectUnchanged
  <1>12. ASSUME NEW t \in Tasks, Commit(t) PROVE TypeOK' /\ TxPhases'
    <2>1. tx' \in [Tasks -> Tx] /\ TxPhases'
      BY <1>2, <1>3, <1>12 DEF Commit, Rollback
    <2>2. tx[t].row \in Row /\ tx[t].attempts \subseteq Attempt
      BY DEF Tx
    <2> QED
      BY <1>12, <2>1, <2>2 DEF Commit, EffectUnchanged
  <1>13. CASE Tick
    BY <1>13 DEF Tick, TableUnchanged, EffectUnchanged
  <1>14. CASE UNCHANGED vars
    BY <1>14 DEF vars
  <1> QED
    BY <1>1, <1>4, <1>5, <1>6, <1>8, <1>9, <1>11, <1>12, <1>13, <1>14
    DEF Next, Pipeline, Failure

(* Type correctness of the pipeline's state: executions, attempts, jobs and
   transactions of poller.rs and pipeline.rs. *)
THEOREM TypeCorrect == Spec => [](TypeOK /\ TxPhases)
  <1>1. Init => TypeOK /\ TxPhases
    BY FreshTypes DEF Init, TypeOK, TxPhases, IdleTx
  <1> QED
    BY <1>1, TypeStep, PTL DEF Spec
-----------------------------------------------------------------------------
(* What each step does, field by field.  The invariants below are proved   *)
(* from these effects, which several actions share.                        *)

Others(t) == \A u \in Tasks : u # t => tx'[u] = tx[u]

Apart(e) == \A f \in Execs : f # e => row'[f] = row[f] /\ job'[f] = job[f]

SameWork(t) ==
  /\ tx'[t].exec = tx[t].exec /\ tx'[t].now = tx[t].now
  /\ tx'[t].row = tx[t].row /\ tx'[t].attempts = tx[t].attempts

\* A job and its execution are inserted.
Submits(e) ==
  /\ row[e].status = "NONE"
  /\ row'[e].status \in Cancellable /\ row'[e].attempt_count = 0
  /\ job'[e] = "ACTIVE"
  /\ Apart(e)
  /\ UNCHANGED <<attempts, tx, clock, delivered, accepted, faults>>

\* The execution, its job or both are cancelled.
Cancels(e) ==
  /\ \/ /\ row[e].status \in Cancellable /\ ~Locked(e)
        /\ row'[e].status = "CANCELLED"
        /\ row'[e].attempt_count = row[e].attempt_count
        /\ row'[e].max_attempts = row[e].max_attempts
        /\ job'[e] \in {job[e], "RETIRED"}
     \/ /\ row'[e] = row[e] /\ row[e].status \notin Cancellable
        /\ job[e] = "ACTIVE" /\ job'[e] = "RETIRED"
  /\ Apart(e)
  /\ UNCHANGED <<attempts, tx, clock, delivered, accepted, faults>>

Begins(t) ==
  /\ tx[t].phase = "idle" /\ tx'[t].phase = "begun"
  /\ tx'[t].exec = None /\ tx'[t].now = clock /\ tx'[t].attempts = {}
  /\ tx'[t].result = "none" /\ tx'[t].aborted = FALSE
  /\ Others(t)
  /\ UNCHANGED <<row, attempts, job, clock, delivered, accepted, faults>>

Claims(t, e) ==
  /\ tx[t].phase = "begun" /\ tx'[t].phase = "claimed"
  /\ row[e].status \in Open /\ row[e].run_at <= tx[t].now /\ ~Locked(e)
  /\ tx'[t].exec = e /\ tx'[t].now = tx[t].now
  /\ tx'[t].row.status = "RUNNING"
  /\ tx'[t].row.attempt_count = row[e].attempt_count + 1
  /\ tx'[t].row.max_attempts = row[e].max_attempts
  /\ tx'[t].attempts = tx[t].attempts /\ tx'[t].result = tx[t].result
  /\ tx'[t].aborted = tx[t].aborted
  /\ Others(t)
  /\ UNCHANGED <<row, attempts, job, clock, delivered, accepted, faults>>

\* The transaction moves on without writing; a fault may doom it.
Moves(t) ==
  /\ SameWork(t) /\ tx'[t].result = tx[t].result
  /\ \/ /\ tx[t].phase = "claimed" /\ tx'[t].phase = "prepared"
        /\ tx'[t].aborted = tx[t].aborted /\ faults' = faults
     \/ /\ tx[t].phase = "claimed" /\ tx'[t].phase = "prepared"
        /\ tx'[t].aborted = TRUE /\ faults' = faults + 1
     \/ /\ tx[t].phase \in {"claimed", "dispatched"}
        /\ tx'[t].phase = "finished"
        /\ tx'[t].aborted = TRUE /\ faults' = faults + 1
     \/ /\ tx[t].phase \notin {"idle", "orphan"} /\ tx'[t].phase = "orphan"
        /\ tx'[t].aborted = tx[t].aborted /\ faults' = faults + 1
  /\ Others(t)
  /\ UNCHANGED <<row, attempts, job, clock, delivered, accepted>>

Sends(t) ==
  LET e == tx[t].exec IN
  /\ tx[t].phase = "prepared" /\ tx'[t].phase = "dispatched"
  /\ SameWork(t) /\ tx'[t].aborted = tx[t].aborted
  /\ \/ /\ tx'[t].result = "success"
        /\ delivered'[e] = delivered[e] + 1 /\ accepted'[e] = accepted[e] + 1
     \/ /\ tx'[t].result = "failure"
        /\ delivered'[e] \in {delivered[e], delivered[e] + 1}
        /\ accepted'[e] = accepted[e]
  /\ \A f \in Execs : f # e => /\ delivered'[f] = delivered[f]
                               /\ accepted'[f] = accepted[f]
  /\ Others(t)
  /\ UNCHANGED <<row, attempts, job, clock, faults>>

\* The outcome is written, unless a failed statement has aborted it.
Writes(t) ==
  /\ tx[t].phase \in {"claimed", "dispatched"} /\ tx'[t].phase = "finished"
  /\ tx'[t].exec = tx[t].exec /\ tx'[t].now = tx[t].now
  /\ tx'[t].result = tx[t].result
  /\ tx'[t].row.attempt_count = tx[t].row.attempt_count
  /\ tx'[t].row.max_attempts = tx[t].row.max_attempts
  /\ \/ /\ tx'[t].aborted = TRUE
        /\ tx[t].aborted \/ DuplicateAttempt(tx[t])
     \/ /\ tx'[t].aborted = tx[t].aborted
        /\ tx'[t].row.status \in {"RETRYING", "SUCCESS", "FAILED"}
        /\ (tx'[t].row.status = "SUCCESS") <=>
             (tx[t].phase = "dispatched" /\ tx[t].result = "success")
        /\ tx'[t].row.status = "RETRYING" =>
             tx[t].row.attempt_count < tx[t].row.max_attempts
        /\ tx'[t].attempts = tx[t].attempts \cup
             {[execution_id |-> tx[t].exec,
               attempt_number |-> tx[t].row.attempt_count,
               status |-> IF tx'[t].row.status = "SUCCESS" THEN "SUCCESS"
                                                           ELSE "FAILED",
               completed_at |-> clock]}
  /\ Others(t)
  /\ UNCHANGED <<row, attempts, job, clock, delivered, accepted, faults>>

\* The lock is released and nothing is written.
Releases(t) ==
  /\ tx'[t] = IdleTx /\ Others(t)
  /\ \/ faults' = faults /\ (Doomed(tx[t]) \/ tx[t].exec = None)
     \/ faults' = faults + 1
  /\ UNCHANGED <<row, attempts, job, clock, delivered, accepted>>

Commits(t) ==
  LET e == tx[t].exec IN
  /\ tx[t].phase = "finished" /\ ~tx[t].aborted
  /\ tx'[t] = IdleTx /\ Others(t)
  /\ row'[e] = tx[t].row /\ \A f \in Execs : f # e => row'[f] = row[f]
  /\ attempts' = attempts \cup tx[t].attempts
  /\ UNCHANGED <<job, clock, delivered, accepted, faults>>

Ticks ==
  /\ clock' = clock + 1
  /\ UNCHANGED <<row, attempts, job, tx, delivered, accepted, faults>>

Effect ==
  \/ \E e \in Execs : Submits(e) \/ Cancels(e)
  \/ \E t \in Tasks, e \in Execs : Claims(t, e)
  \/ \E t \in Tasks : \/ Begins(t) \/ Moves(t) \/ Sends(t) \/ Writes(t)
                       \/ Releases(t) \/ Commits(t)
  \/ Ticks
  \/ UNCHANGED vars
(* Fields of the rows that the operators of db/executions.rs write. *)
LEMMA RowFacts ==
  ASSUME NEW r \in Row, NEW now \in Nat
  PROVE  /\ claim(r, now).status = "RUNNING"
         /\ claim(r, now).attempt_count = r.attempt_count + 1
         /\ claim(r, now).max_attempts = r.max_attempts
         /\ complete_success(r, now).status = "SUCCESS"
         /\ complete_success(r, now).attempt_count = r.attempt_count
         /\ complete_success(r, now).max_attempts = r.max_attempts
         /\ complete_failed(r, now).status = "FAILED"
         /\ complete_failed(r, now).attempt_count = r.attempt_count
         /\ complete_failed(r, now).max_attempts = r.max_attempts
         /\ cancelled(r).status = "CANCELLED"
         /\ cancelled(r).attempt_count = r.attempt_count
         /\ cancelled(r).max_attempts = r.max_attempts
  BY DEF Row, claim, complete_success, complete_failed, cancelled

(* A failed attempt that may be retried is RETRYING exactly when attempts are
   left: complete_retry checks what the pipeline has checked. *)
LEMMA RetryFacts ==
  ASSUME NEW r \in Row, NEW now \in Nat, NEW b \in Nat
  PROVE  /\ complete_retry(r, now, b).status =
              IF r.attempt_count >= r.max_attempts THEN "FAILED" ELSE "RETRYING"
         /\ complete_retry(r, now, b).attempt_count = r.attempt_count
         /\ complete_retry(r, now, b).max_attempts = r.max_attempts
  <1>1. CASE r.attempt_count >= r.max_attempts
    BY <1>1, RowFacts DEF complete_retry
  <1>2. CASE ~(r.attempt_count >= r.max_attempts)
    BY <1>2 DEF complete_retry, Row
  <1> QED
    BY <1>1, <1>2

LEMMA FinalFacts ==
  ASSUME NEW x \in Tx, NEW b \in Backoffs
  PROVE  LET r == FinalRow(x, b) IN
         /\ r.status \in {"RETRYING", "SUCCESS", "FAILED"}
         /\ (r.status = "SUCCESS") <=> (x.result = "success")
         /\ r.status = "RETRYING" => x.row.attempt_count < x.row.max_attempts
         /\ r.attempt_count = x.row.attempt_count
         /\ r.max_attempts = x.row.max_attempts
  <1>1. /\ x.row \in Row /\ x.now \in Nat /\ b \in Nat
        /\ x.row.attempt_count \in Int /\ x.row.max_attempts \in Int
    BY ConstantsAssumption DEF Tx, Row
  <1> QED
    BY <1>1, RowFacts, RetryFacts DEF FinalRow

(* Every step of the specification has one of these effects. *)
LEMMA StepHasEffect ==
  ASSUME TypeOK, TxPhases, [Next]_vars
  PROVE  Effect
  <1> USE DEF TypeOK
  <1>1. ASSUME NEW e \in Execs, Api(e) PROVE Submits(e) \/ Cancels(e)
    <2>1. ASSUME NEW limit \in AttemptLimits, NEW n \in Nat,
                 NEW s \in Cancellable
          PROVE  /\ NewRow(s, limit, n).status = s
                 /\ NewRow(s, limit, n).attempt_count = 0
      BY DEF NewRow, NoRow
    <2>2. /\ cancelled(row[e]).status = "CANCELLED"
          /\ cancelled(row[e]).attempt_count = row[e].attempt_count
          /\ cancelled(row[e]).max_attempts = row[e].max_attempts
      BY RowFacts, 0 \in Nat
    <2>3. CASE \E limit \in AttemptLimits : create_immediate(e, limit)
      BY <2>1, <2>3
      DEF create_immediate, Submits, Apart, EffectUnchanged, Cancellable
    <2>4. CASE \E limit \in AttemptLimits, run_at \in 0..Horizon :
                 create_delayed(e, limit, run_at)
      BY <2>1, <2>4, ConstantsAssumption
      DEF create_delayed, Submits, Apart, EffectUnchanged, Cancellable
    <2>5. CASE cancel_execution(e)
      BY <2>2, <2>5 DEF cancel_execution, Cancels, Apart, EffectUnchanged
    <2>6. CASE cancel_job(e)
      BY <2>2, <2>6 DEF cancel_job, Cancels, Apart, EffectUnchanged
    <2> QED
      BY <1>1, <2>3, <2>4, <2>5, <2>6 DEF Api
  <1>2. ASSUME NEW t \in Tasks, begin(t) PROVE Begins(t)
    BY <1>2 DEF begin, Begins, Others, IdleTx, TableUnchanged, EffectUnchanged
  <1>3. ASSUME NEW t \in Tasks, ClaimDue(t) PROVE \E e \in Execs : Claims(t, e)
    <2>1. PICK e \in Due(tx[t].now) :
            tx' = [tx EXCEPT ![t] = [tx[t] EXCEPT !.phase = "claimed",
                    !.exec = e, !.row = claim(row[e], tx[t].now)]]
      BY <1>3 DEF ClaimDue
    <2>2. e \in Execs /\ row[e] \in Row /\ tx[t].now \in Nat
      BY DEF Due, Tx
    <2> DEFINE r == claim(row[e], tx[t].now)
    <2>3. /\ r.status = "RUNNING" /\ r.attempt_count = row[e].attempt_count + 1
          /\ r.max_attempts = row[e].max_attempts
      BY <2>2, RowFacts
    <2> HIDE DEF r
    <2>4. tx' = [tx EXCEPT ![t] = [tx[t] EXCEPT !.phase = "claimed",
                                                !.exec = e, !.row = r]]
      BY <2>1 DEF r
    <2>5. /\ tx'[t].phase = "claimed" /\ tx'[t].exec = e /\ tx'[t].row = r
          /\ tx'[t].now = tx[t].now /\ tx'[t].attempts = tx[t].attempts
          /\ tx'[t].result = tx[t].result /\ tx'[t].aborted = tx[t].aborted
          /\ Others(t)
      BY <2>4 DEF Tx, Others
    <2>6. row[e].status \in Open /\ row[e].run_at <= tx[t].now /\ ~Locked(e)
      BY DEF Due
    <2>7. Claims(t, e)
      BY <1>3, <2>3, <2>5, <2>6
      DEF ClaimDue, Claims, TableUnchanged, EffectUnchanged
    <2> QED
      BY <2>2, <2>7
  <1>4. ASSUME NEW t \in Tasks,
               \/ Prepare(t) \/ PrepareLogError(t) \/ LoadError(t)
               \/ FinalizeError(t) \/ Crash(t)
        PROVE  Moves(t)
    <2> USE DEF Moves, TableUnchanged, EffectUnchanged
    <2>1. ASSUME NEW p \in Phase, tx' = [tx EXCEPT ![t] = [tx[t] EXCEPT !.phase = p]]
          PROVE  /\ SameWork(t) /\ Others(t) /\ tx'[t].result = tx[t].result
                 /\ tx'[t].phase = p /\ tx'[t].aborted = tx[t].aborted
      BY <2>1 DEF SameWork, Others, Tx
    <2>2. ASSUME NEW p \in Phase,
                 tx' = [tx EXCEPT ![t] = [tx[t] EXCEPT !.phase = p,
                                                       !.aborted = TRUE]]
          PROVE  /\ SameWork(t) /\ Others(t) /\ tx'[t].result = tx[t].result
                 /\ tx'[t].phase = p /\ tx'[t].aborted = TRUE
      BY <2>2 DEF SameWork, Others, Tx
    <2>3. {"prepared", "finished", "orphan"} \subseteq Phase
      BY DEF Phase
    <2>4. CASE Prepare(t)
      BY <2>1, <2>3, <2>4 DEF Prepare
    <2>5. CASE PrepareLogError(t)
      BY <2>2, <2>3, <2>5 DEF PrepareLogError, Fault
    <2>6. CASE LoadError(t)
      BY <2>2, <2>3, <2>6 DEF LoadError, Fault
    <2>7. CASE FinalizeError(t)
      BY <2>2, <2>3, <2>7 DEF FinalizeError, Fault
    <2>8. CASE Crash(t)
      BY <2>1, <2>3, <2>8 DEF Crash, Fault
    <2> QED
      BY <1>4, <2>4, <2>5, <2>6, <2>7, <2>8
  <1>5. ASSUME NEW t \in Tasks, Dispatch(t) PROVE Sends(t)
    <2>1. tx[t].exec \in Execs
      BY <1>5 DEF Dispatch, TxPhases
    <2> QED
      BY <1>5, <2>1
      DEF Dispatch, Sends, SameWork, Others, Tx, TableUnchanged
  <1>6. ASSUME NEW t \in Tasks, NEW r \in Row, NEW s \in {"SUCCESS", "FAILED"},
               tx' = [tx EXCEPT ![t] = [tx[t] EXCEPT !.phase = "finished",
                        !.row = r, !.attempts = record_attempt(tx[t], s)]]
        PROVE  /\ tx'[t].phase = "finished" /\ tx'[t].exec = tx[t].exec
               /\ tx'[t].now = tx[t].now /\ tx'[t].result = tx[t].result
               /\ tx'[t].row = r /\ tx'[t].aborted = tx[t].aborted
               /\ tx'[t].attempts = tx[t].attempts \cup
                    {[execution_id |-> tx[t].exec,
                      attempt_number |-> tx[t].row.attempt_count,
                      status |-> s, completed_at |-> clock]}
               /\ Others(t)
    BY <1>6 DEF Tx, Others, record_attempt
  <1>7. ASSUME NEW t \in Tasks,
               tx' = [tx EXCEPT ![t] = [tx[t] EXCEPT !.phase = "finished",
                                                     !.aborted = TRUE]]
        PROVE  /\ tx'[t].phase = "finished" /\ tx'[t].exec = tx[t].exec
               /\ tx'[t].now = tx[t].now /\ tx'[t].result = tx[t].result
               /\ tx'[t].row = tx[t].row /\ tx'[t].aborted = TRUE
               /\ Others(t)
    BY <1>7 DEF Tx, Others
  <1>8. ASSUME NEW t \in Tasks, ResolutionFails(t) PROVE Writes(t)
    <2> DEFINE r == complete_failed(tx[t].row, tx[t].now)
    <2>1. /\ r \in Row /\ r.status = "FAILED"
          /\ r.attempt_count = tx[t].row.attempt_count
          /\ r.max_attempts = tx[t].row.max_attempts
      BY RowFacts, RowTypes, 0 \in Nat DEF Tx
    <2>2. \/ /\ DuplicateAttempt(tx[t])
             /\ tx' = [tx EXCEPT ![t] = [tx[t] EXCEPT !.phase = "finished",
                                                     !.aborted = TRUE]]
          \/ tx' = [tx EXCEPT ![t] = [tx[t] EXCEPT !.phase = "finished",
                     !.row = r, !.attempts = record_attempt(tx[t], "FAILED")]]
      BY <1>8 DEF ResolutionFails
    <2> HIDE DEF r
    <2>3. /\ tx[t].phase = "claimed"
          /\ UNCHANGED <<row, attempts, job, clock, delivered, accepted, faults>>
      BY <1>8 DEF ResolutionFails, TableUnchanged, EffectUnchanged
    <2> QED
      BY <1>6, <1>7, <2>1, <2>2, <2>3, ZenonT(60) DEF Writes
  <1>9. ASSUME NEW t \in Tasks, Finalize(t) PROVE Writes(t)
    <2>1. PICK b \in Backoffs :
            \/ /\ tx[t].aborted \/ DuplicateAttempt(tx[t])
               /\ tx' = [tx EXCEPT ![t] = [tx[t] EXCEPT !.phase = "finished",
                                                       !.aborted = TRUE]]
            \/ tx' = [tx EXCEPT ![t] = [tx[t] EXCEPT !.phase = "finished",
                       !.row = FinalRow(tx[t], b),
                       !.attempts = record_attempt(tx[t], AttemptStatus(tx[t]))]]
      BY <1>9 DEF Finalize
    <2> DEFINE r == FinalRow(tx[t], b)
               s == AttemptStatus(tx[t])
    <2>2. /\ tx[t] \in Tx /\ tx[t].phase = "dispatched" /\ tx[t].exec \in Execs
          /\ UNCHANGED <<row, attempts, job, clock, delivered, accepted, faults>>
      BY <1>9 DEF Finalize, TableUnchanged, EffectUnchanged, TxPhases
    <2>3. /\ r \in Row /\ s \in {"SUCCESS", "FAILED"}
          /\ r.status \in {"RETRYING", "SUCCESS", "FAILED"}
          /\ (r.status = "SUCCESS") <=> (tx[t].result = "success")
          /\ s = IF r.status = "SUCCESS" THEN "SUCCESS" ELSE "FAILED"
          /\ r.status = "RETRYING" =>
               tx[t].row.attempt_count < tx[t].row.max_attempts
          /\ r.attempt_count = tx[t].row.attempt_count
          /\ r.max_attempts = tx[t].row.max_attempts
      BY <2>2, FinalFacts, FinalTypes DEF AttemptStatus
    <2> HIDE DEF r, s
    <2>4. \/ /\ tx[t].aborted \/ DuplicateAttempt(tx[t])
             /\ tx' = [tx EXCEPT ![t] = [tx[t] EXCEPT !.phase = "finished",
                                                     !.aborted = TRUE]]
          \/ tx' = [tx EXCEPT ![t] = [tx[t] EXCEPT !.phase = "finished",
                     !.row = r, !.attempts = record_attempt(tx[t], s)]]
      BY <2>1 DEF r, s
    <2>5. CASE /\ tx[t].aborted \/ DuplicateAttempt(tx[t])
               /\ tx' = [tx EXCEPT ![t] = [tx[t] EXCEPT !.phase = "finished",
                                                       !.aborted = TRUE]]
      BY <1>7, <2>2, <2>5 DEF Writes
    <2>6. CASE tx' = [tx EXCEPT ![t] = [tx[t] EXCEPT !.phase = "finished",
                       !.row = r, !.attempts = record_attempt(tx[t], s)]]
      <3>1. /\ tx'[t].phase = "finished" /\ tx'[t].exec = tx[t].exec
            /\ tx'[t].now = tx[t].now /\ tx'[t].result = tx[t].result
            /\ tx'[t].row = r /\ tx'[t].aborted = tx[t].aborted
            /\ tx'[t].attempts = tx[t].attempts \cup
                 {[execution_id |-> tx[t].exec,
                   attempt_number |-> tx[t].row.attempt_count,
                   status |-> s, completed_at |-> clock]}
            /\ Others(t)
        BY <1>6, <2>3, <2>6
      <3> QED
        BY <2>2, <2>3, <3>1 DEF Writes
    <2> QED
      BY <2>4, <2>5, <2>6
  <1>10. ASSUME NEW t \in Tasks,
                \/ ClaimNothing(t) \/ ClaimError(t) \/ CommitError(t)
                \/ OrphanRollback(t)
         PROVE  Releases(t)
    <2>1. tx'[t] = IdleTx /\ Others(t)
      BY <1>10 DEF ClaimNothing, ClaimError, CommitError, OrphanRollback,
                   Rollback, Others
    <2> QED
      BY <1>10, <2>1
      DEF ClaimNothing, ClaimError, CommitError, OrphanRollback, Releases,
          TxPhases, Doomed, Fault, TableUnchanged, EffectUnchanged
  <1>11. ASSUME NEW t \in Tasks, Commit(t) PROVE Releases(t) \/ Commits(t)
    <2>1. tx'[t] = IdleTx /\ Others(t) /\ tx[t].exec \in Execs
      BY <1>11 DEF Commit, Rollback, Others, TxPhases
    <2> QED
      BY <1>11, <2>1
      DEF Commit, Releases, Commits, Doomed, EffectUnchanged
  <1>12. ASSUME Tick PROVE Ticks
    BY <1>12 DEF Tick, Ticks, TableUnchanged, EffectUnchanged
  <1> QED
    BY <1>1, <1>2, <1>3, <1>4, <1>5, <1>8, <1>9, <1>10, <1>11, <1>12
    DEF Next, Pipeline, Failure, Effect
-----------------------------------------------------------------------------
(* Each conjunct of the inductive invariant is preserved.                  *)

(* Row locks stay exclusive: only Claims takes one, and only a free one. *)
LEMMA LockStep ==
  ASSUME TypeOK, TxPhases, RowLock, Effect
  PROVE  RowLock'
  <1> USE ConstantsAssumption DEF RowLock
  <1>1. ASSUME NEW t \in Tasks, NEW e \in Execs, Claims(t, e) PROVE RowLock'
    BY <1>1 DEF Claims, Others, Locked
  <1>2. ASSUME NEW t \in Tasks, Others(t),
               tx'[t].exec = tx[t].exec \/ tx'[t].exec = None
        PROVE  RowLock'
    BY <1>2 DEF Others
  <1>3. ASSUME NEW t \in Tasks,
               \/ Begins(t) \/ Moves(t) \/ Sends(t) \/ Writes(t)
               \/ Releases(t) \/ Commits(t)
        PROVE  RowLock'
    BY <1>2, <1>3
    DEF Begins, Moves, Sends, Writes, Releases, Commits, SameWork, IdleTx
  <1>4. CASE tx' = tx
    BY <1>4
  <1> QED
    BY <1>1, <1>3, <1>4 DEF Effect, Submits, Cancels, Ticks, vars

(* RUNNING is never committed. *)
LEMMA InvisibleStep ==
  ASSUME TypeOK, TxPhases, TxOutcome, RunningInvisible, Effect
  PROVE  RunningInvisible'
  <1> USE DEF RunningInvisible
  <1>1. ASSUME NEW e \in Execs, Submits(e) \/ Cancels(e) PROVE RunningInvisible'
    BY <1>1 DEF Submits, Cancels, Apart, Cancellable
  <1>2. ASSUME NEW t \in Tasks, Commits(t) PROVE RunningInvisible'
    BY <1>2 DEF Commits, TxOutcome
  <1>3. CASE row' = row
    BY <1>3
  <1> QED
    BY <1>1, <1>2, <1>3
    DEF Effect, Claims, Begins, Moves, Sends, Writes, Releases, Ticks, vars

(* The committed row under a lock does not change under its holder. *)
LEMMA ClaimedStep ==
  ASSUME TypeOK, TypeOK', TxPhases, TxPhases', RowLock, RowLock', ClaimedRow,
         Effect
  PROVE  ClaimedRow'
  <1> USE ConstantsAssumption DEF ClaimedRow
  <1>1. ASSUME NEW e \in Execs, Submits(e) \/ Cancels(e) PROVE ClaimedRow'
    <2> SUFFICES ASSUME NEW t \in Tasks, tx[t].exec # None
                 PROVE  row'[tx[t].exec] = row[tx[t].exec]
      BY <1>1 DEF Submits, Cancels
    <2>1. tx[t].exec \in Execs /\ row[tx[t].exec].status \in Open
      BY DEF TypeOK, Tx
    <2> QED
      BY <1>1, <2>1 DEF Submits, Cancels, Apart, Locked, Open
  <1>2. ASSUME NEW t \in Tasks, NEW e \in Execs, Claims(t, e) PROVE ClaimedRow'
    BY <1>2 DEF Claims, Others
  <1>3. ASSUME NEW t \in Tasks,
               Begins(t) \/ Moves(t) \/ Sends(t) \/ Writes(t)
        PROVE  ClaimedRow'
    BY <1>3 DEF Begins, Moves, Sends, Writes, SameWork, Others, TypeOK
  <1>4. ASSUME NEW t \in Tasks, Releases(t) PROVE ClaimedRow'
    BY <1>4 DEF Releases, Others, IdleTx, TypeOK
  <1>5. ASSUME NEW t \in Tasks, Commits(t) PROVE ClaimedRow'
    <2>1. tx[t].exec \in Execs
      BY <1>5 DEF Commits, TxPhases
    <2> SUFFICES ASSUME NEW u \in Tasks
                 PROVE  /\ tx'[u].now <= clock
                        /\ tx'[u].exec # None =>
                             /\ u # t /\ tx'[u] = tx[u]
                             /\ row'[tx[u].exec] = row[tx[u].exec]
      BY <1>5 DEF Commits
    <2>2. CASE u = t
      BY <1>5, <2>2 DEF Commits, IdleTx, TypeOK
    <2>3. CASE u # t
      <3>1. tx'[u] = tx[u] /\ tx[u].exec \in Execs \cup {None}
        BY <1>5, <2>3 DEF Commits, Others, TypeOK, Tx
      <3>2. tx[u].exec # None => tx[u].exec # tx[t].exec
        BY <2>1, <2>3 DEF RowLock
      <3> QED
        BY <1>5, <2>3, <3>1, <3>2 DEF Commits
    <2> QED
      BY <2>2, <2>3
  <1>6. CASE Ticks
    BY <1>6 DEF Ticks, TypeOK, Tx
  <1>7. CASE UNCHANGED vars
    BY <1>7 DEF vars
  <1> QED
    BY <1>1, <1>2, <1>3, <1>4, <1>5, <1>6, <1>7 DEF Effect
(* Abbreviation: what TxOutcome says of one transaction x, with the clock and
   the history variable it refers to. *)
OutcomeOf(x, now, acc) ==
  /\ x.phase = "begun" =>
       x.attempts = {} /\ x.result = "none" /\ ~x.aborted
  /\ x.phase \in {"claimed", "prepared", "dispatched"} =>
       x.row.status = "RUNNING" /\ x.attempts = {}
  /\ x.phase \in {"claimed", "prepared"} => x.result = "none"
  /\ x.phase = "dispatched" => x.result # "none"
  /\ x.result # "none" => x.exec # None
  /\ x.result = "success" => acc[x.exec] >= 1
  /\ x.phase = "finished" /\ ~x.aborted =>
       /\ x.row.status \in {"RETRYING", "SUCCESS", "FAILED"}
       /\ (x.row.status = "SUCCESS") <=> (x.result = "success")
       /\ x.row.status = "RETRYING" =>
            x.row.attempt_count < x.row.max_attempts
       /\ \E c \in 0..now : x.attempts =
            {[execution_id |-> x.exec,
              attempt_number |-> x.row.attempt_count,
              status |-> IF x.row.status = "SUCCESS" THEN "SUCCESS"
                                                     ELSE "FAILED",
              completed_at |-> c]}

(* What a transaction has written agrees with its phase after every step. *)
LEMMA OutcomeStep ==
  ASSUME TypeOK, TypeOK', TxPhases, TxOutcome, Effect
  PROVE  TxOutcome'
  <1>1. \A t \in Tasks : OutcomeOf(tx[t], clock, accepted)
    BY DEF TxOutcome, OutcomeOf
  <1> SUFFICES ASSUME NEW u \in Tasks
               PROVE  OutcomeOf(tx'[u], clock', accepted')
    BY DEF TxOutcome, OutcomeOf
  <1>2. ASSUME tx'[u] = tx[u], clock' >= clock,
               tx[u].exec \in Execs => accepted'[tx[u].exec] >= accepted[tx[u].exec]
        PROVE  OutcomeOf(tx'[u], clock', accepted')
    BY <1>1, <1>2, SMTT(40) DEF OutcomeOf, TypeOK, Tx
  <1>3. ASSUME NEW t \in Tasks, t # u,
               \/ Begins(t) \/ Moves(t) \/ Sends(t) \/ Writes(t)
               \/ Releases(t) \/ Commits(t) \/ \E e \in Execs : Claims(t, e)
        PROVE  OutcomeOf(tx'[u], clock', accepted')
    <2>1. tx'[u] = tx[u] /\ clock' = clock
      BY <1>3 DEF Begins, Claims, Moves, Sends, Writes, Releases, Commits, Others
    <2>2. accepted' = accepted \/ Sends(t)
      BY <1>3 DEF Begins, Claims, Moves, Writes, Releases, Commits
    <2>3. \A f \in Execs : accepted'[f] >= accepted[f]
      BY <2>2 DEF Sends, TypeOK
    <2> QED
      BY <1>2, <2>1, <2>3 DEF TypeOK
  <1>4. ASSUME \/ Begins(u) \/ Releases(u) \/ Commits(u)
               \/ \E e \in Execs : Claims(u, e)
        PROVE  OutcomeOf(tx'[u], clock', accepted')
    BY <1>1, <1>4
    DEF Begins, Claims, Releases, Commits, OutcomeOf, IdleTx
  <1>5. ASSUME Moves(u) PROVE OutcomeOf(tx'[u], clock', accepted')
    <2>1. OutcomeOf(tx[u], clock, accepted)
      BY <1>1
    <2> QED
      BY <1>5, <2>1 DEF Moves, SameWork, OutcomeOf
  <1>6. ASSUME Sends(u) PROVE OutcomeOf(tx'[u], clock', accepted')
    <2>1. tx[u].exec \in Execs /\ tx[u].exec # None /\ accepted \in [Execs -> Nat]
      BY <1>6, ConstantsAssumption DEF Sends, TxPhases, TypeOK
    <2> QED
      BY <1>1, <1>6, <2>1 DEF Sends, SameWork, OutcomeOf
  <1>7. ASSUME Writes(u) PROVE OutcomeOf(tx'[u], clock', accepted')
    <2>1. tx[u].attempts = {} /\ (tx[u].phase = "claimed" => tx[u].result = "none")
      BY <1>1, <1>7 DEF Writes, OutcomeOf
    <2>2. /\ tx[u].exec \in Execs /\ tx[u].exec # None /\ clock \in 0..clock
          /\ tx[u].result = "success" => accepted[tx[u].exec] >= 1
      BY <1>1, <1>7, ConstantsAssumption DEF Writes, TxPhases, TypeOK, OutcomeOf
    <2>3. CASE tx'[u].aborted = TRUE
      BY <1>7, <2>2, <2>3 DEF Writes, OutcomeOf
    <2>4. CASE tx'[u].aborted # TRUE
      <3>1. /\ tx'[u].row.status \in {"RETRYING", "SUCCESS", "FAILED"}
            /\ (tx'[u].row.status = "SUCCESS") <=> (tx'[u].result = "success")
            /\ tx'[u].row.status = "RETRYING" =>
                 tx'[u].row.attempt_count < tx'[u].row.max_attempts
        BY <1>7, <2>1, <2>4 DEF Writes
      <3>2. tx'[u].attempts =
              {[execution_id |-> tx'[u].exec,
                attempt_number |-> tx'[u].row.attempt_count,
                status |-> IF tx'[u].row.status = "SUCCESS" THEN "SUCCESS"
                                                            ELSE "FAILED",
                completed_at |-> clock]}
        BY <1>7, <2>1, <2>4 DEF Writes
      <3>3. /\ tx'[u].phase = "finished" /\ tx'[u].exec = tx[u].exec
            /\ tx'[u].result = tx[u].result
            /\ clock' = clock /\ accepted' = accepted
        BY <1>7 DEF Writes
      <3> QED
        BY <2>2, <3>1, <3>2, <3>3 DEF OutcomeOf
    <2> QED
      BY <2>3, <2>4
  <1>8. CASE tx' = tx /\ clock' >= clock /\ accepted' = accepted
    BY <1>2, <1>8 DEF TypeOK
  <1> QED
    BY <1>3, <1>4, <1>5, <1>6, <1>7, <1>8
    DEF Effect, Submits, Cancels, Ticks, vars, TypeOK

(* Counted attempts stay within the budget. *)
LEMMA BudgetStep ==
  ASSUME TypeOK, TxPhases, RowLock, ClaimedRow, TxOutcome, AttemptBudget, Effect
  PROVE  AttemptBudget'
  <1> USE DEF AttemptBudget
  <1>1. ASSUME NEW e \in Execs, Submits(e) \/ Cancels(e) PROVE AttemptBudget'
    BY <1>1 DEF Submits, Cancels, Apart, Cancellable
  <1>2. ASSUME NEW t \in Tasks, Commits(t) PROVE AttemptBudget'
    <2> DEFINE e == tx[t].exec
    <2>1. /\ e \in Execs /\ e # None /\ tx[t].row \in Row /\ row[e] \in Row
      BY <1>2, ConstantsAssumption DEF Commits, TxPhases, TypeOK, Tx
    <2>2. /\ row[e].status \in Open
          /\ tx[t].row.attempt_count = row[e].attempt_count + 1
          /\ tx[t].row.max_attempts = row[e].max_attempts
      BY <2>1 DEF ClaimedRow
    <2>3. /\ tx[t].row.status \in {"RETRYING", "SUCCESS", "FAILED"}
          /\ tx[t].row.status = "RETRYING" =>
               tx[t].row.attempt_count < tx[t].row.max_attempts
      BY <1>2 DEF Commits, TxOutcome
    <2> QED
      BY <1>2, <2>1, <2>2, <2>3 DEF Commits, Open, Cancellable, Row
  <1>3. CASE row' = row
    BY <1>3
  <1> QED
    BY <1>1, <1>2, <1>3
    DEF Effect, Claims, Begins, Moves, Sends, Writes, Releases, Ticks, vars

(* A committed SUCCESS was accepted. *)
LEMMA AcceptedStep ==
  ASSUME TypeOK, TxPhases, TxOutcome, SuccessIsAccepted, Effect
  PROVE  SuccessIsAccepted'
  <1> USE DEF SuccessIsAccepted
  <1>1. ASSUME NEW e \in Execs, Submits(e) \/ Cancels(e) PROVE SuccessIsAccepted'
    BY <1>1 DEF Submits, Cancels, Apart, Cancellable
  <1>2. ASSUME NEW t \in Tasks, Commits(t) PROVE SuccessIsAccepted'
    BY <1>2 DEF Commits, TxPhases, TxOutcome
  <1>3. ASSUME NEW t \in Tasks, Sends(t) PROVE SuccessIsAccepted'
    BY <1>3 DEF Sends, TxPhases, TypeOK
  <1>4. CASE row' = row /\ accepted' = accepted
    BY <1>4
  <1> QED
    BY <1>1, <1>2, <1>3, <1>4
    DEF Effect, Claims, Begins, Moves, Writes, Releases, Ticks, vars

(* Job and execution are inserted together, and a job retires with its
   execution settled or retrying. *)
LEMMA JobStep ==
  ASSUME TypeOK, TxPhases, ClaimedRow, TxOutcome, RunningInvisible,
         RetiredJobIsSettled, JobHasRow, Effect
  PROVE  RetiredJobIsSettled' /\ JobHasRow'
  <1> USE DEF RetiredJobIsSettled, JobHasRow
  <1>1. ASSUME NEW e \in Execs, Submits(e) \/ Cancels(e)
        PROVE  RetiredJobIsSettled' /\ JobHasRow'
    <2>1. row[e].status \in Status /\ job[e] \in {"NONE", "ACTIVE", "RETIRED"}
      BY DEF TypeOK, Row
    <2> QED
      BY <1>1, <2>1
      DEF Submits, Cancels, Apart, Cancellable, Terminal, Status, Open,
          RunningInvisible
  <1>2. ASSUME NEW t \in Tasks, Commits(t)
        PROVE  RetiredJobIsSettled' /\ JobHasRow'
    BY <1>2 DEF Commits, TxPhases, TxOutcome, Terminal
  <1>3. CASE row' = row /\ job' = job
    BY <1>3
  <1> QED
    BY <1>1, <1>2, <1>3
    DEF Effect, Claims, Begins, Moves, Sends, Writes, Releases, Ticks, vars

(* The attempts table keeps one row per counted attempt. *)
LEMMA LedgerOfAttemptsStep ==
  ASSUME TypeOK, TxPhases, ClaimedRow, TxOutcome, RunningInvisible,
         AttemptBudget, AttemptLedger, Effect
  PROVE  AttemptLedger'
  <1>1. ASSUME NEW e \in Execs, Submits(e) \/ Cancels(e) PROVE AttemptLedger'
    <2>1. AttemptsOf(e) = {} \/ row'[e] = row[e]
      <3>1. CASE row'[e] # row[e]
        <4>1. row[e].attempt_count = 0 /\ row[e].status # "SUCCESS"
          BY <1>1, <3>1 DEF Submits, Cancels, AttemptBudget, Cancellable
        <4>2. {a.attempt_number : a \in AttemptsOf(e)} = {}
          BY <4>1 DEF AttemptLedger
        <4> QED
          BY <4>2
      <3> QED
        BY <3>1
    <2>2. /\ row'[e].attempt_count = row[e].attempt_count
          /\ AttemptsOf(e) = {} \/ row'[e].status = row[e].status
      BY <1>1, <2>1 DEF Submits, Cancels, AttemptBudget
    <2>3. \A f \in Execs : AttemptsOf(f)' = AttemptsOf(f)
      BY <1>1 DEF Submits, Cancels, AttemptsOf
    <2> SUFFICES ASSUME NEW f \in Execs
                 PROVE  /\ row'[f].attempt_count = row[f].attempt_count
                        /\ AttemptsOf(f) = {} \/ row'[f].status = row[f].status
      BY <2>3 DEF AttemptLedger
    <2> QED
      BY <1>1, <2>2 DEF Submits, Cancels, Apart
  <1>2. ASSUME NEW t \in Tasks, Commits(t) PROVE AttemptLedger'
    <2>1. PICK e \in Execs : e = tx[t].exec
      BY <1>2 DEF Commits, TxPhases
    <2>2. PICK n \in Nat : n = row[e].attempt_count
      BY DEF TypeOK, Row
    <2>3. /\ row[e].status \in Open /\ row[e].status # "SUCCESS"
          /\ tx[t].row.attempt_count = n + 1
      BY <2>1, <2>2, ConstantsAssumption DEF ClaimedRow, Open
    <2>4. PICK a : /\ tx[t].attempts = {a}
                   /\ a.execution_id = e /\ a.attempt_number = n + 1
                   /\ (a.status = "SUCCESS") <=> (tx[t].row.status = "SUCCESS")
      <3> DEFINE r(c) ==
             [execution_id |-> e, attempt_number |-> n + 1,
              status |-> IF tx[t].row.status = "SUCCESS" THEN "SUCCESS"
                                                         ELSE "FAILED",
              completed_at |-> c]
      <3>1. PICK c \in 0..clock : tx[t].attempts = {r(c)}
        BY <1>2, <2>1, <2>3 DEF Commits, TxOutcome
      <3>2. /\ r(c).execution_id = e /\ r(c).attempt_number = n + 1
            /\ (r(c).status = "SUCCESS") <=> (tx[t].row.status = "SUCCESS")
        OBVIOUS
      <3> HIDE DEF r
      <3> QED
        BY <3>1, <3>2
    <2>5. attempts' = attempts \cup {a}
      BY <1>2, <2>4 DEF Commits
    <2>6. /\ row'[e].attempt_count = n + 1
          /\ row'[e].status = tx[t].row.status
          /\ \A f \in Execs : f # e => row'[f] = row[f]
      BY <1>2, <2>1, <2>3 DEF Commits
    <2>7. /\ AttemptsOf(e)' = AttemptsOf(e) \cup {a}
          /\ \A f \in Execs : f # e => AttemptsOf(f)' = AttemptsOf(f)
      BY <2>4, <2>5 DEF AttemptsOf
    <2>8. /\ {b.attempt_number : b \in AttemptsOf(e)} = 1..n
          /\ \A b, d \in AttemptsOf(e) :
               b.attempt_number = d.attempt_number => b = d
          /\ \A b \in AttemptsOf(e) : b.status # "SUCCESS"
      BY <2>2, <2>3 DEF AttemptLedger
    <2>9. \A b \in AttemptsOf(e) : b.attempt_number \in 1..n
      BY <2>8
    <2>10. {b.attempt_number : b \in AttemptsOf(e)'} = 1..(n + 1)
      <3>1. {b.attempt_number : b \in AttemptsOf(e)'} = 1..n \cup {n + 1}
        BY <2>4, <2>7, <2>8
      <3>2. 1..n \cup {n + 1} = 1..(n + 1)
        OBVIOUS
      <3> QED
        BY <3>1, <3>2
    <2>11. \A b, d \in AttemptsOf(e)' :
             b.attempt_number = d.attempt_number => b = d
      BY <2>1, <2>4, <2>7, <2>8, <2>9
    <2>12. \A b \in AttemptsOf(e)' :
             b.status = "SUCCESS" <=> /\ tx[t].row.status = "SUCCESS"
                                      /\ b.attempt_number = n + 1
      BY <2>1, <2>4, <2>7, <2>8, <2>9
    <2> SUFFICES ASSUME NEW f \in Execs
                 PROVE  /\ {b.attempt_number : b \in AttemptsOf(f)'} =
                             1..row'[f].attempt_count
                        /\ \A b, d \in AttemptsOf(f)' :
                             b.attempt_number = d.attempt_number => b = d
                        /\ \A b \in AttemptsOf(f)' :
                             b.status = "SUCCESS" <=>
                               /\ row'[f].status = "SUCCESS"
                               /\ b.attempt_number = row'[f].attempt_count
      BY DEF AttemptLedger
    <2>13. CASE f = e
      BY <2>6, <2>10, <2>11, <2>12, <2>13
    <2>14. CASE f # e
      BY <2>6, <2>7, <2>14 DEF AttemptLedger
    <2> QED
      BY <2>13, <2>14
  <1>3. CASE row' = row /\ attempts' = attempts
    BY <1>3 DEF AttemptLedger, AttemptsOf
  <1> QED
    BY <1>1, <1>2, <1>3
    DEF Effect, Claims, Begins, Moves, Sends, Writes, Releases, Ticks, vars

(* uq_attempts_exec_number never rejects a worker's insert: the attempt a
   transaction is about to record has no committed row yet. *)
LEMMA NoDuplicateAttempt ==
  ASSUME TypeOK, TxPhases, ClaimedRow, AttemptLedger,
         NEW t \in Tasks, tx[t].exec # None
  PROVE  ~DuplicateAttempt(tx[t])
  <1>1. tx[t].exec \in Execs
    BY DEF TypeOK, Tx
  <1>2. /\ row[tx[t].exec].attempt_count \in Nat
        /\ tx[t].row.attempt_count = row[tx[t].exec].attempt_count + 1
    BY <1>1 DEF ClaimedRow, TypeOK, Row
  <1>3. \A a \in AttemptsOf(tx[t].exec) :
          a.attempt_number \in 1..row[tx[t].exec].attempt_count
    BY <1>1 DEF AttemptLedger
  <1> QED
    BY <1>2, <1>3 DEF DuplicateAttempt, AttemptsOf

(* Abbreviation: what Ledger says of one execution with n attempts counted, d
   deliveries, a acceptances, s successes and k faults, held by x. *)
Owes(x, n, d, a, s, k) ==
  /\ Doomed(x) /\ x.result = "none" => d + 1 <= n + k /\ a + 1 <= s + k
  /\ (Doomed(x) <=> x.result # "none") => d <= n + k /\ a <= s + k
  /\ ~Doomed(x) /\ x.result # "none" =>
       /\ d <= n + k + 1
       /\ a <= s + k + (IF x.result = "success" THEN 1 ELSE 0)

Done(r) == IF r.status = "SUCCESS" THEN 1 ELSE 0

(* Deliveries stay paid for by counted attempts, the transaction in flight and
   faults. *)
LEMMA LedgerStep ==
  ASSUME TypeOK, TypeOK', TxPhases, RowLock, ClaimedRow, TxOutcome,
         AttemptBudget, AttemptLedger, \A e \in Execs : Ledger(e), Effect,
         NEW f \in Execs
  PROVE  Ledger(f)'
  <1>1. /\ ~Locked(f) => /\ delivered[f] <= row[f].attempt_count + faults
                         /\ accepted[f] <= Done(row[f]) + faults
        /\ \A u \in Tasks : tx[u].exec = f =>
             Owes(tx[u], row[f].attempt_count, delivered[f], accepted[f],
                  Done(row[f]), faults)
    BY DEF Ledger, Owes, Done
  <1> DEFINE Free == /\ delivered'[f] <= row'[f].attempt_count + faults'
                     /\ accepted'[f] <= Done(row'[f]) + faults'
             Held(u) == Owes(tx'[u], row'[f].attempt_count, delivered'[f],
                             accepted'[f], Done(row'[f]), faults')
             Goal == /\ (\A u \in Tasks : tx'[u].exec # f) => Free
                     /\ \A u \in Tasks : tx'[u].exec = f => Held(u)
  <1> SUFFICES Goal
    BY DEF Ledger, Owes, Done, Locked, Doomed
  <1>2. /\ row[f].attempt_count \in Nat /\ Done(row[f]) \in Nat
        /\ delivered[f] \in Nat /\ accepted[f] \in Nat /\ faults \in Nat
        /\ f # None
    BY ConstantsAssumption DEF TypeOK, Row, Done
  <1>3. CASE /\ row'[f].attempt_count = row[f].attempt_count
             /\ Done(row'[f]) = Done(row[f])
             /\ UNCHANGED <<tx, delivered, accepted, faults>>
    BY <1>1, <1>3 DEF Locked
  <1>4. ASSUME NEW e \in Execs, Submits(e) \/ Cancels(e) PROVE Goal
    <2>1. /\ row'[f].attempt_count = row[f].attempt_count
          /\ Done(row'[f]) = Done(row[f])
      BY <1>4 DEF Submits, Cancels, Apart, AttemptBudget, Cancellable, Done
    <2> HIDE DEF Goal
    <2> QED
      BY <1>3, <1>4, <2>1 DEF Submits, Cancels
  <1>5. ASSUME NEW t \in Tasks, Others(t), tx[t].exec # f, tx'[t].exec # f,
               row'[f] = row[f], delivered'[f] = delivered[f],
               accepted'[f] = accepted[f], faults' \in {faults, faults + 1}
        PROVE  Goal
    <2>1. Locked(f) <=> \E u \in Tasks : tx'[u].exec = f
      BY <1>5 DEF Others, Locked
    <2>2. ASSUME NEW u \in Tasks, tx'[u].exec = f PROVE Held(u)
      <3>1. tx'[u] = tx[u] /\ tx[u].exec = f
        BY <1>5, <2>2 DEF Others
      <3> QED
        BY <1>1, <1>2, <1>5, <3>1 DEF Owes
    <2> QED
      BY <1>1, <1>2, <1>5, <2>1, <2>2
  <1>6. ASSUME NEW t \in Tasks,
               \/ Begins(t)
               \/ \E e \in Execs : e # f /\ Claims(t, e)
               \/ tx[t].exec # f /\ (Moves(t) \/ Sends(t) \/ Writes(t)
                                      \/ Releases(t) \/ Commits(t))
        PROVE  Goal
    <2>1. /\ Others(t) /\ tx[t].exec # f /\ tx'[t].exec # f
          /\ row'[f] = row[f] /\ faults' \in {faults, faults + 1}
      BY <1>2, <1>6
      DEF Begins, Claims, Moves, Sends, Writes, Releases, Commits, SameWork,
          IdleTx, TxPhases
    <2>2. delivered'[f] = delivered[f] /\ accepted'[f] = accepted[f]
      BY <1>6 DEF Begins, Claims, Moves, Sends, Writes, Releases, Commits
    <2> HIDE DEF Goal
    <2> QED
      BY <1>5, <2>1, <2>2
  <1>7. ASSUME NEW t \in Tasks, Claims(t, f) PROVE Goal
    <2>1. /\ tx'[t].phase = "claimed" /\ tx'[t].result = "none"
          /\ ~tx'[t].aborted
      BY <1>7 DEF Claims, TxOutcome
    <2>2. \A u \in Tasks : tx'[u].exec = f => u = t
      BY <1>7 DEF Claims, Others, Locked
    <2>3. UNCHANGED <<row, delivered, accepted, faults>> /\ ~Locked(f)
      BY <1>7 DEF Claims
    <2>4. tx'[t].exec = f
      BY <1>7 DEF Claims
    <2> QED
      BY <1>1, <1>2, <2>1, <2>2, <2>3, <2>4 DEF Owes, Doomed
  \* From here on, t holds f, and no other task does.
  <1>8. ASSUME NEW t \in Tasks, tx[t].exec = f, Others(t),
               tx'[t].exec = f => Held(t), tx'[t].exec = f \/ Free
        PROVE  Goal
    <2>1. \A u \in Tasks : u # t => tx'[u].exec # f
      BY <1>2, <1>8 DEF Others, RowLock
    <2> HIDE DEF Free, Held
    <2> QED
      BY <1>8, <2>1
  <1>9. ASSUME NEW t \in Tasks, tx[t].exec = f
        PROVE  Owes(tx[t], row[f].attempt_count, delivered[f], accepted[f],
                    Done(row[f]), faults)
    BY <1>1, <1>9
  <1>10. ASSUME NEW t \in Tasks, tx[t].exec = f, Moves(t) PROVE Goal
    <2>1. Others(t) /\ tx'[t].exec = f
      BY <1>10 DEF Moves, SameWork
    <2>2. Held(t)
      BY <1>2, <1>9, <1>10 DEF Moves, SameWork, Owes, Doomed
    <2> HIDE DEF Goal, Free, Held
    <2> QED
      BY <1>8, <1>10, <2>1, <2>2
  <1>11. ASSUME NEW t \in Tasks, tx[t].exec = f, Sends(t) PROVE Goal
    <2>1. Others(t) /\ tx'[t].exec = f
      BY <1>11 DEF Sends, SameWork
    <2>2. tx[t].result = "none"
      BY <1>11 DEF Sends, TxOutcome
    <2>3. Held(t)
      BY <1>2, <1>9, <1>11, <2>2 DEF Sends, SameWork, Owes, Doomed
    <2> HIDE DEF Goal, Free, Held
    <2> QED
      BY <1>8, <1>11, <2>1, <2>3
  <1>12. ASSUME NEW t \in Tasks, tx[t].exec = f, Writes(t) PROVE Goal
    <2>1. Others(t) /\ tx'[t].exec = f
      BY <1>12 DEF Writes
    <2>2. ~DuplicateAttempt(tx[t])
      BY <1>2, <1>12, NoDuplicateAttempt
    <2>3. tx'[t].aborted = tx[t].aborted
      BY <1>12, <2>2 DEF Writes, TypeOK, Tx
    <2>4. Held(t)
      BY <1>9, <1>12, <2>3 DEF Writes, Owes, Doomed
    <2> HIDE DEF Goal, Free, Held
    <2> QED
      BY <1>8, <1>12, <2>1, <2>4
  <1>13. ASSUME NEW t \in Tasks, tx[t].exec = f, Releases(t) PROVE Goal
    <2>1. Others(t) /\ tx'[t].exec # f
      BY <1>2, <1>13 DEF Releases, IdleTx
    <2>2. Free
      BY <1>2, <1>9, <1>13 DEF Releases, Owes
    <2> HIDE DEF Goal, Free, Held
    <2> QED
      BY <1>8, <1>13, <2>1, <2>2
  <1>14. ASSUME NEW t \in Tasks, tx[t].exec = f, Commits(t) PROVE Goal
    <2>1. Others(t) /\ tx'[t].exec # f
      BY <1>2, <1>14 DEF Commits, IdleTx
    <2>2. /\ row'[f].attempt_count = row[f].attempt_count + 1
          /\ Done(row[f]) = 0
      BY <1>2, <1>14 DEF Commits, ClaimedRow, Done, Open
    <2>3. Done(row'[f]) = IF tx[t].result = "success" THEN 1 ELSE 0
      BY <1>14 DEF Commits, TxOutcome, Done
    <2>4. ~Doomed(tx[t])
      BY <1>14 DEF Commits, Doomed
    <2>5. UNCHANGED <<delivered, accepted, faults>>
      BY <1>14 DEF Commits
    <2>6. Free
      BY <1>2, <1>9, <1>14, <2>2, <2>3, <2>4, <2>5 DEF Owes
    <2> HIDE DEF Goal, Free, Held
    <2> QED
      BY <1>8, <1>14, <2>1, <2>6
  <1> HIDE DEF Goal
  <1> QED
    BY <1>3, <1>4, <1>6, <1>7, <1>10, <1>11, <1>12, <1>13, <1>14
    DEF Effect, Ticks, vars

-----------------------------------------------------------------------------
(* The theorems.                                                           *)

(* The inductive invariant holds initially. *)
LEMMA InitIInv == Init => IInv
  <1> SUFFICES ASSUME Init PROVE IInv
    OBVIOUS
  <1> USE ConstantsAssumption DEF Init
  <1>1. TypeOK /\ TxPhases /\ RowLock
    BY FreshTypes DEF TypeOK, TxPhases, RowLock, IdleTx
  <1>2. RunningInvisible /\ AttemptBudget /\ SuccessIsAccepted
    BY DEF RunningInvisible, AttemptBudget, SuccessIsAccepted, NoRow,
           Cancellable
  <1>3. ClaimedRow /\ TxOutcome
    BY DEF ClaimedRow, TxOutcome, IdleTx
  <1>4. AttemptLedger
    BY DEF AttemptLedger, AttemptsOf, NoRow
  <1>5. RetiredJobIsSettled /\ JobHasRow
    BY DEF RetiredJobIsSettled, JobHasRow
  <1>6. \A e \in Execs : Ledger(e)
    BY DEF Ledger, NoRow, IdleTx
  <1> QED
    BY <1>1, <1>2, <1>3, <1>4, <1>5, <1>6 DEF IInv

(* Every step preserves the inductive invariant. *)
LEMMA NextIInv == IInv /\ [Next]_vars => IInv'
  <1> SUFFICES ASSUME IInv, [Next]_vars PROVE IInv'
    OBVIOUS
  <1> USE DEF IInv
  <1>1. TypeOK' /\ TxPhases'
    BY TypeStep
  <1>2. Effect
    BY StepHasEffect
  <1>3. RowLock'
    BY <1>2, LockStep
  <1>4. RunningInvisible'
    BY <1>2, InvisibleStep
  <1>5. ClaimedRow'
    BY <1>1, <1>2, <1>3, ClaimedStep
  <1>6. TxOutcome'
    BY <1>1, <1>2, OutcomeStep
  <1>7. AttemptBudget'
    BY <1>2, BudgetStep
  <1>8. AttemptLedger'
    BY <1>2, LedgerOfAttemptsStep
  <1>9. SuccessIsAccepted'
    BY <1>2, AcceptedStep
  <1>10. RetiredJobIsSettled' /\ JobHasRow'
    BY <1>2, JobStep
  <1>11. (\A e \in Execs : Ledger(e))'
    BY <1>1, <1>2, LedgerStep
  <1> QED
    BY <1>1, <1>3, <1>4, <1>5, <1>6, <1>7, <1>8, <1>9, <1>10, <1>11

(* The inductive invariant is an invariant of the pipeline. *)
THEOREM Invariance == Spec => []IInv
  BY InitIInv, NextIInv, PTL DEF Spec

(* FOR UPDATE SKIP LOCKED keeps two workers apart, whatever crashes. *)
THEOREM Exclusion == Spec => []RowLock
  <1>1. IInv => RowLock
    BY DEF IInv
  <1> QED
    BY <1>1, Invariance, PTL

(* No committed execution is RUNNING. *)
THEOREM NeverStranded == Spec => []RunningInvisible
  <1>1. IInv => RunningInvisible
    BY DEF IInv
  <1> QED
    BY <1>1, Invariance, PTL

(* The attempts table is the history of the executions table. *)
THEOREM AttemptsAreHistory == Spec => []AttemptLedger
  <1>1. IInv => AttemptLedger
    BY DEF IInv
  <1> QED
    BY <1>1, Invariance, PTL

(* Counted attempts stay within max_attempts. *)
THEOREM WithinBudget == Spec => []AttemptBudget
  <1>1. IInv => AttemptBudget
    BY DEF IInv
  <1> QED
    BY <1>1, Invariance, PTL

(* A cancelled one-shot job leaves no execution waiting for a first attempt. *)
THEOREM CancelIsTogether == Spec => []RetiredJobIsSettled
  <1>1. IInv => RetiredJobIsSettled
    BY DEF IInv
  <1> QED
    BY <1>1, Invariance, PTL

(* Delivery is exactly-once but for faults: every further delivery is paid
   for by a crash, an SQL error or a failed commit. *)
THEOREM ExactlyOnceButForFaults == Spec => []DuplicatesArePaidFor
  <1>1. ASSUME IInv PROVE DuplicatesArePaidFor
    <2> SUFFICES ASSUME NEW e \in Execs
                 PROVE  LET flying == IF InFlight(e) = {} THEN 0 ELSE 1 IN
                        /\ delivered[e] <= row[e].attempt_count + flying + faults
                        /\ accepted[e] <= Done(row[e]) + flying + faults
      BY DEF DuplicatesArePaidFor, Done
    <2>1. /\ row[e].attempt_count \in Nat /\ Done(row[e]) \in Nat
          /\ delivered[e] \in Nat /\ accepted[e] \in Nat /\ faults \in Nat
      BY <1>1 DEF IInv, TypeOK, Row, Done
    <2>2. Ledger(e)
      BY <1>1 DEF IInv
    <2>3. CASE Locked(e)
      <3>1. PICK t \in Tasks : tx[t].exec = e
        BY <2>3 DEF Locked
      <3>2. Owes(tx[t], row[e].attempt_count, delivered[e], accepted[e],
                 Done(row[e]), faults)
        BY <2>2, <3>1 DEF Ledger, Owes, Done
      <3>3. CASE tx[t].result # "none" /\ ~Doomed(tx[t])
        <4>1. InFlight(e) # {}
          BY <3>1, <3>3 DEF InFlight
        <4> QED
          BY <2>1, <3>2, <3>3, <4>1 DEF Owes
      <3>4. CASE ~(tx[t].result # "none" /\ ~Doomed(tx[t]))
        BY <2>1, <3>2, <3>4 DEF Owes
      <3> QED
        BY <3>3, <3>4
    <2>4. CASE ~Locked(e)
      BY <2>1, <2>2, <2>4 DEF Ledger, Done
    <2> QED
      BY <2>3, <2>4
  <1> QED
    BY <1>1, Invariance, PTL

(* A settled execution never changes and is never sent again. *)
THEOREM SettledStaysSettled == Spec => SettledIsFinal
  <1> DEFINE Final == \A e \in Execs : row[e].status \in Terminal =>
                        /\ row'[e] = row[e]
                        /\ delivered'[e] = delivered[e]
  <1>1. ASSUME IInv, [Next]_vars PROVE [Final]_vars
    <2> SUFFICES ASSUME NEW e \in Execs, row[e].status \in Terminal
                 PROVE  row'[e] = row[e] /\ delivered'[e] = delivered[e]
      OBVIOUS
    <2>1. Effect
      BY <1>1, StepHasEffect DEF IInv
    <2>2. \A t \in Tasks : tx[t].exec # e
      BY <1>1, ConstantsAssumption DEF IInv, ClaimedRow, Open, Terminal
    <2>3. ASSUME NEW f \in Execs, Submits(f) \/ Cancels(f)
          PROVE  row'[e] = row[e] /\ delivered'[e] = delivered[e]
      BY <2>3 DEF Submits, Cancels, Apart, Cancellable, Terminal
    <2>4. ASSUME NEW t \in Tasks, Sends(t) \/ Commits(t)
          PROVE  row'[e] = row[e] /\ delivered'[e] = delivered[e]
      BY <2>2, <2>4 DEF Sends, Commits
    <2> QED
      BY <2>1, <2>3, <2>4
      DEF Effect, Claims, Begins, Moves, Writes, Releases, Ticks, vars
  <1> QED
    BY <1>1, Invariance, PTL DEF Spec, SettledIsFinal

(* A target is never called before the run_at of the committed row. *)
THEOREM NeverEarly == Spec => NotBeforeRunAt
  <1> DEFINE OnTime == \A e \in Execs : delivered'[e] # delivered[e] =>
                         row[e].run_at <= clock
  <1>1. ASSUME IInv, [Next]_vars PROVE [OnTime]_vars
    <2> SUFFICES ASSUME NEW e \in Execs, delivered'[e] # delivered[e]
                 PROVE  row[e].run_at <= clock
      OBVIOUS
    <2>1. PICK t \in Tasks : Sends(t)
      <3>1. Effect
        BY <1>1, StepHasEffect DEF IInv
      <3> QED
        BY <3>1 DEF Effect, Submits, Cancels, Claims, Begins, Moves, Writes,
                    Releases, Commits, Ticks, vars
    <2>2. tx[t].exec = e
      BY <2>1 DEF Sends
    <2>3. row[e].run_at <= tx[t].now /\ tx[t].now <= clock
      BY <1>1, <2>2, ConstantsAssumption DEF IInv, ClaimedRow
    <2>4. row[e].run_at \in Int /\ tx[t].now \in Int /\ clock \in Int
      BY <1>1 DEF IInv, TypeOK, Row, Tx
    <2> QED
      BY <2>3, <2>4
  <1> QED
    BY <1>1, Invariance, PTL DEF Spec, NotBeforeRunAt

(* The pipeline implements the lifecycle that clients see: each step maps to a
   lifecycle step of the execution it concerns, or to a stutter. *)
THEOREM Refinement == Spec => ImplementsLifecycle
  <1> DEFINE status == [e \in Execs |-> row[e].status]
             count == [e \in Execs |-> row[e].attempt_count]
             barVars == <<status, count, delivered, accepted>>
  <1>1. Init => Lifecycle!Init
    BY DEF Init, Lifecycle!Init, NoRow
  <1>2. ASSUME IInv, [Next]_vars
        PROVE  [Lifecycle!Next]_barVars
    <2> USE DEF IInv
    <2>1. Effect
      BY <1>2, StepHasEffect
    <2>2. TypeOK'
      BY <1>2, TypeStep
    <2>3. ASSUME NEW e \in Execs, Submits(e) PROVE Lifecycle!Submit(e)
      <3>1. count' = count
        BY <2>3, <1>2 DEF Submits, Apart, AttemptBudget
      <3>2. status' = [status EXCEPT ![e] = row'[e].status]
        BY <2>3 DEF Submits, Apart
      <3> QED
        BY <2>3, <3>1, <3>2
        DEF Submits, Lifecycle!Submit, Lifecycle!Waiting, Cancellable
    <2>4. ASSUME NEW e \in Execs, Cancels(e)
          PROVE  Lifecycle!Cancel(e) \/ UNCHANGED barVars
      <3>1. count' = count
        BY <2>4 DEF Cancels, Apart
      <3>2. CASE row'[e] = row[e]
        BY <2>4, <3>1, <3>2 DEF Cancels, Apart
      <3>3. CASE row'[e] # row[e]
        <4>1. status' = [status EXCEPT ![e] = "CANCELLED"]
          BY <2>4, <3>3 DEF Cancels, Apart
        <4> QED
          BY <2>4, <3>1, <3>3, <4>1
          DEF Cancels, Lifecycle!Cancel, Lifecycle!Waiting, Cancellable
      <3> QED
        BY <3>2, <3>3
    <2>5. ASSUME NEW t \in Tasks, Sends(t)
          PROVE  \E e \in Execs : Lifecycle!Deliver(e) \/ UNCHANGED barVars
      <3>1. PICK e \in Execs : e = tx[t].exec
        BY <1>2, <2>5 DEF Sends, TxPhases
      <3>2. status[e] \in Lifecycle!Live
        BY <1>2, <3>1, ConstantsAssumption
        DEF ClaimedRow, Open, Lifecycle!Live, Lifecycle!Waiting
      <3>3. status' = status /\ count' = count
        BY <2>5 DEF Sends
      <3>4. delivered' = delivered \/ delivered' = [delivered EXCEPT ![e] = delivered[e] + 1]
        BY <1>2, <2>2, <2>5, <3>1 DEF Sends, TypeOK
      <3>5. accepted' = accepted \/ accepted' = [accepted EXCEPT ![e] = accepted[e] + 1]
        BY <1>2, <2>2, <2>5, <3>1 DEF Sends, TypeOK
      <3>6. delivered' = delivered => accepted' = accepted
        BY <1>2, <2>2, <2>5, <3>1 DEF Sends, TypeOK
      <3> QED
        BY <3>1, <3>2, <3>3, <3>4, <3>5, <3>6 DEF Lifecycle!Deliver
    <2>6. ASSUME NEW t \in Tasks, Commits(t)
          PROVE  \E e \in Execs : Lifecycle!Settle(e)
      <3>1. PICK e \in Execs : e = tx[t].exec
        BY <1>2, <2>6 DEF Commits, TxPhases
      <3>2. /\ status[e] \in Lifecycle!Live
            /\ tx[t].row.attempt_count = count[e] + 1
        BY <1>2, <3>1, ConstantsAssumption
        DEF ClaimedRow, Open, Lifecycle!Live, Lifecycle!Waiting
      <3>3. /\ tx[t].row.status \in {"RETRYING", "SUCCESS", "FAILED"}
            /\ tx[t].row.status = "SUCCESS" => accepted[e] > 0
        BY <1>2, <2>6, <3>1 DEF Commits, TxOutcome, TypeOK
      <3>4. /\ status' = [status EXCEPT ![e] = tx[t].row.status]
            /\ count' = [count EXCEPT ![e] = count[e] + 1]
            /\ UNCHANGED <<delivered, accepted>>
        BY <2>6, <3>1, <3>2 DEF Commits
      <3> QED
        BY <3>1, <3>2, <3>3, <3>4 DEF Lifecycle!Settle
    <2>7. \/ \E e \in Execs : Submits(e) \/ Cancels(e)
          \/ \E t \in Tasks : Sends(t) \/ Commits(t)
          \/ row' = row /\ UNCHANGED <<delivered, accepted>>
      BY <2>1 DEF Effect, Claims, Begins, Moves, Writes, Releases, Ticks, vars
    <2>8. \/ \E e \in Execs : \/ Lifecycle!Submit(e) \/ Lifecycle!Cancel(e)
                              \/ Lifecycle!Deliver(e) \/ Lifecycle!Settle(e)
          \/ UNCHANGED barVars
      <3> HIDE DEF barVars
      <3>1. ASSUME NEW e \in Execs, Submits(e) \/ Cancels(e)
            PROVE  \/ Lifecycle!Submit(e) \/ Lifecycle!Cancel(e)
                   \/ UNCHANGED barVars
        BY <2>3, <2>4, <3>1
      <3>2. ASSUME NEW t \in Tasks, Sends(t) \/ Commits(t)
            PROVE  \E e \in Execs : \/ Lifecycle!Deliver(e)
                                    \/ Lifecycle!Settle(e)
                                    \/ UNCHANGED barVars
        BY <2>5, <2>6, <3>2
      <3>3. CASE \E e \in Execs : Submits(e) \/ Cancels(e)
        BY <3>1, <3>3
      <3>4. CASE \E t \in Tasks : Sends(t) \/ Commits(t)
        BY <3>2, <3>4
      <3>5. CASE row' = row /\ UNCHANGED <<delivered, accepted>>
        BY <3>5 DEF barVars
      <3> QED
        BY <2>7, <3>3, <3>4, <3>5
    <2> QED
      BY <2>8 DEF Lifecycle!Next
  <1> QED
    BY <1>1, <1>2, Invariance, PTL
    DEF Spec, ImplementsLifecycle, Lifecycle!Spec, Lifecycle!lifecycleVars
=============================================================================
