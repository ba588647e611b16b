------------------------------- MODULE Poller -------------------------------
(***************************************************************************)
(* One worker process: the poll loop, the tasks it spawns under a          *)
(* semaphore, the cached list of schemas, the connection pool, readiness   *)
(* and shutdown, together with the workspaces it serves.  An execution is  *)
(* here only something due in a schema; Executions.tla has its lifecycle.  *)
(***************************************************************************)
EXTENDS Tenants, Sequences, Functions

CONSTANTS
    Tasks,          \* one per permit: INVOKR_WORKER_MAX_CONCURRENT
    PoolSize,       \* INVOKR_DB_POOL_SIZE
    MaxDue,         \* bound: executions that become due in a workspace
    MaxFaults       \* bound: database failures met by the worker

ASSUME PollerAssumption ==
    /\ IsFiniteSet(Slugs)
    /\ IsFiniteSet(Tasks) /\ Tasks # {}
    /\ PoolSize \in Nat \ {0}
    /\ MaxDue \in Nat /\ MaxFaults \in Nat

VARIABLES
    loop,           \* where poller::run is
    idle,           \* the AtomicBool a task that found nothing sets
    cancel,         \* the CancellationToken
    permits,        \* semaphore.available_permits()
    granted,        \* a freed permit was handed to the waiting loop
    stale,          \* last_tick_ago() exceeds stale_after()
    cache,          \* SchemaRegistry: the schemas it last read
    task,           \* the spawned tasks
    due,            \* executions of a schema a claim can take
    arrived, done,  \* history: executions that became due, and that finished
    faults,
    forced          \* the shutdown timeout expired before the tasks ended

pollerVars == <<loop, idle, cancel, permits, granted, stale, cache, task, due,
                arrived, done, faults, forced>>
vars == <<tenant, pollerVars>>

Free == [at |-> "off", todo |-> <<>>, schema |-> "none"]

(* A task holds its connection from begin to commit, the dispatch included. *)
Holding == {t \in Tasks : task[t].at \in {"claim", "run"}}
Running(s) == {t \in Tasks : task[t].at = "run" /\ task[t].schema = s}
MaxConcurrent == Cardinality(Tasks)

Fault == faults < MaxFaults /\ faults' = faults + 1

Lists(S) == {q \in [1..Cardinality(S) -> S] : IsInjective(q)}
Active == {s \in Slugs : tenant[s] # "absent"}

-----------------------------------------------------------------------------
(* poller::run, the loop.  A permit that is dropped while the loop waits   *)
(* goes to it at once and never shows in available_permits.                *)

Top ==
    /\ loop = "top"
    /\ stale' = FALSE
    /\ loop' = IF idle THEN "idle" ELSE "select"
    /\ UNCHANGED <<idle, cancel, permits, granted, cache, task, due, arrived,
                   done, faults, forced>>

IdleOver ==
    /\ loop = "idle"
    /\ idle' = FALSE
    /\ loop' = "select"
    /\ UNCHANGED <<cancel, permits, granted, stale, cache, task, due, arrived,
                   done, faults, forced>>

\* Mutant: a cancelled() branch continues instead of breaking.
Break_continue ==
    /\ cancel
    /\ loop \in {"idle", "select", "error"}
    /\ loop' = "top"
    /\ permits' = IF granted THEN permits + 1 ELSE permits
    /\ granted' = FALSE
    /\ UNCHANGED <<idle, cancel, stale, cache, task, due, arrived, done, faults, forced>>

(* Any of the three select! blocks takes its cancelled() branch.  The      *)
(* acquire_owned future is dropped, with the permit it may have been given. *)
Break ==
    /\ cancel
    /\ loop \in {"idle", "select", "error"}
    /\ loop' = "drain"
    /\ permits' = IF granted THEN permits + 1 ELSE permits
    /\ granted' = FALSE
    /\ UNCHANGED <<idle, cancel, stale, cache, task, due, arrived, done, faults, forced>>

(* tokio's select! is free to take this branch after cancellation too. *)
Acquire ==
    /\ loop = "select"
    /\ granted \/ permits > 0
    /\ permits' = IF granted THEN permits ELSE permits - 1
    /\ granted' = FALSE
    /\ loop' = "fetch"
    /\ UNCHANGED <<idle, cancel, stale, cache, task, due, arrived, done, faults, forced>>

Spawn(list) ==
    \E t \in Tasks :
        /\ task[t].at = "off"
        /\ task' = [task EXCEPT ![t] = [Free EXCEPT !.at = "next", !.todo = list]]
        /\ loop' = "top"
        /\ UNCHANGED <<idle, cancel, permits, granted, stale, due, arrived, done,
                       faults, forced>>

(* get_active_schemas answers from its cache unless the list is empty or   *)
(* its TTL has passed, which any fetch may find.                           *)
FetchCached ==
    /\ loop = "fetch"
    /\ cache # <<>>
    /\ Spawn(cache)
    /\ UNCHANGED cache

(* SELECT schema_name ... WHERE status = 'ACTIVE', in no stated order. *)
FetchActive ==
    /\ loop = "fetch"
    /\ Cardinality(Holding) < PoolSize
    /\ \E list \in Lists(Active) :
          /\ cache' = list
          /\ Spawn(list)

(* The query fails, or no connection becomes free before the pool gives up. *)
FetchError ==
    /\ loop = "fetch"
    /\ Fault
    /\ permits' = permits + 1
    /\ loop' = "error"
    /\ UNCHANGED <<idle, cancel, granted, stale, cache, task, due, arrived, done, forced>>

ErrorOver ==
    /\ loop = "error"
    /\ loop' = "top"
    /\ UNCHANGED <<idle, cancel, permits, granted, stale, cache, task, due, arrived,
                   done, faults, forced>>

\* Mutant: shutdown waits for one permit only.
Drained_one ==
    /\ loop = "drain"
    /\ permits > 0
    /\ loop' = "stopped"
    /\ UNCHANGED <<idle, cancel, permits, granted, stale, cache, task, due, arrived,
                   done, faults, forced>>

(* acquire_many(max_concurrent): every task has dropped its permit. *)
Drained ==
    /\ loop = "drain"
    /\ permits = MaxConcurrent
    /\ loop' = "stopped"
    /\ UNCHANGED <<idle, cancel, permits, granted, stale, cache, task, due, arrived,
                   done, faults, forced>>

(* The timeout expires, run returns and the runtime drops what still runs: *)
(* the open transactions roll back, which makes their rows due again.      *)
DrainTimeout ==
    /\ loop = "drain"
    /\ permits < MaxConcurrent
    /\ loop' = "stopped"
    /\ forced' = TRUE
    /\ due' = [s \in Slugs |-> due[s] + Cardinality(Running(s))]
    /\ task' = [t \in Tasks |-> Free]
    /\ UNCHANGED <<idle, cancel, permits, granted, stale, cache, arrived, done, faults>>

-----------------------------------------------------------------------------
(* claim_and_process, one task. *)

begin(t) ==
    /\ task[t].at = "next" /\ task[t].todo # <<>>
    /\ Cardinality(Holding) < PoolSize
    /\ task' = [task EXCEPT ![t] = [at |-> "claim", todo |-> Tail(@.todo),
                                    schema |-> Head(@.todo)]]
    /\ UNCHANGED <<loop, idle, cancel, permits, granted, stale, cache, due, arrived,
                   done, faults, forced>>

\* Mutant: a failing schema ends the iteration.
Skip_return(t) ==
    /\ task[t].at \in {"next", "claim"} /\ (task[t].at = "next" => task[t].todo # <<>>)
    /\ IF task[t].at = "claim" /\ tenant[task[t].schema] = "listed"
       THEN faults' = faults ELSE Fault
    /\ task' = [task EXCEPT ![t].at = "next", ![t].todo = <<>>]
    /\ UNCHANGED <<loop, idle, cancel, permits, granted, stale, cache, due, arrived,
                   done, forced>>

(* continue: the transaction cannot be opened, the claim fails (as it      *)
(* always does in a schema without its tables), or the job cannot be read. *)
Skip(t) ==
    /\ \/ /\ task[t].at = "claim" /\ tenant[task[t].schema] = "listed"
          /\ task' = [task EXCEPT ![t].at = "next", ![t].schema = "none"]
          /\ UNCHANGED faults
       \/ /\ task[t].at = "claim" /\ Fault
          /\ task' = [task EXCEPT ![t].at = "next", ![t].schema = "none"]
       \/ /\ task[t].at = "next" /\ task[t].todo # <<>> /\ Fault
          /\ task' = [task EXCEPT ![t].todo = Tail(@)]
    /\ UNCHANGED <<loop, idle, cancel, permits, granted, stale, cache, due, arrived,
                   done, forced>>

(* FOR UPDATE SKIP LOCKED: an unlocked due row is taken, if there is one. *)
claim(t) ==
    LET s == task[t].schema IN
    /\ task[t].at = "claim" /\ tenant[s] = "usable"
    /\ IF due[s] > 0
       THEN /\ due' = [due EXCEPT ![s] = @ - 1]
            /\ task' = [task EXCEPT ![t].at = "run", ![t].todo = <<>>]
       ELSE /\ task' = [task EXCEPT ![t].at = "next", ![t].schema = "none"]
            /\ UNCHANGED due
    /\ UNCHANGED <<loop, idle, cancel, permits, granted, stale, cache, arrived, done,
                   faults, forced>>

(* process_execution and the commit of what it decided. *)
Process(t) ==
    LET s == task[t].schema IN
    /\ task[t].at = "run"
    /\ task' = [task EXCEPT ![t] = [Free EXCEPT !.at = "release"]]
    /\ done' = [done EXCEPT ![s] = @ + 1]
    /\ UNCHANGED <<loop, idle, cancel, permits, granted, stale, cache, due, arrived,
                   faults, forced>>

(* The commit fails, or a retry was scheduled: the row is due again. *)
ProcessAgain(t) ==
    LET s == task[t].schema IN
    /\ task[t].at = "run"
    /\ Fault
    /\ task' = [task EXCEPT ![t] = [Free EXCEPT !.at = "release"]]
    /\ due' = [due EXCEPT ![s] = @ + 1]
    /\ UNCHANGED <<loop, idle, cancel, permits, granted, stale, cache, arrived, done, forced>>

FoundNothing(t) ==
    /\ task[t].at = "next" /\ task[t].todo = <<>>
    /\ idle' = TRUE
    /\ task' = [task EXCEPT ![t] = [Free EXCEPT !.at = "release"]]
    /\ UNCHANGED <<loop, cancel, permits, granted, stale, cache, due, arrived, done,
                   faults, forced>>

\* Mutant: a permit handed to the waiting loop is counted as free as well.
DropPermit_twice(t) ==
    LET waiting == loop = "select" /\ permits = 0 /\ ~granted IN
    /\ task[t].at = "release"
    /\ task' = [task EXCEPT ![t] = Free]
    /\ granted' = (granted \/ waiting)
    /\ permits' = permits + 1
    /\ UNCHANGED <<loop, idle, cancel, stale, cache, due, arrived, done, faults, forced>>

DropPermit(t) ==
    LET waiting == loop = "select" /\ permits = 0 /\ ~granted IN
    /\ task[t].at = "release"
    /\ task' = [task EXCEPT ![t] = Free]
    /\ granted' = (granted \/ waiting)
    /\ permits' = IF waiting THEN permits ELSE permits + 1
    /\ UNCHANGED <<loop, idle, cancel, stale, cache, due, arrived, done, faults, forced>>

TaskStep(t) ==
    \/ begin(t) \/ Skip(t) \/ claim(t) \/ Process(t) \/ ProcessAgain(t)
    \/ FoundNothing(t) \/ DropPermit(t)

-----------------------------------------------------------------------------
(* The environment of the worker. *)

(* A job of the API, a tick of pg_cron: an execution becomes due. *)
Arrive(s) ==
    /\ tenant[s] = "usable"
    /\ arrived[s] < MaxDue
    /\ arrived' = [arrived EXCEPT ![s] = @ + 1]
    /\ due' = [due EXCEPT ![s] = @ + 1]
    /\ UNCHANGED <<loop, idle, cancel, permits, granted, stale, cache, task, done,
                   faults, forced>>

Signal ==
    /\ ~cancel
    /\ cancel' = TRUE
    /\ UNCHANGED <<loop, idle, permits, granted, stale, cache, task, due, arrived,
                   done, faults, forced>>

(* stale_after() passes while the loop is blocked.  It is at least ten     *)
(* poll intervals, so no sleep of the loop is long enough for that.        *)
Elapse ==
    /\ \/ loop = "select" /\ permits = 0 /\ ~granted
       \/ loop \in {"fetch", "drain"}
    /\ ~stale
    /\ stale' = TRUE
    /\ UNCHANGED <<loop, idle, cancel, permits, granted, cache, task, due, arrived,
                   done, faults, forced>>

-----------------------------------------------------------------------------
\* Mutant: the saturated worker is not excused.
poller_ok_strict == ~stale

(* health::poller_ok and the /ready handler of ops.rs.  The probe's SELECT *)
(* takes a connection of the same pool and is given up after a timeout.    *)
poller_ok == ~stale \/ permits = 0
probe_db == Cardinality(Holding) < PoolSize
Ready == probe_db /\ poller_ok

PollerInit ==
    /\ loop = "top" /\ idle = FALSE /\ cancel = FALSE
    /\ permits = MaxConcurrent /\ granted = FALSE
    /\ stale = FALSE
    /\ cache = <<>>
    /\ task = [t \in Tasks |-> Free]
    /\ due = [s \in Slugs |-> 0]
    /\ arrived = [s \in Slugs |-> 0] /\ done = [s \in Slugs |-> 0]
    /\ faults = 0 /\ forced = FALSE

Init == TenantsInit /\ PollerInit

LoopStep ==
    \/ Top \/ IdleOver \/ Break \/ Acquire \/ FetchCached \/ FetchActive
    \/ FetchError \/ ErrorOver \/ Drained \/ DrainTimeout

PollerStep ==
    \/ LoopStep
    \/ \E t \in Tasks : TaskStep(t)
    \/ \E s \in Slugs : Arrive(s)
    \/ Signal \/ Elapse

Next ==
    \/ TenantsNext /\ UNCHANGED pollerVars
    \/ PollerStep /\ UNCHANGED tenant

Spec == Init /\ [][Next]_vars

(* The runtime runs the loop and every task, and time passes.  No database *)
(* call hangs for ever, though any may fail.  tokio::select! polls its     *)
(* branches in random order, so cancelled() is not passed over for ever,   *)
(* and the schema list outlives its TTL.                                   *)
Fairness ==
    /\ WF_vars(LoopStep /\ UNCHANGED tenant)
    /\ SF_vars(Break /\ UNCHANGED tenant)
    /\ \A t \in Tasks : WF_vars(TaskStep(t) /\ UNCHANGED tenant)
    /\ SF_vars(FetchActive /\ UNCHANGED tenant)

FairSpec == Spec /\ Fairness

-----------------------------------------------------------------------------
TypeOK ==
    /\ TenantsTypeOK
    /\ loop \in {"top", "idle", "select", "fetch", "error", "drain", "stopped"}
    /\ idle \in BOOLEAN /\ cancel \in BOOLEAN /\ granted \in BOOLEAN /\ forced \in BOOLEAN
    /\ permits \in 0..MaxConcurrent
    /\ stale \in BOOLEAN
    /\ cache \in Seq(Slugs)
    /\ task \in [Tasks -> [at : {"off", "next", "claim", "run", "release"},
                           todo : Seq(Slugs), schema : Slugs \cup {"none"}]]
    /\ due \in [Slugs -> Nat] /\ arrived \in [Slugs -> 0..MaxDue]
    /\ done \in [Slugs -> Nat] /\ faults \in 0..MaxFaults

(* The semaphore is exact at every instant: each permit is free, held by a *)
(* task, or held by (or handed to) the loop, whatever errors, cancellation *)
(* and hand-overs happened.  A leaked permit would lower the worker's      *)
(* concurrency for good, a doubled one would exceed                        *)
(* INVOKR_WORKER_MAX_CONCURRENT.                                           *)
PermitsConserved ==
    loop # "stopped" =>
        permits + Cardinality({t \in Tasks : task[t].at # "off"})
            + (IF granted \/ loop = "fetch" THEN 1 ELSE 0) = MaxConcurrent

(* Shutdown is graceful unless the timeout expires: when run returns       *)
(* without it, no task is in flight, even one spawned after cancellation.  *)
GracefulShutdown ==
    (loop = "stopped" /\ ~forced) => \A t \in Tasks : task[t].at = "off"

(* No execution is lost or served twice by the worker's control flow:      *)
(* what became due is due, in the hands of one task, or done, also after   *)
(* failed commits, skipped schemas and a forced shutdown.                  *)
NothingLost ==
    \A s \in Slugs : arrived[s] = due[s] + Cardinality(Running(s)) + done[s]

(* The books of the worker balance at every await of the loop and of its   *)
(* tasks: permits and executions are where the code believes they are.     *)
PollerInv == TypeOK /\ PermitsConserved /\ NothingLost

(* The poller's half of /ready, which the probe of the pool is not part    *)
(* of, fails only when the database has held the loop up since its last    *)
(* tick (fetching the schemas, or the wait after that failed), when the    *)
(* loop was given a permit and has not run since, or when it shuts down:   *)
(* never because nothing is due, nor while the loop waits for a permit.    *)
StaleMeansBlocked ==
    ~poller_ok => loop \in {"fetch", "error", "top", "drain", "stopped"} \/ granted

(* A worker that has stopped ticking because every permit is taken by a    *)
(* delivery is ready: "A saturated worker still reports ready"             *)
(* (helm/README.md).  This holds of poller_ok, by StaleMeansBlocked; the   *)
(* handler's probe also needs a connection, and a delivery holds one.      *)
SaturatedIsReady ==
    (loop = "select" /\ stale /\ \A t \in Tasks : task[t].at = "run") => Ready

(* Every execution due in a workspace is claimed in the end, unless the    *)
(* worker is told to stop: no half-provisioned workspace, failed claim or  *)
(* stale schema list keeps the tasks from reaching it once no new work     *)
(* arrives.                                                                *)
EveryWorkspaceServed ==
    \A s \in Slugs : (due[s] > 0) ~> (due[s] = 0 \/ cancel)

(* A signal ends the process, whatever the loop and its tasks are doing. *)
SignalStops == cancel ~> (loop = "stopped")
=============================================================================
