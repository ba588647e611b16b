----------------------------- MODULE PartsProofs -----------------------------
(***************************************************************************)
(* Proofs about the parts that stand by themselves: one worker process     *)
(* (Poller), for any number of workspaces, permits, connections, due       *)
(* executions and faults; and the algorithms of MCAlgorithms, for any      *)
(* retry policies and word width, any rows and limits of a list, templates *)
(* of any length, and any calendar.                                        *)
(***************************************************************************)
EXTENDS Poller, MCAlgorithms, FiniteSetTheorems, SequenceTheorems, WellFoundedInduction, TLAPS

-----------------------------------------------------------------------------
(* The worker process: its inductive invariant.                            *)

TaskState == [at : {"off", "next", "claim", "run", "release"},
              todo : Seq(Slugs), schema : Slugs \cup {"none"}]

Busy == {t \in Tasks : task[t].at # "off"}

\* A task with a connection has a schema to use it on.
TaskInv == \A t \in Tasks : task[t].at \in {"claim", "run"} => task[t].schema \in Slugs

\* A permit is handed over only to a loop that waits for one; run returns
\* when no task is left.
LoopInv == /\ granted => loop = "select"
           /\ loop = "stopped" => \A t \in Tasks : task[t].at = "off"

\* The loop's tick is recent while it sleeps, and while it could have a
\* permit without having been given one.
TickInv == /\ loop = "idle" => ~stale
           /\ loop = "select" /\ stale /\ ~granted => permits = 0

IInv == PollerInv /\ TaskInv /\ LoopInv /\ TickInv

-----------------------------------------------------------------------------
(* Counting tasks.                                                         *)

(* Sets of tasks have a size, which one task more or less changes by one. *)
LEMMA TaskCount ==
  /\ \A S \in SUBSET Tasks : Cardinality(S) \in Nat
  /\ \A S \in SUBSET Tasks : Cardinality(S) = 0 <=> S = {}
  /\ \A S \in SUBSET Tasks, t \in Tasks :
       t \notin S => Cardinality(S \cup {t}) = Cardinality(S) + 1
  /\ \A S \in SUBSET Tasks, t \in Tasks :
       t \in S => Cardinality(S \ {t}) = Cardinality(S) - 1
  /\ MaxConcurrent \in Nat
  <1>1. \A S \in SUBSET Tasks : IsFiniteSet(S) /\ Cardinality(S) \in Nat
    BY PollerAssumption, FS_Subset, FS_CardinalityType
  <1>2. \A S \in SUBSET Tasks : Cardinality(S) = 0 <=> S = {}
    BY <1>1, FS_EmptySet
  <1>3. \A S \in SUBSET Tasks, t \in Tasks :
          t \notin S => Cardinality(S \cup {t}) = Cardinality(S) + 1
    BY <1>1, FS_AddElement
  <1>4. \A S \in SUBSET Tasks, t \in Tasks :
          t \in S => Cardinality(S \ {t}) = Cardinality(S) - 1
    BY <1>1, FS_RemoveElement
  <1>5. MaxConcurrent \in Nat
    BY <1>1 DEF MaxConcurrent
  <1> QED
    BY <1>1, <1>2, <1>3, <1>4, <1>5

(* The permits that are out, in terms of Busy. *)
LEMMA PermitsAreBusy ==
  PermitsConserved <=>
    (loop # "stopped" =>
       permits + Cardinality(Busy) + (IF granted \/ loop = "fetch" THEN 1 ELSE 0)
         = MaxConcurrent)
  BY DEF PermitsConserved, Busy

(* A free task is a task, and so is one at any place with any list. *)
LEMMA FreeTypes ==
  /\ Free \in TaskState /\ Free.at = "off"
  /\ [Free EXCEPT !.at = "release"] \in TaskState
  /\ [Free EXCEPT !.at = "release"].at = "release"
  /\ \A list \in Seq(Slugs) :
       /\ [Free EXCEPT !.at = "next", !.todo = list] \in TaskState
       /\ [Free EXCEPT !.at = "next", !.todo = list].at = "next"
  BY EmptySeq DEF Free, TaskState

(* The list that the registry reads is a list of schemas. *)
LEMMA ListTypes == \A list \in Lists(Active) : list \in Seq(Slugs)
  <1> SUFFICES ASSUME NEW list \in Lists(Active) PROVE list \in Seq(Slugs)
    OBVIOUS
  <1>1. Active \in SUBSET Slugs
    BY DEF Active
  <1>2. IsFiniteSet(Active)
    BY <1>1, PollerAssumption, FS_Subset
  <1>3. Cardinality(Active) \in Nat
    BY <1>2, FS_CardinalityType
  <1>4. list \in [1 .. Cardinality(Active) -> Active]
    BY DEF Lists
  <1>5. list \in [1 .. Cardinality(Active) -> Slugs]
    BY <1>1, <1>4
  <1> QED
    BY <1>3, <1>5, SeqDef

-----------------------------------------------------------------------------
(* Steps that leave the tasks alone.                                       *)

(* A step that touches neither tasks nor executions keeps the books. *)
LEMMA TasksRest ==
  ASSUME IInv, UNCHANGED <<task, due, arrived, done>>
  PROVE  NothingLost' /\ TaskInv' /\ Busy' = Busy /\ Cardinality(Busy) \in Nat
  <1>1. Cardinality(Busy) \in Nat
    BY TaskCount DEF Busy
  <1> QED
    BY <1>1 DEF IInv, PollerInv, NothingLost, Running, TaskInv, Busy

(* What the loop does to the semaphore, action by action: the permits it has
   or was handed go back, or on to the next place of the loop. *)
LEMMA LoopPermits ==
  ASSUME IInv, NEW busy \in Nat,
         loop # "stopped" =>
           permits + busy + (IF granted \/ loop = "fetch" THEN 1 ELSE 0)
             = MaxConcurrent,
         \/ Top \/ IdleOver \/ Break \/ Acquire \/ FetchError \/ ErrorOver
         \/ Drained \/ Signal \/ Elapse
  PROVE  /\ permits' \in 0 .. MaxConcurrent
         /\ loop' # "stopped" =>
              permits' + busy + (IF granted' \/ loop' = "fetch" THEN 1 ELSE 0)
                = MaxConcurrent
  <1>1. /\ permits \in 0 .. MaxConcurrent /\ MaxConcurrent \in Nat
        /\ granted \in BOOLEAN /\ (granted => loop = "select")
    BY TaskCount DEF IInv, PollerInv, TypeOK, LoopInv
  <1>2. CASE Top
    BY <1>1, <1>2 DEF Top
  <1>3. CASE IdleOver
    BY <1>1, <1>3 DEF IdleOver
  <1>4. CASE Break
    BY <1>1, <1>4 DEF Break
  <1>5. CASE Acquire
    BY <1>1, <1>5 DEF Acquire
  <1>6. CASE FetchError
    BY <1>1, <1>6 DEF FetchError
  <1>7. CASE ErrorOver
    BY <1>1, <1>7 DEF ErrorOver
  <1>8. CASE Drained
    BY <1>1, <1>8 DEF Drained
  <1>9. CASE Signal \/ Elapse
    BY <1>1, <1>9 DEF Signal, Elapse
  <1> QED
    BY <1>2, <1>3, <1>4, <1>5, <1>6, <1>7, <1>8, <1>9

(* The steps of the loop that spawn nothing, the signal and the clock. *)
LEMMA LoopSteps ==
  ASSUME IInv, UNCHANGED tenant,
         \/ Top \/ IdleOver \/ Break \/ Acquire \/ FetchError \/ ErrorOver
         \/ Drained \/ Signal \/ Elapse
  PROVE  IInv'
  <1>1. UNCHANGED <<task, due, arrived, done, cache, forced, tenant>>
    BY DEF Top, IdleOver, Break, Acquire, FetchError, ErrorOver, Drained,
           Signal, Elapse
  <1>2. NothingLost' /\ TaskInv' /\ Busy' = Busy /\ Cardinality(Busy) \in Nat
    BY <1>1, TasksRest
  <1>3. TypeOK /\ PermitsConserved /\ LoopInv /\ TickInv
    BY DEF IInv, PollerInv
  <1>4. /\ permits' \in 0 .. MaxConcurrent
        /\ loop' # "stopped" =>
             permits' + Cardinality(Busy)
               + (IF granted' \/ loop' = "fetch" THEN 1 ELSE 0) = MaxConcurrent
    BY <1>2, <1>3, PermitsAreBusy, LoopPermits
  <1>5. PermitsConserved'
    BY <1>1, <1>4 DEF PermitsConserved, Busy, MaxConcurrent
  <1>6. TypeOK'
    <2>1. faults' \in 0 .. MaxFaults
      BY <1>3, PollerAssumption DEF TypeOK, Fault, Top, IdleOver, Break, Acquire,
         FetchError, ErrorOver, Drained, Signal, Elapse
    <2>2. /\ loop' \in {"top", "idle", "select", "fetch", "error", "drain", "stopped"}
          /\ idle' \in BOOLEAN /\ cancel' \in BOOLEAN /\ granted' \in BOOLEAN
          /\ stale' \in BOOLEAN
      BY <1>3 DEF TypeOK, Top, IdleOver, Break, Acquire, FetchError, ErrorOver,
         Drained, Signal, Elapse
    <2> QED
      BY <1>1, <1>3, <1>4, <2>1, <2>2 DEF TypeOK, TenantsTypeOK, MaxConcurrent
  <1>7. LoopInv'
    <2>1. ASSUME Drained PROVE \A t \in Tasks : task[t].at = "off"
      <3>1. permits = MaxConcurrent /\ loop # "stopped" /\ MaxConcurrent \in Nat
        BY <2>1, TaskCount DEF Drained
      <3>2. Cardinality(Busy) = 0
        BY <1>2, <1>3, <3>1, PermitsAreBusy
      <3>3. Busy \in SUBSET Tasks
        BY DEF Busy
      <3>4. Busy = {}
        BY <3>2, <3>3, TaskCount
      <3> QED
        BY <3>4 DEF Busy
    <2> QED
      BY <1>1, <1>3, <2>1 DEF TypeOK, LoopInv, Top, IdleOver, Break,
         Acquire, FetchError, ErrorOver, Drained, Signal, Elapse
  <1>8. TickInv'
    BY <1>3 DEF TypeOK, LoopInv, TickInv, Top, IdleOver, Break, Acquire,
       FetchError, ErrorOver, Drained, Signal, Elapse
  <1> QED
    BY <1>2, <1>5, <1>6, <1>7, <1>8 DEF IInv, PollerInv

(* Workspaces appear and become usable beside the worker. *)
LEMMA TenantStep ==
  ASSUME IInv, TenantsNext, UNCHANGED pollerVars
  PROVE  IInv'
  <1>1. UNCHANGED <<loop, idle, cancel, permits, granted, stale, cache, task, due,
                    arrived, done, faults, forced>>
    BY DEF pollerVars
  <1>2. TenantsTypeOK'
    BY DEF IInv, PollerInv, TypeOK, TenantsTypeOK, TenantsNext, Register, Provide
  <1>3. TypeOK'
    BY <1>1, <1>2 DEF IInv, PollerInv, TypeOK, MaxConcurrent
  <1>4. NothingLost' /\ TaskInv'
    BY <1>1, TasksRest
  <1> QED
    BY <1>1, <1>3, <1>4 DEF IInv, PollerInv, PermitsConserved, MaxConcurrent,
       LoopInv, TickInv

(* An execution becomes due. *)
LEMMA ArriveStep ==
  ASSUME IInv, UNCHANGED tenant, NEW s \in Slugs, Arrive(s)
  PROVE  IInv'
  <1>1. /\ UNCHANGED <<loop, idle, cancel, permits, granted, stale, cache, task,
                       done, faults, forced, tenant>>
        /\ arrived[s] < MaxDue
        /\ arrived' = [arrived EXCEPT ![s] = @ + 1]
        /\ due' = [due EXCEPT ![s] = @ + 1]
    BY DEF Arrive
  <1>2. TypeOK /\ NothingLost
    BY DEF IInv, PollerInv
  <1>3. TypeOK'
    BY <1>1, <1>2, PollerAssumption, SMTT(60) DEF TypeOK, TenantsTypeOK, MaxConcurrent
  <1>4. NothingLost'
    <2>1. \A u \in Slugs : Running(u)' = Running(u) /\ Cardinality(Running(u)) \in Nat
      BY <1>1, TaskCount DEF Running
    <2> QED
      BY <1>1, <1>2, <2>1 DEF TypeOK, NothingLost
  <1> QED
    BY <1>1, <1>3, <1>4 DEF IInv, PollerInv, PermitsConserved, MaxConcurrent,
       TaskInv, LoopInv, TickInv

-----------------------------------------------------------------------------
(* Steps that spawn or drop tasks.                                         *)

(* A task is spawned with the permit the loop has acquired. *)
LEMMA SpawnStep ==
  ASSUME IInv, UNCHANGED tenant, FetchCached \/ FetchActive
  PROVE  IInv'
  <1>1. TypeOK /\ PermitsConserved /\ NothingLost /\ TaskInv /\ LoopInv /\ loop = "fetch"
    BY DEF IInv, PollerInv, FetchCached, FetchActive
  <1>2. PICK list \in Seq(Slugs) : Spawn(list) /\ cache' \in Seq(Slugs)
    <2>1. CASE FetchCached
      BY <1>1, <2>1 DEF FetchCached, TypeOK
    <2>2. CASE FetchActive
      BY <2>2, ListTypes DEF FetchActive
    <2> QED
      BY <2>1, <2>2
  <1>3. PICK t \in Tasks :
          /\ task[t].at = "off"
          /\ task' = [task EXCEPT ![t] = [Free EXCEPT !.at = "next", !.todo = list]]
          /\ loop' = "top"
          /\ UNCHANGED <<idle, cancel, permits, granted, stale, due, arrived, done,
                         faults, forced>>
    BY <1>2 DEF Spawn
  <1> DEFINE w == [Free EXCEPT !.at = "next", !.todo = list]
  <1>4. w \in TaskState /\ w.at = "next"
    BY FreeTypes
  <1> HIDE DEF w
  <1>5. task \in [Tasks -> TaskState] /\ task' = [task EXCEPT ![t] = w]
    BY <1>1, <1>3 DEF TypeOK, TaskState, w
  <1>6. TypeOK'
    <2>1. task' \in [Tasks -> TaskState]
      BY <1>4, <1>5
    <2> QED
      BY <1>1, <1>2, <1>3, <2>1 DEF TypeOK, TenantsTypeOK, MaxConcurrent, TaskState
  <1>7. PermitsConserved'
    <2>1. Busy' = Busy \cup {t} /\ t \notin Busy /\ Busy \in SUBSET Tasks
      BY <1>3, <1>4, <1>5 DEF Busy
    <2>2. Cardinality(Busy') = Cardinality(Busy) + 1 /\ Cardinality(Busy) \in Nat
      BY <2>1, TaskCount
    <2>3. permits + Cardinality(Busy) + 1 = MaxConcurrent
      BY <1>1, PermitsAreBusy
    <2>4. permits' + Cardinality(Busy') + 0 = MaxConcurrent /\ ~granted'
      BY <1>1, <1>3, <2>2, <2>3, TaskCount DEF TypeOK, LoopInv
    <2> QED
      BY <1>3, <2>4 DEF PermitsConserved, Busy, MaxConcurrent
  <1>8. NothingLost'
    <2>1. \A u \in Slugs : Running(u)' = Running(u)
      BY <1>3, <1>4, <1>5 DEF Running
    <2> QED
      BY <1>1, <1>3, <2>1 DEF NothingLost
  <1>9. TaskInv' /\ LoopInv' /\ TickInv'
    BY <1>1, <1>3, <1>4, <1>5 DEF TaskInv, LoopInv, TickInv
  <1> QED
    BY <1>6, <1>7, <1>8, <1>9 DEF IInv, PollerInv

(* The shutdown timeout drops every task and rolls its transaction back. *)
LEMMA TimeoutStep ==
  ASSUME IInv, UNCHANGED tenant, DrainTimeout
  PROVE  IInv'
  <1>1. TypeOK /\ NothingLost /\ LoopInv
    BY DEF IInv, PollerInv
  <1>2. /\ loop = "drain" /\ loop' = "stopped" /\ forced' = TRUE
        /\ due' = [s \in Slugs |-> due[s] + Cardinality(Running(s))]
        /\ task' = [t \in Tasks |-> Free]
        /\ UNCHANGED <<idle, cancel, permits, granted, stale, cache, arrived, done,
                       faults, tenant>>
    BY DEF DrainTimeout
  <1>3. \A s \in Slugs : Cardinality(Running(s)) \in Nat
    BY TaskCount DEF Running
  <1>4. TypeOK'
    <2>1. due' \in [Slugs -> Nat]
      BY <1>1, <1>2, <1>3 DEF TypeOK
    <2>2. task' \in [Tasks -> TaskState]
      BY <1>2, FreeTypes
    <2> QED
      BY <1>1, <1>2, <2>1, <2>2 DEF TypeOK, TenantsTypeOK, MaxConcurrent, TaskState
  <1>5. \A t \in Tasks : task'[t].at = "off"
    BY <1>2, FreeTypes
  <1>6. NothingLost'
    <2>1. \A s \in Slugs : Running(s)' = {}
      BY <1>5 DEF Running
    <2>2. \A s \in Slugs : Cardinality(Running(s)') = 0
      BY <2>1, FS_EmptySet
    <2>3. \A s \in Slugs : due'[s] = due[s] + Cardinality(Running(s))
      BY <1>2
    <2> QED
      BY <1>1, <1>2, <1>3, <2>2, <2>3 DEF NothingLost, TypeOK
  <1>7. PermitsConserved' /\ TaskInv' /\ LoopInv' /\ TickInv'
    BY <1>1, <1>2, <1>5 DEF PermitsConserved, TaskInv, LoopInv, TickInv
  <1> QED
    BY <1>4, <1>6, <1>7 DEF IInv, PollerInv

-----------------------------------------------------------------------------
(* Steps of a task.                                                        *)

(* A task that goes on, keeping its permit, keeps the invariant if what it
   does to the executions of a schema balances. *)
LEMMA TaskMoves ==
  ASSUME IInv, NEW t \in Tasks, NEW w \in TaskState,
         task' = [task EXCEPT ![t] = w], task[t].at # "off", w.at # "off",
         w.at \in {"claim", "run"} => w.schema \in Slugs,
         UNCHANGED <<loop, cancel, permits, granted, stale, cache, forced, arrived,
                     tenant>>,
         idle' \in BOOLEAN, faults' \in 0 .. MaxFaults,
         due' \in [Slugs -> Nat], done' \in [Slugs -> Nat],
         \A s \in Slugs : due'[s] + Cardinality(Running(s)') + done'[s]
                            = due[s] + Cardinality(Running(s)) + done[s]
  PROVE  IInv'
  <1>1. /\ TypeOK /\ PermitsConserved /\ NothingLost /\ TaskInv /\ LoopInv /\ TickInv
        /\ task \in [Tasks -> TaskState]
    BY DEF IInv, PollerInv, TypeOK, TaskState
  <1>2. task'[t] = w /\ \A u \in Tasks \ {t} : task'[u] = task[u]
    BY <1>1
  <1>3. TypeOK'
    <2>1. task' \in [Tasks -> TaskState]
      BY <1>1
    <2> QED
      BY <1>1, <2>1 DEF TypeOK, TenantsTypeOK, MaxConcurrent, TaskState
  <1>4. PermitsConserved'
    <2>1. Busy' = Busy
      BY <1>2 DEF Busy
    <2> QED
      BY <1>1, <2>1 DEF PermitsConserved, Busy, MaxConcurrent
  <1>5. NothingLost'
    BY <1>1 DEF NothingLost
  <1>6. TaskInv'
    BY <1>1, <1>2 DEF TaskInv
  <1>7. LoopInv' /\ TickInv'
    BY <1>1, <1>2 DEF LoopInv, TickInv
  <1> QED
    BY <1>3, <1>4, <1>5, <1>6, <1>7 DEF IInv, PollerInv

(* The tasks that run an execution of a schema, when one task moves. *)
LEMMA RunningMoves ==
  ASSUME TypeOK, NEW t \in Tasks, NEW w \in TaskState,
         task' = [task EXCEPT ![t] = w], NEW s \in Slugs
  PROVE  /\ Cardinality(Running(s)) \in Nat
         /\ w.at # "run" /\ task[t].at # "run" => Running(s)' = Running(s)
         /\ w.at = "run" /\ task[t].at # "run" =>
              Cardinality(Running(s)')
                = IF w.schema = s THEN Cardinality(Running(s)) + 1
                                  ELSE Cardinality(Running(s))
         /\ w.at # "run" /\ task[t].at = "run" =>
              Cardinality(Running(s)')
                = IF task[t].schema = s THEN Cardinality(Running(s)) - 1
                                        ELSE Cardinality(Running(s))
  <1>1. Running(s) \in SUBSET Tasks
    BY DEF Running
  <1>2. task'[t] = w /\ \A u \in Tasks \ {t} : task'[u] = task[u]
    BY DEF TypeOK
  <1>3. w.at # "run" /\ task[t].at # "run" => Running(s)' = Running(s)
    BY <1>2 DEF Running
  <1>4. ASSUME w.at = "run", task[t].at # "run"
        PROVE  Cardinality(Running(s)')
                 = IF w.schema = s THEN Cardinality(Running(s)) + 1
                                   ELSE Cardinality(Running(s))
    <2>1. t \notin Running(s)
      BY <1>4 DEF Running
    <2>2. w.schema = s => Running(s)' = Running(s) \cup {t}
      BY <1>2, <1>4 DEF Running
    <2>3. w.schema # s => Running(s)' = Running(s)
      BY <1>2, <1>4 DEF Running
    <2> QED
      BY <1>1, <2>1, <2>2, <2>3, TaskCount
  <1>5. ASSUME w.at # "run", task[t].at = "run"
        PROVE  Cardinality(Running(s)')
                 = IF task[t].schema = s THEN Cardinality(Running(s)) - 1
                                         ELSE Cardinality(Running(s))
    <2>1. task[t].schema = s => t \in Running(s) /\ Running(s)' = Running(s) \ {t}
      BY <1>2, <1>5 DEF Running
    <2>2. task[t].schema # s => Running(s)' = Running(s)
      BY <1>2, <1>5 DEF Running
    <2> QED
      BY <1>1, <2>1, <2>2, TaskCount
  <1> QED
    BY <1>1, <1>3, <1>4, <1>5, TaskCount

(* The steps of a task up to its claim, and its end without work, touch no
   execution. *)
LEMMA QuietStep ==
  ASSUME IInv, NEW t \in Tasks, NEW w \in TaskState,
         task' = [task EXCEPT ![t] = w], task[t].at \in {"next", "claim"},
         w.at \in {"next", "claim", "release"},
         w.at = "claim" => w.schema \in Slugs,
         UNCHANGED <<loop, cancel, permits, granted, stale, cache, forced, arrived,
                     due, done, tenant>>,
         idle' \in BOOLEAN, faults' \in 0 .. MaxFaults
  PROVE  IInv'
  <1>1. TypeOK
    BY DEF IInv, PollerInv
  <1>2. \A s \in Slugs : Running(s)' = Running(s)
    BY <1>1, RunningMoves
  <1>3. \A s \in Slugs : due'[s] + Cardinality(Running(s)') + done'[s]
                           = due[s] + Cardinality(Running(s)) + done[s]
    BY <1>2
  <1>4. due' \in [Slugs -> Nat] /\ done' \in [Slugs -> Nat]
    BY <1>1 DEF TypeOK
  <1> QED
    BY <1>3, <1>4, TaskMoves

(* begin, Skip and FoundNothing keep the invariant. *)
LEMMA LookStep ==
  ASSUME IInv, UNCHANGED tenant, NEW t \in Tasks,
         begin(t) \/ Skip(t) \/ FoundNothing(t)
  PROVE  IInv'
  <1>1. /\ task \in [Tasks -> TaskState] /\ task[t] \in TaskState
        /\ idle \in BOOLEAN /\ faults \in 0 .. MaxFaults /\ MaxFaults \in Nat
    BY PollerAssumption DEF IInv, PollerInv, TypeOK, TaskState
  <1>2. task[t].todo \in Seq(Slugs)
    BY <1>1 DEF TaskState
  <1>3. task[t].todo # <<>> =>
          Head(task[t].todo) \in Slugs /\ Tail(task[t].todo) \in Seq(Slugs)
    BY <1>2, HeadTailProperties
  <1>4. CASE begin(t)
    <2> DEFINE w == [at |-> "claim", todo |-> Tail(task[t].todo),
                     schema |-> Head(task[t].todo)]
    <2>1. /\ task[t].at = "next" /\ task[t].todo # <<>>
          /\ task' = [task EXCEPT ![t] = w]
          /\ UNCHANGED <<loop, idle, cancel, permits, granted, stale, cache, due,
                         arrived, done, faults, forced>>
      BY <1>1, <1>4 DEF begin
    <2>2. w \in TaskState /\ w.at = "claim" /\ w.schema \in Slugs
      BY <1>3, <2>1 DEF TaskState
    <2> HIDE DEF w
    <2> QED
      BY <1>1, <2>1, <2>2, QuietStep
  <1>5. CASE Skip(t)
    <2>1. /\ faults' \in 0 .. MaxFaults
          /\ UNCHANGED <<loop, idle, cancel, permits, granted, stale, cache, due,
                         arrived, done, forced>>
      BY <1>1, <1>5 DEF Skip, Fault
    <2>2. PICK w \in TaskState :
            /\ task' = [task EXCEPT ![t] = w] /\ w.at = "next"
            /\ task[t].at \in {"next", "claim"}
      <3>1. CASE task[t].at = "claim"
        <4> DEFINE w == [task[t] EXCEPT !.at = "next", !.schema = "none"]
        <4>1. task' = [task EXCEPT ![t] = w]
          BY <1>1, <1>5, <3>1 DEF Skip
        <4>2. w \in TaskState /\ w.at = "next"
          BY <1>1 DEF TaskState
        <4> QED
          BY <3>1, <4>1, <4>2
      <3>2. CASE task[t].at # "claim"
        <4> DEFINE w == [task[t] EXCEPT !.todo = Tail(task[t].todo)]
        <4>1. /\ task' = [task EXCEPT ![t] = w]
              /\ task[t].at = "next" /\ task[t].todo # <<>>
          BY <1>1, <1>5, <3>2 DEF Skip
        <4>2. w \in TaskState /\ w.at = "next"
          BY <1>1, <1>3, <4>1 DEF TaskState
        <4> QED
          BY <4>1, <4>2
      <3> QED
        BY <3>1, <3>2
    <2> QED
      BY <1>1, <2>1, <2>2, QuietStep
  <1>6. CASE FoundNothing(t)
    <2> DEFINE w == [Free EXCEPT !.at = "release"]
    <2>1. /\ task[t].at = "next" /\ idle' = TRUE
          /\ task' = [task EXCEPT ![t] = w]
          /\ UNCHANGED <<loop, cancel, permits, granted, stale, cache, due, arrived,
                         done, faults, forced>>
      BY <1>6 DEF FoundNothing
    <2>2. w \in TaskState /\ w.at = "release"
      BY FreeTypes
    <2> HIDE DEF w
    <2> QED
      BY <1>1, <2>1, <2>2, QuietStep
  <1> QED
    BY <1>4, <1>5, <1>6

(* A claim takes a due execution into the hands of its task, or finds none. *)
LEMMA ClaimStep ==
  ASSUME IInv, UNCHANGED tenant, NEW t \in Tasks, claim(t)
  PROVE  IInv'
  <1> DEFINE s == task[t].schema
  <1>1. /\ TypeOK /\ task \in [Tasks -> TaskState] /\ task[t] \in TaskState
        /\ due \in [Slugs -> Nat] /\ done \in [Slugs -> Nat]
        /\ idle \in BOOLEAN /\ faults \in 0 .. MaxFaults
    BY DEF IInv, PollerInv, TypeOK, TaskState
  <1>2. /\ task[t].at = "claim" /\ s \in Slugs
        /\ UNCHANGED <<loop, idle, cancel, permits, granted, stale, cache, arrived,
                       done, faults, forced>>
    BY DEF claim, IInv, TaskInv
  <1>3. CASE due[s] > 0
    <2> DEFINE w == [task[t] EXCEPT !.at = "run", !.todo = <<>>]
    <2>1. due' = [due EXCEPT ![s] = @ - 1] /\ task' = [task EXCEPT ![t] = w]
      BY <1>1, <1>3 DEF claim
    <2>2. w \in TaskState /\ w.at = "run" /\ w.schema = s
      BY <1>1, EmptySeq DEF TaskState
    <2> HIDE DEF w
    <2>3. due' \in [Slugs -> Nat]
      BY <1>1, <1>2, <1>3, <2>1
    <2>4. \A u \in Slugs :
            /\ Cardinality(Running(u)) \in Nat
            /\ Cardinality(Running(u)') = IF s = u THEN Cardinality(Running(u)) + 1
                                                   ELSE Cardinality(Running(u))
      BY <1>1, <1>2, <2>1, <2>2, RunningMoves, ZenonT(60)
    <2>5. \A u \in Slugs : due'[u] + Cardinality(Running(u)') + done'[u]
                             = due[u] + Cardinality(Running(u)) + done[u]
      <3> SUFFICES ASSUME NEW u \in Slugs
                   PROVE  due'[u] + Cardinality(Running(u)') + done'[u]
                            = due[u] + Cardinality(Running(u)) + done[u]
        OBVIOUS
      <3>1. /\ due[u] \in Nat /\ done[u] \in Nat /\ done' = done
            /\ due'[u] = IF s = u THEN due[u] - 1 ELSE due[u]
        BY <1>1, <1>2, <2>1
      <3> QED
        BY <2>4, <3>1
    <2> QED
      BY <1>1, <1>2, <2>1, <2>2, <2>3, <2>5, TaskMoves
  <1>4. CASE ~(due[s] > 0)
    <2> DEFINE w == [task[t] EXCEPT !.at = "next", !.schema = "none"]
    <2>1. due' = due /\ task' = [task EXCEPT ![t] = w]
      BY <1>1, <1>4 DEF claim
    <2>2. w \in TaskState /\ w.at = "next"
      BY <1>1 DEF TaskState
    <2> HIDE DEF w
    <2> QED
      BY <1>1, <1>2, <2>1, <2>2, QuietStep
  <1> QED
    BY <1>3, <1>4

(* A run ends: its execution is done, or due again. *)
LEMMA ProcessStep ==
  ASSUME IInv, UNCHANGED tenant, NEW t \in Tasks, Process(t) \/ ProcessAgain(t)
  PROVE  IInv'
  <1> DEFINE s == task[t].schema
             w == [Free EXCEPT !.at = "release"]
  <1>1. /\ TypeOK /\ task \in [Tasks -> TaskState] /\ task[t] \in TaskState
        /\ due \in [Slugs -> Nat] /\ done \in [Slugs -> Nat]
        /\ idle \in BOOLEAN /\ faults \in 0 .. MaxFaults /\ MaxFaults \in Nat
    BY PollerAssumption DEF IInv, PollerInv, TypeOK, TaskState
  <1>2. /\ task[t].at = "run" /\ s \in Slugs
        /\ task' = [task EXCEPT ![t] = w]
        /\ UNCHANGED <<loop, idle, cancel, permits, granted, stale, cache, arrived,
                       forced>>
    BY DEF Process, ProcessAgain, IInv, TaskInv
  <1>3. w \in TaskState /\ w.at = "release"
    BY FreeTypes
  <1> HIDE DEF w
  <1>4. /\ faults' \in 0 .. MaxFaults
        /\ \/ done' = [done EXCEPT ![s] = @ + 1] /\ due' = due
           \/ due' = [due EXCEPT ![s] = @ + 1] /\ done' = done
    BY <1>1 DEF Process, ProcessAgain, Fault
  <1>5. due' \in [Slugs -> Nat] /\ done' \in [Slugs -> Nat]
    BY <1>1, <1>2, <1>4
  <1>6. \A u \in Slugs :
          /\ Cardinality(Running(u)) \in Nat
          /\ Cardinality(Running(u)') = IF s = u THEN Cardinality(Running(u)) - 1
                                                 ELSE Cardinality(Running(u))
    BY <1>1, <1>2, <1>3, RunningMoves
  <1>7. \A u \in Slugs : due'[u] + Cardinality(Running(u)') + done'[u]
                           = due[u] + Cardinality(Running(u)) + done[u]
    <2> SUFFICES ASSUME NEW u \in Slugs
                 PROVE  due'[u] + Cardinality(Running(u)') + done'[u]
                          = due[u] + Cardinality(Running(u)) + done[u]
      OBVIOUS
    <2>1. /\ due[u] \in Nat /\ done[u] \in Nat
          /\ due'[u] + done'[u] = IF s = u THEN due[u] + done[u] + 1
                                           ELSE due[u] + done[u]
          /\ due'[u] \in Nat /\ done'[u] \in Nat
      BY <1>1, <1>2, <1>4, <1>5
    <2> QED
      BY <1>6, <2>1
  <1> QED
    BY <1>1, <1>2, <1>3, <1>4, <1>5, <1>7, TaskMoves

(* A task drops its permit: it is free again, or the waiting loop has it. *)
LEMMA DropStep ==
  ASSUME IInv, UNCHANGED tenant, NEW t \in Tasks, DropPermit(t)
  PROVE  IInv'
  <1> DEFINE waiting == loop = "select" /\ permits = 0 /\ ~granted
  <1>1. /\ TypeOK /\ PermitsConserved /\ NothingLost /\ TaskInv /\ LoopInv /\ TickInv
        /\ task \in [Tasks -> TaskState]
    BY DEF IInv, PollerInv, TypeOK, TaskState
  <1>2. /\ task[t].at = "release"
        /\ task' = [task EXCEPT ![t] = Free]
        /\ granted' = (granted \/ waiting)
        /\ permits' = IF waiting THEN permits ELSE permits + 1
        /\ UNCHANGED <<loop, idle, cancel, stale, cache, due, arrived, done, faults,
                       forced, tenant>>
    BY DEF DropPermit
  <1>3. task'[t] = Free /\ \A u \in Tasks \ {t} : task'[u] = task[u]
    BY <1>1, <1>2
  <1>4. loop # "stopped" /\ granted \in BOOLEAN /\ (granted => loop = "select")
    BY <1>1, <1>2 DEF LoopInv, TypeOK
  <1>5. /\ Cardinality(Busy) \in Nat /\ MaxConcurrent \in Nat
        /\ Cardinality(Busy') \in Nat
        /\ Cardinality(Busy') = Cardinality(Busy) - 1
    <2>1. Busy \in SUBSET Tasks /\ Busy' \in SUBSET Tasks
      BY DEF Busy
    <2>2. t \in Busy /\ Busy' = Busy \ {t}
      BY <1>2, <1>3, FreeTypes DEF Busy
    <2> QED
      BY <2>1, <2>2, TaskCount
  <1>6. permits + Cardinality(Busy) + (IF granted \/ loop = "fetch" THEN 1 ELSE 0)
          = MaxConcurrent
    BY <1>1, <1>4, PermitsAreBusy
  <1>7. permits' + Cardinality(Busy') + (IF granted' \/ loop' = "fetch" THEN 1 ELSE 0)
          = MaxConcurrent /\ permits' \in Nat
    <2>1. permits \in Nat
      BY <1>1 DEF TypeOK
    <2>2. CASE waiting
      <3>1. /\ permits' = permits /\ loop' = loop /\ (granted' \/ loop' = "fetch")
            /\ ~(granted \/ loop = "fetch")
        BY <1>2, <2>2
      <3>2. permits + Cardinality(Busy) + 0 = MaxConcurrent
        BY <1>6, <3>1
      <3>3. permits' + Cardinality(Busy') + 1 = MaxConcurrent /\ permits' \in Nat
        BY <3>1, <3>2, <1>5, <2>1
      <3> QED
        BY <3>1, <3>3
    <2>3. CASE ~waiting
      <3>1. permits' = permits + 1 /\ loop' = loop
        BY <1>2, <2>3
      <3>2. (granted' \/ loop' = "fetch") <=> (granted \/ loop = "fetch")
        BY <1>2, <2>3
      <3>3. CASE granted \/ loop = "fetch"
        <4>1. permits + Cardinality(Busy) + 1 = MaxConcurrent
          BY <1>6, <3>3
        <4>2. permits' + Cardinality(Busy') + 1 = MaxConcurrent /\ permits' \in Nat
          BY <4>1, <3>1, <1>5, <2>1
        <4> QED
          BY <4>2, <3>2, <3>3
      <3>4. CASE ~(granted \/ loop = "fetch")
        <4>1. permits + Cardinality(Busy) + 0 = MaxConcurrent
          BY <1>6, <3>4
        <4>2. permits' + Cardinality(Busy') + 0 = MaxConcurrent /\ permits' \in Nat
          BY <4>1, <3>1, <1>5, <2>1
        <4> QED
          BY <4>2, <3>2, <3>4
      <3> QED
        BY <3>3, <3>4
    <2> QED
      BY <2>2, <2>3
  <1>8. PermitsConserved'
    BY <1>7 DEF PermitsConserved, Busy, MaxConcurrent
  <1>9. TypeOK'
    <2>1. permits' \in 0 .. MaxConcurrent
      BY <1>5, <1>7
    <2>2. task' \in [Tasks -> TaskState]
      BY <1>1, <1>2, FreeTypes
    <2>3. granted' \in BOOLEAN
      BY <1>2, <1>4
    <2> QED
      BY <1>1, <1>2, <2>1, <2>2, <2>3 DEF TypeOK, TenantsTypeOK, MaxConcurrent, TaskState
  <1>10. NothingLost'
    <2>1. \A s \in Slugs : Running(s)' = Running(s)
      BY <1>2, <1>3, FreeTypes DEF Running
    <2> QED
      BY <1>1, <1>2, <2>1 DEF NothingLost
  <1>11. TaskInv' /\ LoopInv'
    BY <1>1, <1>2, <1>3, <1>4, FreeTypes DEF TaskInv, LoopInv
  <1>12. TickInv'
    BY <1>1, <1>2 DEF TickInv, TypeOK
  <1> QED
    BY <1>8, <1>9, <1>10, <1>11, <1>12 DEF IInv, PollerInv

-----------------------------------------------------------------------------
(* Theorems about the worker process.                                      *)

(* A worker that starts satisfies the invariant. *)
LEMMA InitIInv == Init => IInv
  <1> SUFFICES ASSUME Init PROVE IInv
    OBVIOUS
  <1>1. TenantsTypeOK
    BY TenantsAssumption DEF Init, TenantsInit, TenantsTypeOK
  <1>2. \A t \in Tasks : task[t] = Free /\ task[t].at = "off"
    BY FreeTypes DEF Init, PollerInit
  <1>3. Busy = {} /\ Cardinality(Busy) = 0 /\ MaxConcurrent \in Nat
    BY <1>2, FS_EmptySet, TaskCount DEF Busy
  <1>4. \A s \in Slugs : Running(s) = {} /\ Cardinality(Running(s)) = 0
    BY <1>2, FS_EmptySet DEF Running
  <1>5. TypeOK
    <2>1. task \in [Tasks -> TaskState]
      BY FreeTypes DEF Init, PollerInit
    <2>2. permits \in 0 .. MaxConcurrent
      BY <1>3 DEF Init, PollerInit
    <2>3. /\ due \in [Slugs -> Nat] /\ arrived \in [Slugs -> 0 .. MaxDue]
          /\ done \in [Slugs -> Nat]
      BY PollerAssumption DEF Init, PollerInit
    <2>4. faults \in 0 .. MaxFaults
      BY PollerAssumption DEF Init, PollerInit
    <2>5. cache \in Seq(Slugs)
      BY EmptySeq DEF Init, PollerInit
    <2> QED
      BY <1>1, <2>1, <2>2, <2>3, <2>4, <2>5 DEF Init, PollerInit, TypeOK, TaskState
  <1>6. PermitsConserved
    BY <1>3, PermitsAreBusy DEF Init, PollerInit
  <1>7. NothingLost
    BY <1>4 DEF Init, PollerInit, NothingLost
  <1>8. TaskInv /\ LoopInv /\ TickInv
    BY <1>2 DEF Init, PollerInit, TaskInv, LoopInv, TickInv
  <1> QED
    BY <1>5, <1>6, <1>7, <1>8 DEF IInv, PollerInv

(* Every step of the worker, its environment and the workspaces keeps it. *)
LEMMA NextIInv == IInv /\ [Next]_vars => IInv'
  <1> SUFFICES ASSUME IInv, [Next]_vars PROVE IInv'
    OBVIOUS
  <1>1. CASE TenantsNext /\ UNCHANGED pollerVars
    BY <1>1, TenantStep
  <1>2. CASE PollerStep /\ UNCHANGED tenant
    <2>1. CASE LoopStep
      BY <1>2, <2>1, LoopSteps, SpawnStep, TimeoutStep DEF LoopStep
    <2>2. CASE \E t \in Tasks : TaskStep(t)
      BY <1>2, <2>2, LookStep, ClaimStep, ProcessStep, DropStep DEF TaskStep
    <2>3. CASE \E s \in Slugs : Arrive(s)
      BY <1>2, <2>3, ArriveStep
    <2>4. CASE Signal \/ Elapse
      BY <1>2, <2>4, LoopSteps
    <2> QED
      BY <1>2, <2>1, <2>2, <2>3, <2>4 DEF PollerStep
  <1>3. CASE UNCHANGED vars
    <2>1. UNCHANGED <<tenant, loop, idle, cancel, permits, granted, stale, cache, task,
                      due, arrived, done, faults, forced>>
      BY <1>3 DEF vars, pollerVars
    <2>2. NothingLost' /\ TaskInv'
      BY <2>1, TasksRest
    <2> QED
      BY <2>1, <2>2 DEF IInv, PollerInv, TypeOK, TenantsTypeOK, PermitsConserved,
         MaxConcurrent, LoopInv, TickInv
  <1> QED
    BY <1>1, <1>2, <1>3 DEF Next

(* The inductive invariant of the worker holds throughout. *)
THEOREM Invariance == Spec => []IInv
  BY InitIInv, NextIInv, PTL DEF Spec

(* The books of the worker balance at every await: no permit is leaked or
   doubled, and no due execution is lost or served twice. *)
THEOREM BooksBalance == Spec => []PollerInv
  <1>1. IInv => PollerInv
    BY DEF IInv
  <1> QED
    BY <1>1, Invariance, PTL

(* When run returns without its timeout, no task is in flight. *)
THEOREM ShutsDownGracefully == Spec => []GracefulShutdown
  <1>1. IInv => GracefulShutdown
    BY DEF IInv, LoopInv, GracefulShutdown
  <1> QED
    BY <1>1, Invariance, PTL

(* poller_ok is false only when the loop is held up: never because nothing *)
(* is due, and never while it waits for a permit that a task holds.        *)
THEOREM StaleIsBlocked == Spec => []StaleMeansBlocked
  <1>1. IInv => StaleMeansBlocked
    BY DEF IInv, PollerInv, TypeOK, TickInv, StaleMeansBlocked, poller_ok
  <1> QED
    BY <1>1, Invariance, PTL

-----------------------------------------------------------------------------
(* Inductions and recursions over the naturals.                            *)

(* The least-number principle, from which the inductions over naturals follow. *)
LessThan == {ss \in Nat \X Nat : ss[1] < ss[2]}

(* A set of naturals that is not empty has a least one. *)
LEMMA LeastNumber ==
  ASSUME NEW T \in SUBSET Nat, T # {}
  PROVE  \E x \in T : \A y \in T : x <= y
  <1>1. LessThan = OpToRel(<, Nat)
    BY DEF LessThan, OpToRel
  <1>2. IsWellFoundedOn(LessThan, Nat)
    BY <1>1, NatLessThanWellFounded
  <1>3. PICK x \in T : \A y \in T : ~ (<<y, x>> \in LessThan)
    BY <1>2, WFMin
  <1>4. ASSUME NEW y \in T PROVE x <= y
    <2>1. <<y, x>> \notin LessThan /\ x \in Nat /\ y \in Nat
      BY <1>3
    <2> QED
      BY <2>1 DEF LessThan
  <1> QED
    BY <1>3, <1>4

(* A set that has 0, and with every natural the next, has them all. *)
LEMMA SetInduction ==
  ASSUME NEW S, 0 \in S, \A n \in Nat : n \in S => n + 1 \in S
  PROVE  Nat \subseteq S
  <1> SUFFICES ASSUME Nat \ S # {} PROVE FALSE
    OBVIOUS
  <1>1. PICK x \in Nat \ S : \A y \in Nat \ S : x <= y
    <2>1. Nat \ S \in SUBSET Nat
      OBVIOUS
    <2> QED
      BY <2>1, LeastNumber
  <1>2. x # 0 /\ x - 1 \in Nat
    BY <1>1
  <1>3. x - 1 \in S
    BY <1>1, <1>2
  <1> QED
    BY <1>1, <1>2, <1>3

(* A function on the naturals, given where it starts and how it goes on. *)
Begun(g, n, a, h) ==
  /\ g[0] = a
  /\ \A i \in 0 .. n - 1 : g[i + 1] = h[i][g[i]]

Follows(f, S, a, h) ==
  f \in [Nat -> S] /\ f[0] = a /\ \A n \in Nat : f[n + 1] = h[n][f[n]]

(* There is one such function, for any start and any steps. *)
LEMMA RecursionExists ==
  ASSUME NEW S, NEW a \in S, NEW h \in [Nat -> [S -> S]]
  PROVE  \E f : Follows(f, S, a, h)
  <1> DEFINE Good == {n \in Nat : \E g \in [0 .. n -> S] : Begun(g, n, a, h)}
  <1>1. 0 \in Good
    <2>1. [i \in 0 .. 0 |-> a] \in [0 .. 0 -> S] /\ Begun([i \in 0 .. 0 |-> a], 0, a, h)
      BY DEF Begun
    <2> QED
      BY <2>1
  <1>2. ASSUME NEW n \in Nat, n \in Good PROVE n + 1 \in Good
    <2>1. PICK g \in [0 .. n -> S] : Begun(g, n, a, h)
      BY <1>2
    <2>2. PICK k : k = [i \in 0 .. n + 1 |-> IF i <= n THEN g[i] ELSE h[n][g[n]]]
      OBVIOUS
    <2>3. k \in [0 .. n + 1 -> S]
      BY <2>1, <2>2
    <2>4. ASSUME NEW i \in 0 .. n PROVE k[i + 1] = h[i][k[i]]
      <3>1. k[i] = g[i]
        BY <2>2
      <3>2. CASE i = n
        BY <2>2, <3>1, <3>2
      <3>3. CASE i # n
        <4>1. i \in 0 .. n - 1 /\ i + 1 \in 0 .. n + 1 /\ i + 1 <= n
          BY <3>3
        <4>2. k[i + 1] = g[i + 1]
          BY <2>2, <4>1
        <4> QED
          BY <2>1, <3>1, <4>1, <4>2 DEF Begun
      <3> QED
        BY <3>2, <3>3
    <2>5. k[0] = a
      BY <2>1, <2>2 DEF Begun
    <2>6. Begun(k, n + 1, a, h)
      BY <2>4, <2>5 DEF Begun
    <2> QED
      BY <2>3, <2>6
  <1>3. Nat \subseteq Good
    <2> HIDE DEF Good
    <2> QED
      BY <1>1, <1>2, SetInduction
  <1>4. ASSUME NEW n \in Nat, NEW m \in Nat, NEW g, NEW k, Begun(g, n, a, h), Begun(k, m, a, h)
        PROVE  \A i \in Nat : i <= n /\ i <= m => g[i] = k[i]
    <2> DEFINE Like == {i \in Nat : i <= n /\ i <= m => g[i] = k[i]}
    <2>1. 0 \in Like
      BY <1>4 DEF Begun
    <2>2. ASSUME NEW i \in Nat, i \in Like PROVE i + 1 \in Like
      <3> SUFFICES ASSUME i + 1 <= n, i + 1 <= m PROVE g[i + 1] = k[i + 1]
        OBVIOUS
      <3>1. g[i] = k[i] /\ i \in 0 .. n - 1 /\ i \in 0 .. m - 1
        BY <2>2
      <3> QED
        BY <1>4, <3>1 DEF Begun
    <2>3. Nat \subseteq Like
      <3> HIDE DEF Like
      <3> QED
        BY <2>1, <2>2, SetInduction
    <2> QED
      BY <2>3
  <1> DEFINE G(n) == CHOOSE g \in [0 .. n -> S] : Begun(g, n, a, h)
             F == [n \in Nat |-> G(n)[n]]
  <1>5. \A n \in Nat : G(n) \in [0 .. n -> S] /\ Begun(G(n), n, a, h)
    BY <1>3
  <1> HIDE DEF G, Good
  <1>6. F \in [Nat -> S]
    <2>1. \A n \in Nat : G(n)[n] \in S
      BY <1>5
    <2> QED
      BY <2>1
  <1>7. F[0] = a
    BY <1>5 DEF Begun
  <1>8. ASSUME NEW n \in Nat PROVE F[n + 1] = h[n][F[n]]
    <2>1. n + 1 \in Nat /\ n \in 0 .. (n + 1) - 1
      OBVIOUS
    <2>2. G(n + 1)[n + 1] = h[n][G(n + 1)[n]]
      BY <1>5, <2>1 DEF Begun
    <2>3. G(n + 1)[n] = G(n)[n]
      BY <1>4, <1>5, <2>1
    <2> QED
      BY <2>1, <2>2, <2>3
  <1>9. PICK f : f = F
    OBVIOUS
  <1> HIDE DEF F
  <1>10. f \in [Nat -> S] /\ f[0] = a
    BY <1>6, <1>7, <1>9
  <1>11. \A n \in Nat : f[n + 1] = h[n][f[n]]
    BY <1>8, <1>9
  <1> QED
    BY <1>10, <1>11 DEF Follows

-----------------------------------------------------------------------------
(* The delay of a retry.                                                   *)

(* The powers of two are what their recursion says. *)
LEMMA TwoIs ==
  /\ Two \in [Nat -> Nat] /\ Two[0] = 1
  /\ \A n \in Nat : Two[n + 1] = 2 * Two[n]
  <1>1. PICK h : h = [n \in Nat |-> [x \in Nat |-> 2 * x]]
    OBVIOUS
  <1>2. h \in [Nat -> [Nat -> Nat]]
    BY <1>1
  <1>3. PICK f \in [Nat -> Nat] : f[0] = 1 /\ \A n \in Nat : f[n + 1] = h[n][f[n]]
    <2>1. PICK a : a = 1
      OBVIOUS
    <2>2. a \in Nat
      BY <2>1
    <2>3. \E f : Follows(f, Nat, a, h)
      BY <1>2, <2>2, RecursionExists
    <2> QED
      BY <2>1, <2>3 DEF Follows
  <1>4. \A n \in Nat : f[n + 1] = 2 * f[n]
    BY <1>1, <1>3
  <1>5. f = [n \in Nat |-> IF n = 0 THEN 1 ELSE 2 * f[n - 1]]
    <2>1. ASSUME NEW n \in Nat PROVE f[n] = IF n = 0 THEN 1 ELSE 2 * f[n - 1]
      <3>1. CASE n = 0
        BY <1>3, <3>1
      <3>2. CASE n # 0
        <4>1. n - 1 \in Nat /\ (n - 1) + 1 = n
          BY <3>2
        <4> QED
          BY <1>4, <3>2, <4>1
      <3> QED
        BY <3>1, <3>2
    <2> QED
      BY <2>1, <1>3
  <1>6. Two = [n \in Nat |-> IF n = 0 THEN 1 ELSE 2 * Two[n - 1]]
    BY <1>5 DEF Two
  <1>7. Two[0] = 1
    BY <1>6
  <1>8. ASSUME NEW n \in Nat PROVE Two[n + 1] = 2 * Two[n]
    <2>1. n + 1 \in Nat /\ n + 1 # 0 /\ (n + 1) - 1 = n
      OBVIOUS
    <2> QED
      BY <1>6, <2>1
  <1>9. Nat \subseteq {n \in Nat : Two[n] \in Nat}
    <2> DEFINE T == {n \in Nat : Two[n] \in Nat}
    <2>1. 0 \in T
      BY <1>7
    <2>2. ASSUME NEW n \in Nat, n \in T PROVE n + 1 \in T
      BY <1>8, <2>2
    <2> HIDE DEF T
    <2>3. Nat \subseteq T
      BY <2>1, <2>2, SetInduction
    <2> QED
      BY <2>3 DEF T
  <1>10. Two \in [Nat -> Nat]
    BY <1>6, <1>9
  <1> QED
    BY <1>7, <1>8, <1>10

(* They grow. *)
LEMMA TwoGrows ==
  /\ \A n \in Nat : Two[n] >= 1
  /\ \A m, n \in Nat : m <= n => Two[m] <= Two[n]
  /\ \A m, n \in Nat : m < n => 2 * Two[m] <= Two[n]
  <1>1. Nat \subseteq {n \in Nat : Two[n] >= 1}
    <2> DEFINE T == {n \in Nat : Two[n] >= 1}
    <2>1. 0 \in T
      BY TwoIs
    <2>2. ASSUME NEW n \in Nat, n \in T PROVE n + 1 \in T
      BY <2>2, TwoIs
    <2> HIDE DEF T
    <2>3. Nat \subseteq T
      BY <2>1, <2>2, SetInduction
    <2> QED
      BY <2>3 DEF T
  <1>2. ASSUME NEW m \in Nat PROVE \A k \in Nat : Two[m] <= Two[m + k]
    <2> DEFINE T == {k \in Nat : Two[m] <= Two[m + k]}
    <2>1. 0 \in T
      BY TwoIs
    <2>2. ASSUME NEW k \in Nat, k \in T PROVE k + 1 \in T
      <3>1. Two[(m + k) + 1] = 2 * Two[m + k] /\ Two[m + k] \in Nat /\ Two[m] \in Nat
        BY TwoIs
      <3>2. (m + k) + 1 = m + (k + 1)
        OBVIOUS
      <3> QED
        BY <2>2, <3>1, <3>2
    <2> HIDE DEF T
    <2>3. Nat \subseteq T
      BY <2>1, <2>2, SetInduction
    <2> QED
      BY <2>3 DEF T
  <1>3. ASSUME NEW m \in Nat, NEW n \in Nat, m <= n PROVE Two[m] <= Two[n]
    <2>1. n - m \in Nat /\ m + (n - m) = n
      BY <1>3
    <2> QED
      BY <1>2, <2>1
  <1>4. ASSUME NEW m \in Nat, NEW n \in Nat, m < n PROVE 2 * Two[m] <= Two[n]
    <2>1. m + 1 \in Nat /\ m + 1 <= n
      BY <1>4
    <2> QED
      BY <1>3, <2>1, TwoIs
  <1> QED
    BY <1>1, <1>3, <1>4

(* Half the word has room for every power below its sign bit. *)
LEMMA HalfIs == Half \in Nat /\ Half >= 1 /\ \A n \in Nat : n < Width - 1 => 2 * Two[n] <= Half
  BY TwoIs, TwoGrows, BackoffAssumption, SMTT(40) DEF Half

(* A word wraps to a word, and what fits in it stays. *)
LEMMA WrapIs ==
  ASSUME NEW x \in Int
  PROVE  Wrap(x) \in Int /\ (0 <= x /\ x < Half => Wrap(x) = x)
  <1>1. PICK b : b = 2 * Half
    OBVIOUS
  <1>2. b \in Nat /\ b >= 1 /\ Half \in Nat
    BY <1>1, HalfIs
  <1>3. (x + Half) % b \in Int
    BY <1>2
  <1>4. ASSUME 0 <= x, x < Half PROVE (x + Half) % b = x + Half
    BY <1>1, <1>2, <1>4
  <1>5. Wrap(x) = ((x + Half) % b) - Half
    BY <1>1 DEF Wrap
  <1> QED
    BY <1>2, <1>3, <1>4, <1>5

(* clamp gives its argument or a limit. *)
LEMMA ClampIs ==
  ASSUME NEW x \in Int, NEW hi \in Nat
  PROVE  /\ clamp(x, hi) \in 0 .. hi
         /\ x >= 0 => clamp(x, hi) <= x
         /\ x >= 0 => clamp(x, hi) = x \/ clamp(x, hi) = hi
  BY DEF clamp

Policy == [backoff : STRING, initial_delay_ms : Nat, max_delay_ms : Nat, max_attempts : Int]

(* pow is the power of two as long as that fits the word. *)
LEMMA PowIs ==
  ASSUME NEW n \in Nat
  PROVE  pow(n) \in Int /\ (n < Width - 1 => pow(n) = Two[n])
  <1>1. Two[n] \in Nat /\ Two[n] >= 1 /\ Width \in Nat \ {0}
    BY TwoIs, TwoGrows, BackoffAssumption
  <1>2. Wrap(Two[n]) \in Int /\ (Two[n] < Half => Wrap(Two[n]) = Two[n])
    BY <1>1, WrapIs
  <1>3. n < Width - 1 => Two[n] < Half
    BY <1>1, HalfIs
  <1> QED
    BY <1>1, <1>2, <1>3 DEF pow

(* A delay that fits with its jitter is the documented one. *)
LEMMA DelayIs ==
  ASSUME NEW p \in Policy, NEW k \in Nat, k > 0
  PROVE  /\ Delay(p, k) \in Int /\ Nominal(p, k) \in Nat
         /\ Fits(p, k) => Delay(p, k) = Nominal(p, k)
  <1>1. PICK d : d = p.initial_delay_ms
    OBVIOUS
  <1>2. d \in Nat
    BY <1>1 DEF Policy
  <1>3. CASE p.backoff = "fixed"
    <2>1. Delay(p, k) = d /\ Nominal(p, k) = d * 1
      BY <1>1, <1>3 DEF Delay, Nominal
    <2> QED
      BY <1>2, <2>1
  <1>4. CASE p.backoff = "linear"
    <2>1. Delay(p, k) = Wrap(d * k) /\ Nominal(p, k) = d * k
      BY <1>1, <1>4 DEF Delay, Nominal
    <2>2. PICK n : n = d * k
      OBVIOUS
    <2>3. n \in Nat
      BY <1>2, <2>2
    <2>4. Wrap(n) \in Int /\ (n < Half => Wrap(n) = n)
      BY <2>3, WrapIs
    <2>5. n * 5 < 4 * Half => n < Half
      BY <2>3, HalfIs
    <2> QED
      BY <2>1, <2>2, <2>3, <2>4, <2>5 DEF Fits
  <1>5. CASE p.backoff # "fixed" /\ p.backoff # "linear"
    <2>1. PICK e \in Nat : e = k - 1
      OBVIOUS
    <2>2. (IF k > 1 THEN k - 1 ELSE 0) = e
      BY <2>1
    <2>3. Delay(p, k) = Wrap(d * pow(e)) /\ Nominal(p, k) = d * Two[e]
      BY <1>1, <1>5, <2>1, <2>2 DEF Delay, Nominal
    <2>4. PICK t : t = Two[e]
      OBVIOUS
    <2>5. t \in Nat /\ t >= 1 /\ Half \in Nat /\ Half >= 1 /\ (e >= Width - 1 => t >= Half)
      BY <2>4, TwoIs, TwoGrows, HalfIs, BackoffAssumption DEF Half
    <2>6. PICK n \in Nat : n = d * t
      BY <1>2, <2>5
    <2>7. pow(e) \in Int /\ d * pow(e) \in Int
      BY <1>2, PowIs
    <2>8. Wrap(d * pow(e)) \in Int
      BY <2>7, WrapIs
    <2>9. ASSUME n * 5 < 4 * Half PROVE Wrap(d * pow(e)) = n
      <3>1. CASE e < Width - 1
        <4>1. d * pow(e) = n
          BY <2>4, <2>6, <3>1, PowIs
        <4>2. n < Half
          BY <2>5, <2>9
        <4> QED
          BY <4>1, <4>2, WrapIs
      <3>2. CASE e >= Width - 1
        <4>1. d = 0
          <5> SUFFICES ASSUME d >= 1 PROVE FALSE
            BY <1>2
          <5>1. t >= Half
            BY <2>5, <3>2
          <5>2. d * t >= t
            BY <1>2, <2>5
          <5> QED
            BY <2>5, <2>6, <2>9, <5>1, <5>2
        <4>2. d * pow(e) = 0 /\ n = 0
          BY <2>5, <2>6, <2>7, <4>1
        <4> QED
          BY <2>5, <4>2, WrapIs
      <3> QED
        BY <2>1, <3>1, <3>2, BackoffAssumption
    <2>10. Nominal(p, k) = n
      BY <2>3, <2>4, <2>6
    <2> QED
      BY <2>3, <2>6, <2>8, <2>9, <2>10 DEF Fits
  <1> QED
    BY <1>3, <1>4, <1>5

(* A delay of compute_backoff is within the maximum and, where nothing wraps,
   within a quarter of the documented schedule or at the maximum. *)
LEMMA BackoffIs ==
  ASSUME NEW p \in Policy, NEW k \in Nat, k > 0, NEW v \in compute_backoff(p, k)
  PROVE  /\ v \in 0 .. p.max_delay_ms
         /\ Fits(p, k) =>
              /\ 4 * v <= 5 * Nominal(p, k)
              /\ 4 * v >= 3 * Nominal(p, k) \/ v = p.max_delay_ms
  <1>1. PICK d, hi : d = Delay(p, k) /\ hi = p.max_delay_ms
    OBVIOUS
  <1>2. d \in Int /\ hi \in Nat
    BY <1>1, DelayIs DEF Policy
  <1>3. PICK r : r = IF d >= 4 THEN d \div 4 ELSE 0
    OBVIOUS
  <1>4. r \in Nat /\ (d >= 0 => 4 * r <= d)
    BY <1>2, <1>3
  <1>5. PICK j \in (-r) .. r : v = clamp(Wrap(d + j), hi)
    BY <1>1, <1>3 DEF compute_backoff
  <1>6. PICK x : x = d + j
    OBVIOUS
  <1>7. x \in Int /\ Wrap(x) \in Int
    BY <1>2, <1>4, <1>6, WrapIs
  <1>8. v \in 0 .. hi
    BY <1>2, <1>5, <1>6, <1>7, ClampIs
  <1>9. ASSUME Fits(p, k)
        PROVE  /\ 4 * v <= 5 * Nominal(p, k)
               /\ 4 * v >= 3 * Nominal(p, k) \/ v = hi
    <2>1. d = Nominal(p, k) /\ d \in Nat /\ d * 5 < 4 * Half
      BY <1>1, <1>9, DelayIs DEF Fits
    <2>2. 0 <= x /\ x < Half /\ 4 * x <= 5 * d /\ 4 * x >= 3 * d
      BY <1>4, <1>6, <2>1, HalfIs
    <2>3. Wrap(x) = x
      BY <1>7, <2>2, WrapIs
    <2>4. v <= x /\ (v = x \/ v = hi)
      BY <1>2, <1>5, <1>6, <1>7, <2>2, <2>3, ClampIs
    <2> QED
      BY <1>2, <1>7, <1>8, <2>1, <2>2, <2>4
  <1> QED
    BY <1>1, <1>8, <1>9

(* The delay is one that compute_backoff gave for the attempt that failed. *)
RetryInv ==
  /\ retry = [policy |-> retry.policy, attempt |-> retry.attempt, delay |-> retry.delay]
  /\ retry.policy \in Policy /\ retry.attempt \in Nat
  /\ retry.attempt > 0 => retry.delay \in compute_backoff(retry.policy, retry.attempt)

(* The worker starts without a delay. *)
LEMMA RetryStarts == RetryInit => RetryInv
  <1> SUFFICES ASSUME RetryInit PROVE RetryInv
    OBVIOUS
  <1>1. PICK p \in Policies : retry = [policy |-> p, attempt |-> 0, delay |-> 0]
    BY DEF RetryInit
  <1>2. p \in Policy
    BY BackoffAssumption DEF Policy
  <1> QED
    BY <1>1, <1>2 DEF RetryInv

(* Every retry's delay is one compute_backoff may give. *)
LEMMA RetryGoesOn == RetryInv /\ RetryNext => RetryInv'
  <1> SUFFICES ASSUME RetryInv, RetryNext PROVE RetryInv'
    OBVIOUS
  <1>1. PICK d \in compute_backoff(retry.policy, retry.attempt + 1) :
          retry' = [retry EXCEPT !.attempt = @ + 1, !.delay = d]
    BY DEF RetryNext
  <1>2. retry' = [policy |-> retry.policy, attempt |-> retry.attempt + 1, delay |-> d]
    BY <1>1 DEF RetryInv
  <1>3. /\ retry'.policy = retry.policy /\ retry'.attempt = retry.attempt + 1
        /\ retry'.delay = d
    BY <1>2
  <1>4. retry'.delay \in compute_backoff(retry'.policy, retry'.attempt)
    BY <1>1, <1>3
  <1>5. retry' = [policy |-> retry'.policy, attempt |-> retry'.attempt, delay |-> retry'.delay]
    BY <1>2, <1>3
  <1> QED
    BY <1>3, <1>4, <1>5 DEF RetryInv

(* So every delay is the documented one. *)
LEMMA RetryIsDocumented == RetryInv => DelayAsDocumented
  BY BackoffIs DEF RetryInv, DelayAsDocumented

-----------------------------------------------------------------------------
(* The walk through a list.                                                *)

RowsInv == order \in {"name", "created"} /\ rows \in [Ids -> Times \cup {Absent}]

(* The rows of a list are in a strict total order. *)
LEMMA BeforeIs ==
  ASSUME RowsInv
  PROVE  /\ \A i \in Ids : ~Before(i, i)
         /\ \A i, j, k \in Ids : Before(i, j) /\ Before(j, k) => Before(i, k)
         /\ \A i, j \in Ids : i # j => Before(i, j) \/ Before(j, i)
  <1>1. /\ \A i \in Ids : i \in Nat /\ rows[i] \in Int
        /\ order \in {"name", "created"}
    <2>1. Times \cup {Absent} \subseteq Int /\ Ids \subseteq Nat
      BY ListsAssumption DEF Absent
    <2> QED
      BY <2>1 DEF RowsInv
  <1>2. CASE order = "name"
    BY <1>1, <1>2 DEF Before
  <1>3. CASE order = "created"
    <2>1. \A i, j \in Ids : Before(i, j) <=> rows[i] > rows[j] \/ (rows[i] = rows[j] /\ i > j)
      BY <1>3 DEF Before
    <2>2. \A i \in Ids : ~Before(i, i)
      BY <1>1, <2>1
    <2>3. ASSUME NEW i \in Ids, NEW j \in Ids, NEW k \in Ids, Before(i, j), Before(j, k)
          PROVE  Before(i, k)
      BY <1>1, <2>1, <2>3
    <2>4. ASSUME NEW i \in Ids, NEW j \in Ids, i # j PROVE Before(i, j) \/ Before(j, i)
      BY <1>1, <2>1, <2>4
    <2> QED
      BY <2>2, <2>3, <2>4
  <1> QED
    BY <1>1, <1>2, <1>3

(* The rows are finitely many. *)
LEMMA RowsAreFew ==
  /\ Present \subseteq Ids
  /\ \A S \in SUBSET Ids : IsFiniteSet(S) /\ Cardinality(S) \in Nat
  /\ \A S \in SUBSET Ids : Cardinality(S) = 0 <=> S = {}
  /\ \A S \in SUBSET Ids : \A x \in S : Cardinality(S \ {x}) = Cardinality(S) - 1
  <1>1. Present \subseteq Ids
    BY DEF Present
  <1>2. ASSUME NEW S \in SUBSET Ids PROVE IsFiniteSet(S) /\ Cardinality(S) \in Nat
    BY ListsAssumption, FS_Subset, FS_CardinalityType
  <1>3. ASSUME NEW S \in SUBSET Ids PROVE Cardinality(S) = 0 <=> S = {}
    BY <1>2, FS_EmptySet
  <1>4. ASSUME NEW S \in SUBSET Ids, NEW x \in S PROVE Cardinality(S \ {x}) = Cardinality(S) - 1
    BY <1>2, FS_RemoveElement
  <1> QED
    BY <1>1, <1>2, <1>3, <1>4

First(x, S) == x \in S /\ \A y \in S \ {x} : Before(x, y)

(* Every page but an empty one has a first row. *)
LEMMA FirstExists ==
  ASSUME RowsInv, NEW S \in SUBSET Ids, S # {}
  PROVE  \E x : First(x, S)
  <1> DEFINE Good == {n \in Nat : \A T \in SUBSET Ids : Cardinality(T) = n + 1 => \E x : First(x, T)}
  <1>1. 0 \in Good
    <2>1. ASSUME NEW T \in SUBSET Ids, Cardinality(T) = 0 + 1 PROVE \E x : First(x, T)
      <3>1. PICK x \in T : TRUE
        BY <2>1, RowsAreFew
      <3>2. Cardinality(T \ {x}) = 0
        BY <2>1, RowsAreFew
      <3>3. T \ {x} \in SUBSET Ids
        OBVIOUS
      <3>4. T \ {x} = {}
        BY <3>2, <3>3, RowsAreFew
      <3> QED
        BY <3>1, <3>4 DEF First
    <2> QED
      BY <2>1
  <1>2. ASSUME NEW n \in Nat, n \in Good PROVE n + 1 \in Good
    <2>1. ASSUME NEW T \in SUBSET Ids, Cardinality(T) = (n + 1) + 1 PROVE \E x : First(x, T)
      <3>1. PICK x \in T : TRUE
        BY <2>1, RowsAreFew
      <3>2. Cardinality(T \ {x}) = n + 1
        BY <2>1, RowsAreFew
      <3>3. T \ {x} \in SUBSET Ids
        OBVIOUS
      <3>4. PICK y : First(y, T \ {x})
        BY <1>2, <3>2, <3>3
      <3>5. x \in Ids /\ y \in Ids /\ x # y /\ y \in T
        BY <3>4 DEF First
      <3>6. CASE Before(x, y)
        <4>1. First(x, T)
          BY <3>4, <3>5, <3>6, BeforeIs DEF First
        <4> QED
          BY <4>1
      <3>7. CASE Before(y, x)
        <4>1. First(y, T)
          BY <3>4, <3>5, <3>7 DEF First
        <4> QED
          BY <4>1
      <3> QED
        BY <3>5, <3>6, <3>7, BeforeIs
    <2> QED
      BY <2>1
  <1>3. Nat \subseteq Good
    <2> HIDE DEF Good
    <2> QED
      BY <1>1, <1>2, SetInduction
  <1>4. Cardinality(S) - 1 \in Nat /\ Cardinality(S) = (Cardinality(S) - 1) + 1
    BY RowsAreFew
  <1> QED
    BY <1>3, <1>4

InOrder(s, n, S) ==
  /\ s \in [1 .. n -> S]
  /\ \A i, j \in 1 .. n : i < j => Before(s[i], s[j])
  /\ \A x \in S : \E i \in 1 .. n : s[i] = x

(* So the rows of any set can be put in order: ORDER BY gives them all. *)
LEMMA OrderedIs ==
  ASSUME RowsInv, NEW S \in SUBSET Ids
  PROVE  InOrder(Ordered(S), Cardinality(S), S)
  <1> DEFINE Good == {n \in Nat : \A T \in SUBSET Ids : Cardinality(T) = n => \E s : InOrder(s, n, T)}
  <1>1. 0 \in Good
    <2>1. ASSUME NEW T \in SUBSET Ids, Cardinality(T) = 0 PROVE \E s : InOrder(s, 0, T)
      <3>1. T = {}
        BY <2>1, RowsAreFew
      <3>2. PICK s : s = [i \in 1 .. 0 |-> i]
        OBVIOUS
      <3>3. InOrder(s, 0, T)
        BY <3>1, <3>2 DEF InOrder
      <3> QED
        BY <3>3
    <2> QED
      BY <2>1
  <1>2. ASSUME NEW n \in Nat, n \in Good PROVE n + 1 \in Good
    <2>1. ASSUME NEW T \in SUBSET Ids, Cardinality(T) = n + 1 PROVE \E s : InOrder(s, n + 1, T)
      <3>1. PICK x : First(x, T)
        BY <2>1, FirstExists, RowsAreFew
      <3>2. x \in T /\ \A y \in T \ {x} : Before(x, y)
        BY <3>1 DEF First
      <3>3. Cardinality(T \ {x}) = n /\ T \ {x} \in SUBSET Ids
        BY <2>1, <3>2, RowsAreFew
      <3>4. PICK t : InOrder(t, n, T \ {x})
        BY <1>2, <3>3
      <3>5. PICK s : s = [i \in 1 .. n + 1 |-> IF i = 1 THEN x ELSE t[i - 1]]
        OBVIOUS
      <3>6. ASSUME NEW i \in 1 .. n + 1, i # 1
            PROVE  s[i] = t[i - 1] /\ i - 1 \in 1 .. n /\ s[i] \in T \ {x}
        BY <3>4, <3>5, <3>6 DEF InOrder
      <3>7. s[1] = x
        BY <3>5
      <3>8. s \in [1 .. n + 1 -> T]
        BY <3>2, <3>5, <3>6
      <3>9. ASSUME NEW i \in 1 .. n + 1, NEW j \in 1 .. n + 1, i < j PROVE Before(s[i], s[j])
        <4>1. CASE i = 1
          BY <3>2, <3>6, <3>7, <3>9, <4>1
        <4>2. CASE i # 1
          <5>1. i - 1 \in 1 .. n /\ j - 1 \in 1 .. n /\ i - 1 < j - 1 /\ j # 1
            BY <3>9, <4>2
          <5>2. Before(t[i - 1], t[j - 1])
            BY <3>4, <5>1 DEF InOrder
          <5> QED
            BY <3>6, <4>2, <5>1, <5>2
        <4> QED
          BY <4>1, <4>2
      <3>10. ASSUME NEW y \in T PROVE \E i \in 1 .. n + 1 : s[i] = y
        <4>1. CASE y = x
          BY <3>7, <4>1
        <4>2. CASE y # x
          <5>1. PICK k \in 1 .. n : t[k] = y
            BY <3>4, <4>2 DEF InOrder
          <5>2. k + 1 \in 1 .. n + 1 /\ k + 1 # 1 /\ (k + 1) - 1 = k
            OBVIOUS
          <5>3. s[k + 1] = t[(k + 1) - 1]
            BY <3>6, <5>2
          <5> QED
            BY <5>1, <5>2, <5>3
        <4> QED
          BY <4>1, <4>2
      <3>11. InOrder(s, n + 1, T)
        BY <3>8, <3>9, <3>10 DEF InOrder
      <3> QED
        BY <3>11
    <2> QED
      BY <2>1
  <1>3. Nat \subseteq Good
    <2> HIDE DEF Good
    <2> QED
      BY <1>1, <1>2, SetInduction
  <1>4. \E s : InOrder(s, Cardinality(S), S)
    BY <1>3, RowsAreFew
  <1> QED
    BY <1>4 DEF Ordered, InOrder

(* What a page holds: the next rows in order, and where to go on. *)
Paged(data, next, cursor) ==
  /\ data \in Seq(Ids) /\ next \in Ids \cup {NoCursor}
  /\ \A i \in 1 .. Len(data) : data[i] \in After(cursor)
  /\ \A i, j \in 1 .. Len(data) : i < j => Before(data[i], data[j])
  /\ next # NoCursor => Len(data) > 0 /\ data[Len(data)] = next
  /\ \A x \in After(cursor) :
       \/ \E i \in 1 .. Len(data) : data[i] = x
       \/ next # NoCursor /\ x \in After(next)

(* What a list query returns is the next rows after the cursor, and its cursor
   is the last of them while there are more. *)
LEMMA PageIs ==
  ASSUME RowsInv, NEW cursor \in Ids \cup {NoCursor}, NEW limit \in Int
  PROVE  Paged(Page(cursor, limit).data, Page(cursor, limit).cursor, cursor)
  <1>1. PICK S : S = After(cursor)
    OBVIOUS
  <1>2. S \in SUBSET Ids /\ Cardinality(S) \in Nat
    <2>1. S \in SUBSET Ids
      BY <1>1, RowsAreFew DEF After
    <2> QED
      BY <2>1, RowsAreFew
  <1>3. PICK m \in Nat : m = Cardinality(S)
    BY <1>2
  <1>4. PICK rest : rest = Ordered(S)
    OBVIOUS
  <1>5. InOrder(rest, m, S)
    BY <1>2, <1>3, <1>4, OrderedIs
  <1>6. rest \in [1 .. m -> S] /\ Len(rest) = m
    <2>1. rest \in [1 .. m -> S]
      BY <1>5 DEF InOrder
    <2>2. rest \in Seq(S)
      BY <2>1, SeqDef
    <2> QED
      BY <2>1, <2>2, LenProperties
  <1>7. PICK n : n = effective_limit(limit)
    OBVIOUS
  <1>8. n \in Nat /\ n >= 1
    BY <1>7 DEF effective_limit
  <1>9. PICK k \in Nat : k = IF m < n THEN m ELSE n
    BY <1>8
  <1>10. k <= m /\ k <= n /\ (m > n => k = n) /\ (~(m > n) => k = m)
    BY <1>8, <1>9
  <1>11. PICK data : data = SubSeq(rest, 1, k)
    OBVIOUS
  <1>12. data \in Seq(S) /\ Len(data) = k /\ \A i \in 1 .. k : data[i] = rest[i]
    <2>1. \A i \in 1 .. k : rest[i] \in S
      BY <1>6, <1>10
    <2>2. SubSeq(rest, 1, k) \in Seq(S)
      BY <2>1, SubSeqProperties
    <2>3. Len(SubSeq(rest, 1, k)) = IF 1 <= k THEN k - 1 + 1 ELSE 0
      BY <2>1, SubSeqProperties
    <2>4. \A i \in 1 .. k - 1 + 1 : SubSeq(rest, 1, k)[i] = rest[1 + i - 1]
      BY <2>1, SubSeqProperties
    <2>5. ASSUME NEW i \in 1 .. k PROVE data[i] = rest[i]
      BY <1>11, <2>4
    <2> QED
      BY <1>11, <2>2, <2>3, <2>5
  <1>13. PICK next : next = IF m > n THEN data[n] ELSE NoCursor
    OBVIOUS
  <1>14. Page(cursor, limit) = [data |-> data, cursor |-> next]
    BY <1>1, <1>4, <1>6, <1>7, <1>9, <1>11, <1>13 DEF Page
  <1>15. data \in Seq(Ids) /\ \A i \in 1 .. k : data[i] \in S
    <2>1. data \in Seq(Ids)
      BY <1>2, <1>12, SeqMonotonic
    <2> QED
      BY <1>12, <2>1, ElementOfSeq
  <1>16. ASSUME m > n PROVE next = data[k] /\ next = rest[n] /\ next \in Ids /\ k = n
    BY <1>2, <1>8, <1>10, <1>12, <1>13, <1>15, <1>16
  <1>17. next \in Ids \cup {NoCursor}
    BY <1>13, <1>16
  <1>18. next # NoCursor => m > n
    BY <1>13
  <1>19. next # NoCursor => Len(data) > 0 /\ data[Len(data)] = next
    BY <1>8, <1>10, <1>12, <1>16, <1>18
  <1>20. \A i, j \in 1 .. k : i < j => Before(data[i], data[j])
    BY <1>5, <1>10, <1>12 DEF InOrder
  <1>21. ASSUME NEW x \in S
         PROVE  \/ \E i \in 1 .. k : data[i] = x
                \/ next # NoCursor /\ x \in After(next)
    <2>1. PICK i \in 1 .. m : rest[i] = x
      BY <1>5 DEF InOrder
    <2>2. CASE i <= k
      BY <1>12, <2>1, <2>2
    <2>3. CASE i > k
      <3>1. m > n /\ n < i
        BY <1>8, <1>10, <2>3
      <3>2. n \in 1 .. m /\ Before(rest[n], rest[i])
        BY <1>5, <1>8, <2>1, <3>1 DEF InOrder
      <3>3. next = rest[n] /\ next \in Ids
        BY <1>16, <3>1
      <3>4. next # NoCursor
        BY <3>3, ListsAssumption DEF NoCursor
      <3>5. x \in Present
        BY <1>1 DEF After
      <3> QED
        BY <2>1, <3>2, <3>3, <3>4, <3>5 DEF After
    <2> QED
      BY <2>2, <2>3
  <1>22. Paged(data, next, cursor)
    BY <1>1, <1>12, <1>15, <1>17, <1>19, <1>20, <1>21 DEF Paged
  <1> QED
    BY <1>14, <1>22

\* What the client has is a part of the list in order, up to the cursor, and
\* no row that stayed is behind it.
WalkInv ==
  /\ RowsInv
  /\ walk = [limit |-> walk.limit, cursor |-> walk.cursor, got |-> walk.got,
             done |-> walk.done, stayed |-> walk.stayed]
  /\ walk.limit \in Int /\ walk.cursor \in Ids \cup {NoCursor}
  /\ walk.got \in Seq(Ids) /\ walk.done \in BOOLEAN /\ walk.stayed \subseteq Present
  /\ order = "created" => \A i \in 1 .. Len(walk.got) : walk.got[i] \in Present
  /\ \A i, j \in 1 .. Len(walk.got) : i < j => Before(walk.got[i], walk.got[j])
  /\ ~walk.done /\ walk.cursor = NoCursor => Len(walk.got) = 0
  /\ walk.cursor # NoCursor =>
       Len(walk.got) > 0 /\ walk.got[Len(walk.got)] = walk.cursor
  /\ \A x \in walk.stayed :
       \/ \E i \in 1 .. Len(walk.got) : walk.got[i] = x
       \/ ~walk.done /\ x \in After(walk.cursor)

(* A walk starts before every row. *)
LEMMA WalkStarts == ListsInit => WalkInv
  <1> SUFFICES ASSUME ListsInit PROVE WalkInv
    OBVIOUS
  <1>1. PICK l \in Limits :
          walk = [limit |-> l, cursor |-> NoCursor, got |-> <<>>, done |-> FALSE,
                  stayed |-> Present]
    BY DEF ListsInit
  <1>2. /\ walk.limit = l /\ walk.cursor = NoCursor /\ walk.got = <<>>
        /\ walk.done = FALSE /\ walk.stayed = Present
    BY <1>1
  <1>3. l \in Int
    BY ListsAssumption
  <1>4. RowsInv
    BY DEF ListsInit, RowsInv
  <1>5. <<>> \in Seq(Ids) /\ Len(<<>>) = 0
    OBVIOUS
  <1>6. \A x \in Present : x \in After(NoCursor)
    BY DEF After
  <1>7. walk = [limit |-> walk.limit, cursor |-> walk.cursor, got |-> walk.got,
                done |-> walk.done, stayed |-> walk.stayed]
    BY <1>1, <1>2
  <1>8. /\ walk.limit \in Int /\ walk.cursor \in Ids \cup {NoCursor}
        /\ walk.got \in Seq(Ids) /\ walk.done \in BOOLEAN /\ walk.stayed \subseteq Present
    BY <1>2, <1>3, <1>5
  <1>9. Len(walk.got) = 0 /\ 1 .. Len(walk.got) = {}
    BY <1>2, <1>5
  <1>10. \A x \in walk.stayed : ~walk.done /\ x \in After(walk.cursor)
    BY <1>2, <1>6
  <1>11. walk.cursor = NoCursor
    BY <1>2
  <1> QED
    BY <1>4, <1>7, <1>8, <1>9, <1>10, <1>11 DEF WalkInv

(* A page goes on where the one before it ended. *)
LEMMA PageWalks == WalkInv /\ NextPage => WalkInv'
  <1> SUFFICES ASSUME WalkInv, NextPage PROVE WalkInv'
    OBVIOUS
  <1>1. PICK data, next : data = Page(walk.cursor, walk.limit).data
                          /\ next = Page(walk.cursor, walk.limit).cursor
    OBVIOUS
  <1>2. Paged(data, next, walk.cursor)
    BY <1>1, PageIs DEF WalkInv
  <1>3. PICK got, cursor : got = walk.got /\ cursor = walk.cursor
    OBVIOUS
  <1>4. /\ ~walk.done /\ order' = order /\ rows' = rows
        /\ walk' = [limit |-> walk.limit, cursor |-> next, got |-> got \o data,
                    done |-> next = NoCursor, stayed |-> walk.stayed]
    BY <1>1, <1>3 DEF NextPage, WalkInv
  <1>5. /\ walk'.limit = walk.limit /\ walk'.cursor = next /\ walk'.got = got \o data
        /\ walk'.done = (next = NoCursor) /\ walk'.stayed = walk.stayed
    BY <1>4
  <1>6. /\ got \in Seq(Ids) /\ data \in Seq(Ids) /\ next \in Ids \cup {NoCursor}
        /\ cursor \in Ids \cup {NoCursor}
    BY <1>2, <1>3 DEF WalkInv, Paged
  <1>7. PICK g \in Nat, d \in Nat : g = Len(got) /\ d = Len(data)
    BY <1>6, LenProperties
  <1>8. PICK all : all = got \o data
    OBVIOUS
  <1>9. all \in Seq(Ids) /\ Len(all) = g + d
    BY <1>6, <1>7, <1>8, ConcatProperties
  <1>10. \A i \in 1 .. g : all[i] = got[i] /\ got[i] \in Ids
    <2>1. ASSUME NEW i \in 1 .. g PROVE all[i] = got[i]
      <3>1. i \in 1 .. Len(got) + Len(data) /\ i <= Len(got)
        BY <1>7
      <3> QED
        BY <1>6, <1>8, <3>1, ConcatProperties
    <2>2. ASSUME NEW i \in 1 .. g PROVE got[i] \in Ids
      BY <1>6, <1>7, ElementOfSeq
    <2> QED
      BY <2>1, <2>2
  <1>11. \A i \in 1 .. d : all[g + i] = data[i]
    <2> SUFFICES ASSUME NEW i \in 1 .. d PROVE all[g + i] = data[i]
      OBVIOUS
    <2>1. g + i \in 1 .. Len(got) + Len(data) /\ ~(g + i <= Len(got)) /\ (g + i) - Len(got) = i
      BY <1>7
    <2> QED
      BY <1>6, <1>8, <2>1, ConcatProperties
  <1>12. ASSUME NEW i \in 1 .. g + d, ~(i <= g)
         PROVE  i - g \in 1 .. d /\ all[i] = data[i - g]
    <2>1. i - g \in 1 .. d /\ g + (i - g) = i
      BY <1>12
    <2> QED
      BY <1>11, <2>1
  <1>13. \A i \in 1 .. d : data[i] \in After(cursor) /\ data[i] \in Present /\ data[i] \in Ids
    BY <1>2, <1>3, <1>7 DEF Paged, After, Present
  <1>14. RowsInv
    BY DEF WalkInv
  <1>15. ASSUME NEW i \in 1 .. g, NEW j \in 1 .. d PROVE Before(got[i], data[j])
    <2>1. cursor # NoCursor /\ got[g] = cursor /\ g > 0 /\ cursor \in Ids
      BY <1>3, <1>4, <1>6, <1>7 DEF WalkInv
    <2>2. Before(cursor, data[j])
      BY <1>13, <2>1 DEF After
    <2>3. CASE i = g
      BY <2>1, <2>2, <2>3
    <2>4. CASE i # g
      <3>1. i < g /\ g \in 1 .. g
        BY <2>4
      <3>2. Before(got[i], got[g])
        BY <1>3, <1>7, <3>1 DEF WalkInv
      <3> QED
        BY <1>10, <1>13, <1>14, <2>1, <2>2, <3>2, BeforeIs
    <2> QED
      BY <2>3, <2>4
  <1>16. ASSUME NEW i \in 1 .. g + d, NEW j \in 1 .. g + d, i < j PROVE Before(all[i], all[j])
    <2>1. CASE j <= g
      <3>1. i \in 1 .. g /\ j \in 1 .. g
        BY <1>16, <2>1
      <3>2. Before(got[i], got[j])
        BY <1>3, <1>7, <1>16, <3>1 DEF WalkInv
      <3> QED
        BY <1>10, <3>1, <3>2
    <2>2. CASE i <= g /\ ~(j <= g)
      <3>1. i \in 1 .. g
        BY <2>2
      <3> QED
        BY <1>10, <1>12, <1>15, <2>2, <3>1
    <2>3. CASE ~(i <= g)
      <3>1. ~(j <= g)
        BY <1>16, <2>3
      <3>2. i - g \in 1 .. d /\ j - g \in 1 .. d /\ i - g < j - g
        BY <1>16, <1>12, <2>3, <3>1
      <3>3. Before(data[i - g], data[j - g])
        BY <1>2, <1>7, <3>2 DEF Paged
      <3> QED
        BY <1>12, <2>3, <3>1, <3>3
    <2> QED
      BY <2>1, <2>2, <2>3
  <1>17. ASSUME next # NoCursor PROVE g + d > 0 /\ all[g + d] = next
    <2>1. d > 0 /\ data[d] = next
      BY <1>2, <1>7, <1>17 DEF Paged
    <2>2. d \in 1 .. d
      BY <2>1
    <2> QED
      BY <1>11, <2>1, <2>2
  <1>18. ASSUME NEW x \in walk.stayed
         PROVE  \/ \E i \in 1 .. g + d : all[i] = x
                \/ next # NoCursor /\ x \in After(next)
    <2>1. CASE \E i \in 1 .. g : got[i] = x
      <3>1. PICK i \in 1 .. g : got[i] = x
        BY <2>1
      <3>2. i \in 1 .. g + d /\ all[i] = x
        BY <1>10, <3>1
      <3> QED
        BY <3>2
    <2>2. CASE x \in After(cursor)
      <3>1. \/ \E i \in 1 .. d : data[i] = x
            \/ next # NoCursor /\ x \in After(next)
        BY <1>2, <1>3, <1>7, <2>2 DEF Paged
      <3>2. ASSUME NEW i \in 1 .. d, data[i] = x PROVE \E j \in 1 .. g + d : all[j] = x
        <4>1. g + i \in 1 .. g + d /\ all[g + i] = x
          BY <1>11, <3>2
        <4> QED
          BY <4>1
      <3> QED
        BY <3>1, <3>2
    <2> QED
      BY <1>3, <1>7, <2>1, <2>2 DEF WalkInv
  <1>19. order = "created" => \A i \in 1 .. g + d : all[i] \in Present
    <2> SUFFICES ASSUME order = "created", NEW i \in 1 .. g + d PROVE all[i] \in Present
      OBVIOUS
    <2>1. CASE i <= g
      <3>1. i \in 1 .. g
        BY <2>1
      <3> QED
        BY <1>3, <1>7, <1>10, <3>1 DEF WalkInv
    <2>2. CASE ~(i <= g)
      BY <1>12, <1>13, <2>2
    <2> QED
      BY <2>1, <2>2
  <1>20. /\ Present' = Present /\ RowsInv'
    BY <1>4, <1>14 DEF Present, RowsInv
  <1>21. /\ walk'.got = all /\ Len(walk'.got) = g + d
         /\ After(walk.cursor)' = After(next)
         /\ \A i, j : Before(walk.got[i], walk.got[j])' <=> Before(all[i], all[j])
    BY <1>4, <1>5, <1>8, <1>9 DEF After, Before, Present
  <1>22. walk' = [limit |-> walk'.limit, cursor |-> walk'.cursor, got |-> walk'.got,
                  done |-> walk'.done, stayed |-> walk'.stayed]
    BY <1>4, <1>5
  <1>23. /\ walk'.limit \in Int /\ walk'.cursor \in Ids \cup {NoCursor}
         /\ walk'.got \in Seq(Ids) /\ walk'.done \in BOOLEAN /\ walk'.stayed \subseteq Present'
    BY <1>5, <1>6, <1>9, <1>20, <1>21 DEF WalkInv
  <1>24. /\ order' = "created" => \A i \in 1 .. Len(walk'.got) : walk'.got[i] \in Present'
         /\ \A i, j \in 1 .. Len(walk'.got) : i < j => Before(walk.got[i], walk.got[j])'
    BY <1>4, <1>16, <1>19, <1>20, <1>21
  <1>25. /\ ~walk'.done /\ walk'.cursor = NoCursor' => Len(walk'.got) = 0
         /\ walk'.cursor # NoCursor' =>
              Len(walk'.got) > 0 /\ walk'.got[Len(walk'.got)] = walk'.cursor
    BY <1>5, <1>17, <1>21 DEF NoCursor
  <1>26. \A x \in walk'.stayed :
           \/ \E i \in 1 .. Len(walk'.got) : walk'.got[i] = x
           \/ ~walk'.done /\ x \in After(walk.cursor)'
    BY <1>5, <1>18, <1>20, <1>21
  <1> QED
    BY <1>20, <1>22, <1>23, <1>24, <1>25, <1>26 DEF WalkInv, NoCursor

(* A row that is inserted behind the walk is not promised, one ahead is met. *)
LEMMA InsertWalks ==
  ASSUME NEW i \in Ids, NEW time \in Times
  PROVE  WalkInv /\ Insert(i, time) => WalkInv'
  <1> SUFFICES ASSUME WalkInv, Insert(i, time) PROVE WalkInv'
    OBVIOUS
  <1>1. /\ order' = order /\ walk' = walk /\ i \notin Present
        /\ rows' = [rows EXCEPT ![i] = time]
    BY DEF Insert
  <1>2. rows \in [Ids -> Times \cup {Absent}] /\ RowsInv
    BY DEF WalkInv, RowsInv
  <1>3. rows' \in [Ids -> Times \cup {Absent}] /\ RowsInv'
    <2>1. rows' \in [Ids -> Times \cup {Absent}]
      BY <1>1, <1>2
    <2> QED
      BY <1>1, <1>2, <2>1 DEF RowsInv, Absent
  <1>4. \A x \in Present : rows'[x] = rows[x] /\ x \in Ids /\ x \in Present'
    BY <1>1, <1>2 DEF Present, Absent
  <1>5. \A x, y : order = "name" \/ (x \in Present /\ y \in Present) =>
          (Before(x, y)' <=> Before(x, y))
    BY <1>1, <1>4 DEF Before
  <1>6. order \in {"name", "created"}
    BY <1>2 DEF RowsInv
  <1>7. PICK n \in Nat : n = Len(walk.got)
    BY LenProperties DEF WalkInv
  <1>8. \A j, k \in 1 .. n : j < k => Before(walk.got[j], walk.got[k])'
    <2> SUFFICES ASSUME NEW j \in 1 .. n, NEW k \in 1 .. n, j < k
                 PROVE  Before(walk.got[j], walk.got[k])'
      OBVIOUS
    <2>1. PICK a, b : a = walk.got[j] /\ b = walk.got[k]
      OBVIOUS
    <2>2. order = "created" => a \in Present /\ b \in Present
      BY <1>7, <2>1 DEF WalkInv
    <2>3. Before(a, b)
      BY <1>7, <2>1 DEF WalkInv
    <2>4. Before(a, b)'
      BY <1>5, <1>6, <2>2, <2>3
    <2> QED
      BY <1>1, <2>1, <2>4 DEF Before
  <1>9. ASSUME NEW x \in After(walk.cursor) PROVE x \in After(walk.cursor)'
    <2>1. PICK c : c = walk.cursor
      OBVIOUS
    <2>2. x \in Present /\ (c = NoCursor \/ Before(c, x))
      BY <1>9, <2>1 DEF After
    <2>3. c # NoCursor /\ order = "created" => c \in Present
      <3>1. c # NoCursor => n > 0 /\ walk.got[n] = c
        BY <1>7, <2>1 DEF WalkInv
      <3>2. order = "created" => \A k \in 1 .. n : walk.got[k] \in Present
        BY <1>7 DEF WalkInv
      <3> QED
        BY <3>1, <3>2
    <2>4. c = NoCursor \/ Before(c, x)'
      BY <1>5, <1>6, <2>2, <2>3
    <2>5. x \in Present'
      BY <1>4, <2>2
    <2> QED
      BY <1>1, <2>1, <2>4, <2>5 DEF After, Before, NoCursor
  <1>10. \A x \in walk.stayed :
           \/ \E k \in 1 .. n : walk.got[k] = x
           \/ ~walk.done /\ x \in After(walk.cursor)'
    BY <1>7, <1>9 DEF WalkInv
  <1>11. /\ walk = [limit |-> walk.limit, cursor |-> walk.cursor, got |-> walk.got,
                    done |-> walk.done, stayed |-> walk.stayed]
         /\ walk.limit \in Int /\ walk.cursor \in Ids \cup {NoCursor}
         /\ walk.got \in Seq(Ids) /\ walk.done \in BOOLEAN /\ walk.stayed \subseteq Present
         /\ ~walk.done /\ walk.cursor = NoCursor => n = 0
         /\ walk.cursor # NoCursor => n > 0 /\ walk.got[n] = walk.cursor
    BY <1>7 DEF WalkInv
  <1>12. order = "created" => \A k \in 1 .. n : walk.got[k] \in Present'
    BY <1>4, <1>7 DEF WalkInv
  <1>13. walk.stayed \subseteq Present'
    BY <1>4, <1>11
  <1> QED
    BY <1>1, <1>3, <1>7, <1>8, <1>10, <1>11, <1>12, <1>13 DEF WalkInv, NoCursor

(* A row that is deleted, the cursor's own too, costs the walk no other row. *)
LEMMA DeleteWalks ==
  ASSUME NEW i \in Ids
  PROVE  WalkInv /\ Delete(i) => WalkInv'
  <1> SUFFICES ASSUME WalkInv, Delete(i) PROVE WalkInv'
    OBVIOUS
  <1>1. /\ order' = order /\ order = "name" /\ rows' = [rows EXCEPT ![i] = Absent]
        /\ walk' = [limit |-> walk.limit, cursor |-> walk.cursor, got |-> walk.got,
                    done |-> walk.done, stayed |-> walk.stayed \ {i}]
    BY DEF Delete, WalkInv
  <1>2. /\ walk'.limit = walk.limit /\ walk'.cursor = walk.cursor /\ walk'.got = walk.got
        /\ walk'.done = walk.done /\ walk'.stayed = walk.stayed \ {i}
    BY <1>1
  <1>3. rows \in [Ids -> Times \cup {Absent}] /\ RowsInv
    BY DEF WalkInv, RowsInv
  <1>4. RowsInv'
    BY <1>1, <1>3 DEF RowsInv, Absent
  <1>5. \A x \in Present \ {i} : x \in Present'
    BY <1>1, <1>3 DEF Present, Absent
  <1>6. /\ \A x, y : Before(x, y) <=> x < y
        /\ \A j, k : Before(walk.got[j], walk.got[k])' <=> walk.got[j] < walk.got[k]
        /\ \A x : Before(walk.cursor, x)' <=> walk.cursor < x
    BY <1>1, <1>2 DEF Before
  <1>7. \A x \in After(walk.cursor) \ {i} : x \in After(walk.cursor)'
    <2> SUFFICES ASSUME NEW x \in After(walk.cursor) \ {i} PROVE x \in After(walk.cursor)'
      OBVIOUS
    <2>1. x \in Present \ {i} /\ (walk.cursor = NoCursor \/ Before(walk.cursor, x))
      BY DEF After
    <2>2. walk.cursor = NoCursor \/ Before(walk.cursor, x)'
      BY <1>6, <2>1
    <2> QED
      BY <1>2, <1>5, <2>1, <2>2 DEF After, NoCursor
  <1>8. walk' = [limit |-> walk'.limit, cursor |-> walk'.cursor, got |-> walk'.got,
                 done |-> walk'.done, stayed |-> walk'.stayed]
    BY <1>1, <1>2
  <1>9. /\ walk'.limit \in Int /\ walk'.cursor \in Ids \cup {NoCursor}
        /\ walk'.got \in Seq(Ids) /\ walk'.done \in BOOLEAN /\ walk'.stayed \subseteq Present'
    BY <1>2, <1>5 DEF WalkInv
  <1>10. /\ order' # "created"
         /\ \A j, k \in 1 .. Len(walk'.got) : j < k => Before(walk.got[j], walk.got[k])'
    BY <1>1, <1>2, <1>6 DEF WalkInv
  <1>11. /\ ~walk'.done /\ walk'.cursor = NoCursor => Len(walk'.got) = 0
         /\ walk'.cursor # NoCursor =>
              Len(walk'.got) > 0 /\ walk'.got[Len(walk'.got)] = walk'.cursor
    BY <1>2 DEF WalkInv
  <1>12. \A x \in walk'.stayed :
           \/ \E k \in 1 .. Len(walk'.got) : walk'.got[k] = x
           \/ ~walk'.done /\ x \in After(walk.cursor)'
    BY <1>2, <1>7 DEF WalkInv
  <1> QED
    BY <1>4, <1>8, <1>9, <1>10, <1>11, <1>12 DEF WalkInv, NoCursor

(* Whatever happens between its pages, the walk goes on. *)
LEMMA WalkGoesOn == WalkInv /\ ListsNext => WalkInv'
  BY PageWalks, InsertWalks, DeleteWalks DEF ListsNext

(* So a walk that ended saw every row that stayed, once and in order. *)
LEMMA WalkKeeps == WalkInv => WalkIsComplete
  <1> SUFFICES ASSUME WalkInv PROVE WalkIsComplete
    OBVIOUS
  <1>1. RowsInv /\ \A i \in 1 .. Len(walk.got) : walk.got[i] \in Ids
    BY ElementOfSeq DEF WalkInv
  <1>2. \A i, j \in 1 .. Len(walk.got) : i < j => walk.got[i] # walk.got[j]
    BY <1>1, BeforeIs DEF WalkInv
  <1>3. order = "name" => \A i, j \in 1 .. Len(walk.got) : i < j => walk.got[i] < walk.got[j]
    BY DEF WalkInv, Before
  <1>4. walk.done => walk.stayed \subseteq ToSet(walk.got)
    <2> SUFFICES ASSUME walk.done, NEW x \in walk.stayed PROVE x \in ToSet(walk.got)
      OBVIOUS
    <2>1. PICK i \in 1 .. Len(walk.got) : walk.got[i] = x
      BY DEF WalkInv
    <2>2. i \in DOMAIN walk.got
      BY LenProperties DEF WalkInv
    <2> QED
      BY <2>1, <2>2 DEF ToSet
  <1> QED
    BY <1>2, <1>3, <1>4 DEF WalkIsComplete

-----------------------------------------------------------------------------
(* Theorems about delays and walks.                                        *)

(* Whatever the policy, every delay that compute_backoff gives is within the
   policy's maximum and, where the i64 arithmetic does not wrap, on the documented
   schedule: for every width of the word and every number of attempts. *)
THEOREM DelaysAreDocumented == AlgorithmsSpec => []Backoffs
  <1> DEFINE Inv == focus = "backoff" => RetryInv
  <1>1. AlgorithmsInit => Inv
    BY RetryStarts DEF AlgorithmsInit
  <1>2. Inv /\ [AlgorithmsNext]_algorithmVars => Inv'
    <2> SUFFICES ASSUME Inv, [AlgorithmsNext]_algorithmVars, focus' = "backoff" PROVE RetryInv'
      OBVIOUS
    <2>1. focus = "backoff" /\ RetryInv
      BY DEF AlgorithmsNext, algorithmVars
    <2>2. CASE RetryNext
      BY <2>1, <2>2, RetryGoesOn
    <2>3. CASE retry' = retry
      BY <2>1, <2>3 DEF RetryInv, compute_backoff, Delay, Policy
    <2> QED
      BY <2>1, <2>2, <2>3 DEF AlgorithmsNext, algorithmVars
  <1>3. Inv => Backoffs
    BY RetryIsDocumented DEF Backoffs
  <1> QED
    BY <1>1, <1>2, <1>3, PTL DEF AlgorithmsSpec

(* A client that follows the cursors of a list sees every row that stays, once
   and in order, whatever is inserted and deleted between its pages: the keyset
   queries of both orders, for every set of rows and every limit. *)
THEOREM WalksAreComplete == AlgorithmsSpec => []Walks
  <1> DEFINE Inv == focus = "lists" => WalkInv
  <1>1. AlgorithmsInit => Inv
    BY WalkStarts DEF AlgorithmsInit
  <1>2. Inv /\ [AlgorithmsNext]_algorithmVars => Inv'
    <2> SUFFICES ASSUME Inv, [AlgorithmsNext]_algorithmVars, focus' = "lists" PROVE WalkInv'
      OBVIOUS
    <2>1. focus = "lists" /\ WalkInv
      BY DEF AlgorithmsNext, algorithmVars
    <2>2. CASE ListsNext
      BY <2>1, <2>2, WalkGoesOn
    <2>3. CASE UNCHANGED <<order, rows, walk>>
      BY <2>1, <2>3 DEF WalkInv, RowsInv, Present, After, Before, NoCursor, Absent
    <2> QED
      BY <2>1, <2>2, <2>3 DEF AlgorithmsNext, algorithmVars
  <1>3. Inv => Walks
    BY WalkKeeps DEF Walks
  <1> QED
    BY <1>1, <1>2, <1>3, PTL DEF AlgorithmsSpec

-----------------------------------------------------------------------------
(* Template resolution.                                                    *)

\* Joins[i]: the first i pieces, one after the other.
Joins(f, seqs) ==
  /\ f[0] = <<>>
  /\ \A i \in 1 .. Len(seqs) : f[i] = f[i - 1] \o seqs[i]

JoinsOf(f, seqs, S) == f \in [0 .. Len(seqs) -> Seq(S)] /\ Joins(f, seqs)

(* Pieces can be joined one by one. *)
LEMMA JoinsExists ==
  ASSUME NEW S, NEW seqs \in Seq(Seq(S))
  PROVE  \E f : JoinsOf(f, seqs, S)
  <1>1. PICK n \in Nat : n = Len(seqs)
    BY LenProperties
  <1>2. PICK Q : Q = Seq(S)
    OBVIOUS
  <1>3. \A i \in 1 .. n : seqs[i] \in Q
    BY <1>1, <1>2, ElementOfSeq
  <1>4. PICK h : h = [i \in Nat |-> [x \in Q |-> IF i + 1 \in 1 .. n THEN x \o seqs[i + 1] ELSE x]]
    OBVIOUS
  <1>5. h \in [Nat -> [Q -> Q]]
    <2>1. ASSUME NEW i \in Nat, NEW x \in Q, i + 1 \in 1 .. n PROVE x \o seqs[i + 1] \in Q
      BY <1>2, <1>3, <2>1, ConcatProperties
    <2> QED
      BY <1>4, <2>1
  <1>6. PICK e : e = <<>>
    OBVIOUS
  <1>7. e \in Q
    BY <1>2, <1>6
  <1>8. PICK g : Follows(g, Q, e, h)
    BY <1>5, <1>7, RecursionExists
  <1>9. g \in [Nat -> Q] /\ g[0] = e /\ \A i \in Nat : g[i + 1] = h[i][g[i]]
    BY <1>8 DEF Follows
  <1>10. PICK f : f = [i \in 0 .. n |-> g[i]]
    OBVIOUS
  <1>11. f \in [0 .. n -> Q] /\ f[0] = e
    BY <1>9, <1>10
  <1>12. ASSUME NEW i \in 1 .. n PROVE f[i] = f[i - 1] \o seqs[i]
    <2>1. i - 1 \in Nat /\ (i - 1) + 1 = i /\ i - 1 \in 0 .. n /\ i \in 0 .. n
      OBVIOUS
    <2>2. g[i] = h[i - 1][g[i - 1]]
      BY <1>9, <2>1
    <2>3. h[i - 1] = [x \in Q |-> IF (i - 1) + 1 \in 1 .. n THEN x \o seqs[(i - 1) + 1] ELSE x]
      BY <1>4, <2>1
    <2>4. h[i - 1] = [x \in Q |-> x \o seqs[i]]
      BY <2>1, <2>3
    <2>5. g[i - 1] \in Q
      BY <1>9, <2>1
    <2>6. h[i - 1][g[i - 1]] = g[i - 1] \o seqs[i]
      BY <2>4, <2>5
    <2> QED
      BY <1>10, <2>1, <2>2, <2>6
  <1>13. JoinsOf(f, seqs, S)
    BY <1>1, <1>2, <1>6, <1>11, <1>12 DEF JoinsOf, Joins
  <1> QED
    BY <1>13

(* Joined to the last, they are the whole. *)
LEMMA FlattenIs ==
  ASSUME NEW S, NEW seqs \in Seq(Seq(S)), NEW f, JoinsOf(f, seqs, S)
  PROVE  FlattenSeq(seqs) = f[Len(seqs)]
  <1>1. PICK n \in Nat : n = Len(seqs)
    BY LenProperties
  <1>2. CASE n = 0
    <2>1. seqs = <<>>
      BY <1>1, <1>2, EmptySeq
    <2> QED
      BY <1>1, <1>2, <2>1 DEF FlattenSeq, JoinsOf, Joins
  <1>3. CASE n # 0
    <2>1. PICK g : g = [i \in 1 .. n |-> f[i]]
      OBVIOUS
    <2>2. ASSUME NEW i \in 1 .. n
          PROVE  g[i] = IF i = 1 THEN seqs[i] ELSE g[i - 1] \o seqs[i]
      <3>1. g[i] = f[i] /\ f[i] = f[i - 1] \o seqs[i]
        BY <1>1, <2>1 DEF JoinsOf, Joins
      <3>2. CASE i = 1
        <4>1. f[i - 1] = <<>> /\ seqs[i] \in Seq(S)
          BY <1>1, <3>2, ElementOfSeq DEF JoinsOf, Joins
        <4> QED
          BY <3>1, <3>2, <4>1, ConcatEmptySeq
      <3>3. CASE i # 1
        <4>1. i - 1 \in 1 .. n
          BY <3>3
        <4> QED
          BY <2>1, <3>1, <3>3, <4>1
      <3> QED
        BY <3>2, <3>3
    <2>3. g = [i \in 1 .. n |-> IF i = 1 THEN seqs[i] ELSE g[i - 1] \o seqs[i]]
      BY <2>1, <2>2
    <2> DEFINE flatten[i \in 1 .. n] == IF i = 1 THEN seqs[i] ELSE flatten[i - 1] \o seqs[i]
    <2>4. flatten = [i \in 1 .. n |-> IF i = 1 THEN seqs[i] ELSE flatten[i - 1] \o seqs[i]]
      BY <2>3
    <2> HIDE DEF flatten
    <2>5. \A i \in 1 .. n : flatten[i] = IF i = 1 THEN seqs[i] ELSE flatten[i - 1] \o seqs[i]
      BY <2>4
    <2>6. Nat \subseteq {i \in Nat : i + 1 \in 1 .. n => flatten[i + 1] = g[i + 1]}
      <3> DEFINE T == {i \in Nat : i + 1 \in 1 .. n => flatten[i + 1] = g[i + 1]}
      <3>1. 0 \in T
        BY <2>2, <2>5
      <3>2. ASSUME NEW i \in Nat, i \in T PROVE i + 1 \in T
        <4> SUFFICES ASSUME (i + 1) + 1 \in 1 .. n PROVE flatten[(i + 1) + 1] = g[(i + 1) + 1]
          OBVIOUS
        <4>1. i + 1 \in 1 .. n /\ (i + 1) + 1 # 1 /\ ((i + 1) + 1) - 1 = i + 1
          OBVIOUS
        <4>2. flatten[i + 1] = g[i + 1]
          BY <3>2, <4>1
        <4>3. flatten[(i + 1) + 1] = flatten[i + 1] \o seqs[(i + 1) + 1]
          BY <2>5, <4>1
        <4>4. g[(i + 1) + 1] = g[i + 1] \o seqs[(i + 1) + 1]
          BY <2>2, <4>1
        <4> QED
          BY <4>2, <4>3, <4>4
      <3> HIDE DEF T
      <3>3. Nat \subseteq T
        BY <3>1, <3>2, SetInduction
      <3> QED
        BY <3>3 DEF T
    <2>7. n - 1 \in Nat /\ (n - 1) + 1 = n /\ n \in 1 .. n
      BY <1>3
    <2>8. flatten[n] = g[n] /\ g[n] = f[n]
      BY <2>1, <2>6, <2>7
    <2>9. FlattenSeq(seqs) = flatten[n]
      BY <1>1, <1>3 DEF FlattenSeq, flatten
    <2> QED
      BY <1>1, <2>8, <2>9
  <1> QED
    BY <1>2, <1>3

\* Rests[i]: the pieces after the i-th, one after the other.
RestsOf(r, seqs, S) ==
  /\ r \in [0 .. Len(seqs) -> Seq(S)]
  /\ r[Len(seqs)] = <<>>
  /\ \A i \in 1 .. Len(seqs) : r[i - 1] = seqs[i] \o r[i]

(* And taken off from the front one by one. *)
LEMMA RestsExists ==
  ASSUME NEW S, NEW seqs \in Seq(Seq(S))
  PROVE  \E r : RestsOf(r, seqs, S)
  <1>1. PICK n \in Nat : n = Len(seqs)
    BY LenProperties
  <1>2. PICK Q : Q = Seq(S)
    OBVIOUS
  <1>3. \A i \in 1 .. n : seqs[i] \in Q
    BY <1>1, <1>2, ElementOfSeq
  <1>4. PICK h : h = [i \in Nat |-> [x \in Q |-> IF n - i \in 1 .. n THEN seqs[n - i] \o x ELSE x]]
    OBVIOUS
  <1>5. h \in [Nat -> [Q -> Q]]
    <2>1. ASSUME NEW i \in Nat, NEW x \in Q, n - i \in 1 .. n PROVE seqs[n - i] \o x \in Q
      BY <1>2, <1>3, <2>1, ConcatProperties
    <2> QED
      BY <1>4, <2>1
  <1>6. PICK e : e = <<>>
    OBVIOUS
  <1>7. e \in Q
    BY <1>2, <1>6
  <1>8. PICK g : Follows(g, Q, e, h)
    BY <1>5, <1>7, RecursionExists
  <1>9. g \in [Nat -> Q] /\ g[0] = e /\ \A i \in Nat : g[i + 1] = h[i][g[i]]
    BY <1>8 DEF Follows
  <1>10. PICK r : r = [i \in 0 .. n |-> g[n - i]]
    OBVIOUS
  <1>11. r \in [0 .. n -> Q] /\ r[n] = e
    <2>1. \A i \in 0 .. n : n - i \in Nat
      OBVIOUS
    <2>2. n \in 0 .. n /\ n - n = 0
      OBVIOUS
    <2> QED
      BY <1>9, <1>10, <2>1, <2>2
  <1>12. ASSUME NEW i \in 1 .. n PROVE r[i - 1] = seqs[i] \o r[i]
    <2>1. PICK m \in Nat : m = n - i
      OBVIOUS
    <2>2. n - (i - 1) = m + 1 /\ n - m = i /\ i - 1 \in 0 .. n /\ i \in 0 .. n
      BY <2>1
    <2>3. g[m + 1] = h[m][g[m]] /\ g[m] \in Q
      BY <1>9, <2>1
    <2>4. h[m] = [x \in Q |-> seqs[i] \o x]
      <3>1. h[m] = [x \in Q |-> IF n - m \in 1 .. n THEN seqs[n - m] \o x ELSE x]
        BY <1>4
      <3> QED
        BY <2>2, <3>1
    <2>5. h[m][g[m]] = seqs[i] \o g[m]
      BY <2>3, <2>4
    <2>6. r[i - 1] = g[m + 1] /\ r[i] = g[m]
      BY <1>10, <2>1, <2>2
    <2> QED
      BY <2>3, <2>5, <2>6
  <1>13. RestsOf(r, seqs, S)
    BY <1>1, <1>2, <1>6, <1>11, <1>12 DEF RestsOf
  <1> QED
    BY <1>13

(* What is joined and what is left make the whole, at every piece. *)
LEMMA JoinsAndRests ==
  ASSUME NEW S, NEW seqs \in Seq(Seq(S)), NEW f, JoinsOf(f, seqs, S), NEW r, RestsOf(r, seqs, S)
  PROVE  /\ \A i \in 0 .. Len(seqs) : f[i] \o r[i] = r[0]
         /\ FlattenSeq(seqs) = r[0]
  <1>1. PICK n \in Nat : n = Len(seqs)
    BY LenProperties
  <1>2. /\ \A i \in 0 .. n : f[i] \in Seq(S) /\ r[i] \in Seq(S)
        /\ \A i \in 1 .. n : f[i] = f[i - 1] \o seqs[i] /\ r[i - 1] = seqs[i] \o r[i]
        /\ f[0] = <<>> /\ r[n] = <<>>
    BY <1>1 DEF JoinsOf, Joins, RestsOf
  <1>3. \A i \in 1 .. n : seqs[i] \in Seq(S)
    BY <1>1, ElementOfSeq
  <1>4. PICK e : e = [i \in 0 .. n |-> f[i] \o r[i]]
    OBVIOUS
  <1>5. PICK all : all = r[0]
    OBVIOUS
  <1>6. e[0] = all
    <2>1. 0 \in 0 .. n
      OBVIOUS
    <2>2. e[0] = f[0] \o r[0]
      BY <1>4, <2>1
    <2>3. f[0] = <<>>
      BY <1>2
    <2>4. all \in Seq(S)
      BY <1>2, <1>5, <2>1
    <2>5. <<>> \o all = all
      BY <2>4, ConcatEmptySeq
    <2> QED
      BY <1>5, <2>2, <2>3, <2>5
  <1>7. ASSUME NEW i \in Nat, i + 1 <= n PROVE e[i + 1] = e[i]
    <2>1. i + 1 \in 1 .. n /\ (i + 1) - 1 = i /\ i \in 0 .. n /\ i + 1 \in 0 .. n
      BY <1>7
    <2>2. PICK a, b, c : a = f[i] /\ b = seqs[i + 1] /\ c = r[i + 1]
      OBVIOUS
    <2>3. f[i + 1] = a \o b /\ r[i] = b \o c
      BY <1>2, <2>1, <2>2
    <2>4. a \in Seq(S) /\ b \in Seq(S) /\ c \in Seq(S)
      BY <1>2, <1>3, <2>1, <2>2
    <2>5. (a \o b) \o c = a \o (b \o c)
      BY <2>4, ConcatAssociative
    <2>6. e[i + 1] = f[i + 1] \o r[i + 1] /\ e[i] = f[i] \o r[i]
      BY <1>4, <2>1
    <2>7. e[i + 1] = (a \o b) \o c /\ e[i] = a \o (b \o c)
      BY <2>2, <2>3, <2>6
    <2> QED
      BY <2>5, <2>7
  <1>8. \A i \in 0 .. n : e[i] = all
    <2> DEFINE T == {i \in Nat : i <= n => e[i] = all}
    <2>1. 0 \in T
      BY <1>6
    <2>2. ASSUME NEW i \in Nat, i \in T PROVE i + 1 \in T
      BY <1>7, <2>2
    <2> HIDE DEF T
    <2>3. Nat \subseteq T
      BY <2>1, <2>2, SetInduction
    <2> QED
      BY <2>3 DEF T
  <1>9. \A i \in 0 .. n : f[i] \o r[i] = r[0]
    BY <1>4, <1>5, <1>8
  <1>10. f[n] = r[0]
    <2>1. n \in 0 .. n /\ r[n] = <<>>
      BY <1>2
    <2>2. f[n] \o r[n] = r[0]
      BY <1>9, <2>1
    <2>3. PICK a : a = f[n]
      OBVIOUS
    <2>4. a \in Seq(S)
      BY <1>2, <2>1, <2>3
    <2>5. a \o <<>> = a
      BY <2>4, ConcatEmptySeq
    <2> QED
      BY <2>1, <2>2, <2>3, <2>5
  <1>11. FlattenSeq(seqs) = r[0]
    BY <1>1, <1>10, FlattenIs
  <1> QED
    BY <1>1, <1>9, <1>11

(* Where a token of a piece is in the whole. *)
LEMMA Place ==
  ASSUME NEW S, NEW seqs \in Seq(Seq(S)), NEW f, JoinsOf(f, seqs, S),
         NEW i \in 1 .. Len(seqs), NEW o \in 1 .. Len(seqs[i])
  PROVE  /\ Len(f[i - 1]) + o \in 1 .. Len(FlattenSeq(seqs))
         /\ FlattenSeq(seqs)[Len(f[i - 1]) + o] = seqs[i][o]
  <1>1. PICK r : RestsOf(r, seqs, S)
    BY RestsExists
  <1>2. PICK n \in Nat : n = Len(seqs)
    BY LenProperties
  <1>3. i - 1 \in 0 .. n /\ i \in 0 .. n /\ i \in 1 .. n
    BY <1>2
  <1>4. PICK a, b, c : a = f[i - 1] /\ b = seqs[i] /\ c = r[i]
    OBVIOUS
  <1>5. a \in Seq(S) /\ b \in Seq(S) /\ c \in Seq(S)
    <2>1. b \in Seq(S)
      BY <1>4, ElementOfSeq
    <2>2. f \in [0 .. n -> Seq(S)] /\ r \in [0 .. n -> Seq(S)]
      BY <1>1, <1>2 DEF JoinsOf, RestsOf
    <2> QED
      BY <1>3, <1>4, <2>1, <2>2
  <1>6. FlattenSeq(seqs) = (a \o b) \o c
    <2>1. f[i] = a \o b
      BY <1>2, <1>3, <1>4 DEF JoinsOf, Joins
    <2>2. f[i] \o r[i] = r[0] /\ FlattenSeq(seqs) = r[0]
      BY <1>1, <1>2, <1>3, JoinsAndRests
    <2> QED
      BY <1>4, <2>1, <2>2
  <1>7. PICK d : d = a \o b
    OBVIOUS
  <1>8. d \in Seq(S) /\ Len(d) = Len(a) + Len(b)
    BY <1>5, <1>7, ConcatProperties
  <1>9. Len(a) \in Nat /\ Len(b) \in Nat /\ Len(c) \in Nat /\ o \in 1 .. Len(b)
    BY <1>4, <1>5, LenProperties
  <1>10. PICK p : p = Len(a) + o
    OBVIOUS
  <1>11. /\ p \in 1 .. Len(a) + Len(b) /\ ~(p <= Len(a)) /\ p - Len(a) = o
         /\ p \in 1 .. Len(d) + Len(c) /\ p <= Len(d)
    BY <1>8, <1>9, <1>10
  <1>12. (a \o b)[p] = b[o]
    BY <1>5, <1>11, ConcatProperties
  <1>13. (d \o c)[p] = d[p] /\ Len(d \o c) = Len(d) + Len(c)
    BY <1>5, <1>8, <1>11, ConcatProperties
  <1> QED
    BY <1>4, <1>6, <1>7, <1>10, <1>11, <1>12, <1>13

Located(p, seqs, f) ==
  \E i \in 1 .. Len(seqs) : \E o \in 1 .. Len(seqs[i]) : p = Len(f[i - 1]) + o

(* Every place of the whole is a place in one of the pieces. *)
LEMMA Locate ==
  ASSUME NEW S, NEW seqs \in Seq(Seq(S)), NEW f, JoinsOf(f, seqs, S),
         NEW p \in 1 .. Len(FlattenSeq(seqs))
  PROVE  Located(p, seqs, f)
  <1>1. PICK n \in Nat : n = Len(seqs)
    BY LenProperties
  <1>2. /\ \A i \in 0 .. n : f[i] \in Seq(S)
        /\ \A i \in 1 .. n : f[i] = f[i - 1] \o seqs[i]
        /\ f[0] = <<>>
    BY <1>1 DEF JoinsOf, Joins
  <1>3. \A i \in 1 .. n : seqs[i] \in Seq(S)
    BY <1>1, ElementOfSeq
  <1> DEFINE Found == \E i \in 1 .. n : \E o \in 1 .. Len(seqs[i]) : p = Len(f[i - 1]) + o
             T == {k \in Nat : k <= n /\ p \in 1 .. Len(f[k]) => Found}
  <1>4. 0 \in T
    BY <1>2
  <1>5. ASSUME NEW k \in Nat, k \in T PROVE k + 1 \in T
    <2> SUFFICES ASSUME k + 1 <= n, p \in 1 .. Len(f[k + 1]) PROVE Found
      OBVIOUS
    <2>1. k + 1 \in 1 .. n /\ (k + 1) - 1 = k /\ k \in 0 .. n
      OBVIOUS
    <2>2. PICK a, b : a = f[k] /\ b = seqs[k + 1]
      OBVIOUS
    <2>3. a \in Seq(S) /\ b \in Seq(S) /\ f[k + 1] = a \o b
      BY <1>2, <1>3, <2>1, <2>2
    <2>4. Len(f[k + 1]) = Len(a) + Len(b) /\ Len(a) \in Nat /\ Len(b) \in Nat
      BY <2>3, ConcatProperties, LenProperties
    <2>5. CASE p <= Len(a)
      <3>1. p \in 1 .. Len(f[k])
        BY <2>2, <2>4, <2>5
      <3> QED
        BY <1>5, <3>1
    <2>6. CASE p > Len(a)
      <3>1. PICK o : o = p - Len(a)
        OBVIOUS
      <3>2. o \in 1 .. Len(b) /\ p = Len(a) + o
        BY <2>4, <2>6, <3>1
      <3>3. p = Len(f[(k + 1) - 1]) + o /\ o \in 1 .. Len(seqs[k + 1])
        BY <2>1, <2>2, <3>2
      <3> QED
        BY <2>1, <3>3
    <2>7. p \in Nat
      OBVIOUS
    <2> QED
      BY <2>4, <2>5, <2>6, <2>7
  <1>6. Nat \subseteq T
    <2> HIDE DEF T
    <2> QED
      BY <1>4, <1>5, SetInduction
  <1>7. p \in 1 .. Len(f[n])
    BY <1>1, FlattenIs
  <1> QED
    BY <1>1, <1>6, <1>7 DEF Located

Plain == {Open, Close, Blank, "x", "y", "1", "input.a", "secret.s", "other"}
Tokens == Plain \cup {"key"}

(* The tokens are different ones. *)
LEMMA TokensDiffer ==
  /\ Open # Close /\ Open # Blank /\ Close # Blank
  /\ \A t \in {"x", "y", "1", "input.a", "secret.s", "other", "key"} :
       t # Open /\ t # Close /\ t # Blank
  BY Zenon DEF Open, Close, Blank

(* The secret's value is in no template and no input. *)
LEMMA KeyIsNotPlain == "key" \notin Plain
  <1>1. "key" # Open /\ "key" # Close /\ "key" # Blank
    BY TokensDiffer
  <1>2. "key" \notin {"x", "y", "1", "input.a", "secret.s", "other"}
    OBVIOUS
  <1> QED
    BY <1>1, <1>2 DEF Plain

(* A value, a missing one and an error are told apart. *)
LEMMA KindsDiffer ==
  /\ Missing # Error /\ Number # Missing /\ Number # Error
  /\ \A s : Text(s) # Missing /\ Text(s) # Error /\ Text(s) # Number
  /\ Missing.text = <<>> /\ Error.text = <<>> /\ Number.text = <<"1">>
  /\ \A s : Text(s).text = s
  BY DEF Missing, Error, Number, Text

(* The pieces, token by token. *)
Piece(s) ==
  \/ s = <<"x">> \/ s = <<Open>> \/ s = <<Close>>
  \/ \E v \in {"input.a", "secret.s", "other"} : s = <<Open, v, Close>>
  \/ \E v \in {"input.a", "secret.s"} : s = <<Open, Blank, v, Blank, Close>>

(* The pieces of a template are the ones the model lists. *)
LEMMA PiecesAre == \A s \in Segments : Piece(s)
  BY DEF Segments, Wellformed, Opened, Spaced, Piece

(* They hold tokens, and none starts or ends with a blank. *)
LEMMA PiecesArePlain ==
  ASSUME NEW s, Piece(s)
  PROVE  s \in Seq(Plain) /\ Len(s) \in Nat \ {0} /\ s[1] # Blank /\ s[Len(s)] # Blank
  <1>1. /\ Open \in Plain /\ Close \in Plain /\ Blank \in Plain /\ "x" \in Plain
        /\ {"input.a", "secret.s", "other"} \subseteq Plain
    BY DEF Plain
  <1>2. "x" # Blank /\ Open # Blank /\ Close # Blank
    BY TokensDiffer
  <1>3. ASSUME NEW v \in Plain, v # Blank, s = <<v>>
        PROVE  s \in Seq(Plain) /\ Len(s) \in Nat \ {0} /\ s[1] # Blank /\ s[Len(s)] # Blank
    BY <1>3
  <1>4. ASSUME NEW v \in {"input.a", "secret.s", "other"}, s = <<Open, v, Close>>
        PROVE  s \in Seq(Plain) /\ Len(s) \in Nat \ {0} /\ s[1] # Blank /\ s[Len(s)] # Blank
    BY <1>1, <1>2, <1>4
  <1>5. ASSUME NEW v \in {"input.a", "secret.s"}, s = <<Open, Blank, v, Blank, Close>>
        PROVE  s \in Seq(Plain) /\ Len(s) \in Nat \ {0} /\ s[1] # Blank /\ s[Len(s)] # Blank
    BY <1>1, <1>2, <1>5
  <1> QED
    BY <1>1, <1>2, <1>3, <1>4, <1>5 DEF Piece

(* An input holds tokens other than the secret; a value that is there is not
   empty. *)
LEMMA ValuesArePlain ==
  /\ \A v \in Inputs : v.text \in Seq(Plain) /\ v # Error
  /\ \A v \in Secrets : v.text \in Seq(Tokens) /\ v # Error
  /\ \A v \in Inputs \cup Secrets : v # Missing => Len(v.text) > 0
  <1>1. Open \in Plain /\ Close \in Plain /\ "y" \in Plain /\ "1" \in Plain /\ "secret.s" \in Plain
    BY DEF Plain
  <1>2. "key" \in Tokens
    BY DEF Tokens
  <1>3. ASSUME NEW v \in Inputs PROVE v.text \in Seq(Plain) /\ v # Error /\ (v # Missing => Len(v.text) > 0)
    <2>1. CASE v = Missing
      BY <2>1, KindsDiffer
    <2>2. CASE v = Text(<<"y">>)
      <3>1. v.text = <<"y">> /\ v # Error
        BY <2>2, KindsDiffer
      <3> QED
        BY <1>1, <3>1
    <2>3. CASE v = Number
      <3>1. v.text = <<"1">> /\ v # Error
        BY <2>3, KindsDiffer
      <3> QED
        BY <1>1, <3>1
    <2>4. CASE v = Text(Opened("secret.s"))
      <3>1. v.text = <<Open, "secret.s", Close>> /\ v # Error
        BY <2>4, KindsDiffer DEF Opened
      <3> QED
        BY <1>1, <3>1
    <2> QED
      BY <2>1, <2>2, <2>3, <2>4 DEF Inputs
  <1>4. ASSUME NEW v \in Secrets PROVE v.text \in Seq(Tokens) /\ v # Error /\ (v # Missing => Len(v.text) > 0)
    <2>1. CASE v = Missing
      BY <2>1, KindsDiffer
    <2>2. CASE v = Text(<<"key">>)
      <3>1. v.text = <<"key">> /\ v # Error
        BY <2>2, KindsDiffer
      <3> QED
        BY <1>2, <3>1
    <2> QED
      BY <2>1, <2>2 DEF Secrets
  <1> QED
    BY <1>3, <1>4

(* The search finds the first one, if there is one. *)
LEMMA FindIs ==
  ASSUME NEW s, Len(s) \in Nat, NEW token, NEW from \in Nat
  PROVE  \/ find(s, token, from) = 0 /\ \A i \in from .. Len(s) : s[i] # token
         \/ /\ find(s, token, from) \in from .. Len(s) /\ s[find(s, token, from)] = token
            /\ \A i \in from .. find(s, token, from) - 1 : s[i] # token
  <1>1. PICK hits : hits = {i \in from .. Len(s) : s[i] = token}
    OBVIOUS
  <1>2. CASE hits = {}
    BY <1>1, <1>2 DEF find
  <1>3. CASE hits # {}
    <2>1. hits \in SUBSET Nat
      BY <1>1
    <2>2. \E x \in hits : \A y \in hits : x <= y
      BY <1>3, <2>1, LeastNumber
    <2>3. Min(hits) \in hits /\ \A y \in hits : Min(hits) <= y
      BY <2>2 DEF Min
    <2>4. PICK m : m = Min(hits)
      OBVIOUS
    <2>5. find(s, token, from) = m
      BY <1>1, <1>3, <2>4 DEF find
    <2>6. m \in from .. Len(s) /\ s[m] = token
      BY <1>1, <2>3, <2>4
    <2>7. ASSUME NEW i \in from .. m - 1 PROVE s[i] # token
      <3> SUFFICES ASSUME s[i] = token PROVE FALSE
        OBVIOUS
      <3>1. i \in from .. Len(s) /\ i < m
        BY <2>6
      <3>2. i \in hits
        BY <1>1, <3>1
      <3> QED
        BY <2>3, <2>4, <2>6, <3>1, <3>2
    <2> QED
      BY <2>5, <2>6, <2>7
  <1> QED
    BY <1>2, <1>3

(* find gives the first place at which the token is. *)
LEMMA FindsAt ==
  ASSUME NEW s, Len(s) \in Nat, NEW token, NEW from \in Nat, NEW p \in from .. Len(s),
         p # 0, s[p] = token, \A i \in from .. p - 1 : s[i] # token
  PROVE  find(s, token, from) = p
  <1>1. PICK q : q = find(s, token, from)
    OBVIOUS
  <1>2. \/ q = 0 /\ \A i \in from .. Len(s) : s[i] # token
        \/ q \in from .. Len(s) /\ s[q] = token /\ \A i \in from .. q - 1 : s[i] # token
    BY <1>1, FindIs
  <1>3. q \in from .. Len(s) /\ s[q] = token /\ \A i \in from .. q - 1 : s[i] # token
    BY <1>2
  <1>4. ~(q < p)
    BY <1>3
  <1>5. ~(p < q)
    BY <1>3
  <1> QED
    BY <1>1, <1>3, <1>4, <1>5

(* trim keeps what is not blank at its ends. *)
LEMMA TrimKeeps ==
  ASSUME NEW S, NEW s \in Seq(S), Len(s) # 0, s[1] # Blank, s[Len(s)] # Blank
  PROVE  trim(s) = s
  <1>1. PICK n \in Nat \ {0} : n = Len(s)
    BY LenProperties
  <1>2. PICK ink : ink = {i \in 1 .. Len(s) : s[i] # Blank}
    OBVIOUS
  <1>3. 1 \in ink /\ n \in ink /\ \A i \in ink : i \in Nat /\ 1 <= i /\ i <= n
    BY <1>1, <1>2
  <1>4. Min(ink) = 1
    <2>1. \E x \in ink : \A i \in ink : x <= i
      BY <1>3
    <2>2. Min(ink) \in ink /\ \A i \in ink : Min(ink) <= i
      BY <2>1 DEF Min
    <2>3. PICK m : m = Min(ink)
      OBVIOUS
    <2>4. m \in ink /\ m <= 1
      BY <1>3, <2>2, <2>3
    <2>5. m \in Nat /\ 1 <= m /\ m <= n
      BY <1>3, <2>4
    <2> QED
      BY <2>3, <2>4, <2>5
  <1>5. Max(ink) = n
    <2>1. \E x \in ink : \A i \in ink : x >= i
      BY <1>3
    <2>2. Max(ink) \in ink /\ \A i \in ink : Max(ink) >= i
      BY <2>1 DEF Max
    <2>3. PICK m : m = Max(ink)
      OBVIOUS
    <2>4. m \in ink /\ m >= n
      BY <1>3, <2>2, <2>3
    <2>5. m \in Nat /\ 1 <= m /\ m <= n
      BY <1>3, <2>4
    <2> QED
      BY <2>3, <2>4, <2>5
  <1>6. trim(s) = SubSeq(s, 1, n)
    BY <1>2, <1>3, <1>4, <1>5 DEF trim
  <1> QED
    BY <1>1, <1>6, SubSeqFull

(* trim takes the blanks off a name, and nothing else. *)
LEMMA TrimStrips ==
  ASSUME NEW v, v # Blank
  PROVE  trim(<<Blank, v, Blank>>) = <<v>> /\ trim(<<v>>) = <<v>>
  <1>1. trim(<<v>>) = <<v>>
    <2>1. PICK t : t = <<v>>
      OBVIOUS
    <2>2. t \in Seq({v}) /\ Len(t) = 1 /\ t[1] = v
      BY <2>1
    <2>3. trim(t) = t
      BY <2>2, TrimKeeps
    <2> QED
      BY <2>1, <2>3
  <1>2. PICK s : s = <<Blank, v, Blank>>
    OBVIOUS
  <1>3. Len(s) = 3 /\ s[1] = Blank /\ s[2] = v /\ s[3] = Blank
    BY <1>2
  <1>4. PICK ink : ink = {i \in 1 .. Len(s) : s[i] # Blank}
    OBVIOUS
  <1>5. ink = {2}
    <2>1. \A i \in 1 .. 3 : i = 1 \/ i = 2 \/ i = 3
      OBVIOUS
    <2> QED
      BY <1>3, <1>4, <2>1
  <1>6. Min(ink) = 2 /\ Max(ink) = 2
    <2>1. \E x \in ink : \A i \in ink : x <= i
      BY <1>5
    <2>2. \E x \in ink : \A i \in ink : x >= i
      BY <1>5
    <2>3. Min(ink) \in ink
      BY <2>1 DEF Min
    <2>4. Max(ink) \in ink
      BY <2>2 DEF Max
    <2> QED
      BY <1>5, <2>3, <2>4
  <1>7. trim(s) = SubSeq(s, 2, 2)
    BY <1>4, <1>5, <1>6 DEF trim
  <1>8. SubSeq(s, 2, 2) = <<v>>
    <2>1. \A i \in 2 .. 2 : s[i] \in {v}
      BY <1>3
    <2>2. PICK t : t = SubSeq(s, 2, 2)
      OBVIOUS
    <2>3. t \in Seq({v}) /\ Len(t) = 1
      BY <2>1, <2>2, SubSeqProperties
    <2>4. t[1] = v
      BY <2>3, ElementOfSeq
    <2>5. <<v>> \in Seq({v}) /\ Len(<<v>>) = 1 /\ <<v>>[1] = v
      OBVIOUS
    <2>6. t = <<v>>
      <3>1. \A i \in 1 .. Len(t) : t[i] = <<v>>[i]
        BY <2>3, <2>4, <2>5
      <3> QED
        BY <2>3, <2>5, <3>1, SeqEqual
    <2> QED
      BY <2>2, <2>6
  <1> QED
    BY <1>1, <1>2, <1>7, <1>8

(* Where the whole names a secret, a piece does. *)
LEMMA SecretIsNamed ==
  ASSUME NEW segs \in Seq(Segments), NEW f, JoinsOf(f, segs, Plain), segs \in Seq(Seq(Plain)),
         NEW p \in Nat, p \in 1 .. Len(FlattenSeq(segs)), p + 1 \in 1 .. Len(FlattenSeq(segs)),
         FlattenSeq(segs)[p] = Open, FlattenSeq(segs)[p + 1] = "secret.s"
  PROVE  \E i \in 1 .. Len(segs) : segs[i] = Opened("secret.s") /\ p = Len(f[i - 1]) + 1
  <1>1. PICK s : s = FlattenSeq(segs)
    OBVIOUS
  <1>13. \A i \in 1 .. Len(segs) : \A o \in 1 .. Len(segs[i]) :
           FlattenSeq(segs)[Len(f[i - 1]) + o] = segs[i][o]
    BY Place, SMTT(40)
  <1>2. PICK i \in 1 .. Len(segs) : \E o \in 1 .. Len(segs[i]) : p + 1 = Len(f[i - 1]) + o
    <2>1. PICK q : q = p + 1
      OBVIOUS
    <2>2. q \in 1 .. Len(FlattenSeq(segs))
      BY <2>1
    <2>3. Located(q, segs, f)
      BY <2>2, Locate
    <2> QED
      BY <2>1, <2>3 DEF Located
  <1>3. PICK o \in 1 .. Len(segs[i]) : p + 1 = Len(f[i - 1]) + o
    BY <1>2
  <1>4. PICK seg : seg = segs[i]
    OBVIOUS
  <1>5. Piece(seg)
    BY <1>4, ElementOfSeq, PiecesAre
  <1>6. seg[o] = "secret.s" /\ o \in 1 .. Len(seg)
    BY <1>3, <1>4, Place
  <1>7. "secret.s" # Open /\ "secret.s" # Close /\ "secret.s" # Blank /\ Open # Blank
    BY TokensDiffer
  <1>8. Len(f[i - 1]) \in Nat
    <2>1. i - 1 \in 0 .. Len(segs)
      BY LenProperties
    <2>2. f[i - 1] \in Seq(Plain)
      BY <2>1 DEF JoinsOf
    <2> QED
      BY <2>2, LenProperties
  <1>9. ASSUME NEW v, seg = <<v>> PROVE v = "secret.s"
    BY <1>6, <1>9
  <1>10. CASE seg = <<"x">> \/ seg = <<Open>> \/ seg = <<Close>>
    BY <1>7, <1>9, <1>10
  <1>11. ASSUME NEW v \in {"input.a", "secret.s", "other"}, seg = <<Open, v, Close>>
         PROVE  seg = Opened("secret.s") /\ p = Len(f[i - 1]) + 1
    <2>1. o \in {1, 2, 3} /\ seg[1] = Open /\ seg[2] = v /\ seg[3] = Close
      BY <1>6, <1>11
    <2>2. o = 2
      BY <1>6, <1>7, <2>1
    <2>3. v = "secret.s"
      BY <1>6, <2>1, <2>2
    <2>4. p = Len(f[i - 1]) + 1
      BY <1>3, <1>8, <2>2
    <2>5. seg = Opened("secret.s")
      BY <1>11, <2>3 DEF Opened
    <2> QED
      BY <2>4, <2>5
  <1>12. ASSUME NEW v \in {"input.a", "secret.s"}, seg = <<Open, Blank, v, Blank, Close>>
         PROVE  FALSE
    <2>1. /\ o \in {1, 2, 3, 4, 5} /\ seg[1] = Open /\ seg[2] = Blank /\ seg[3] = v
          /\ seg[4] = Blank /\ seg[5] = Close /\ 2 \in 1 .. Len(seg)
      BY <1>6, <1>12
    <2>2. o = 3
      BY <1>6, <1>7, <2>1
    <2>3. p = Len(f[i - 1]) + 2
      BY <1>3, <1>8, <2>2
    <2>4. FlattenSeq(segs)[Len(f[i - 1]) + 2] = seg[2]
      BY <1>4, <1>13, <2>1
    <2> QED
      BY <1>7, <2>1, <2>3, <2>4
  <1> QED
    BY <1>4, <1>5, <1>10, <1>11, <1>12 DEF Piece

(* A template's pieces are of plain tokens and can be joined. *)
LEMMA SegmentsArePlain ==
  ASSUME NEW segs \in Seq(Segments)
  PROVE  segs \in Seq(Seq(Plain)) /\ \E f : JoinsOf(f, segs, Plain)
  <1>1. \A s \in Segments : s \in Seq(Plain)
    BY PiecesAre, PiecesArePlain
  <1>2. PICK Q : Q = Seq(Plain)
    OBVIOUS
  <1>3. segs \in Seq(Q)
    BY <1>1, <1>2, SeqMonotonic
  <1> QED
    BY <1>2, <1>3, JoinsExists

(* What load_secrets gives. *)
LEMMA SecretsAre ==
  ASSUME NEW segs \in Seq(Segments), NEW stored \in Secrets
  PROVE  load_secrets(FlattenSeq(segs), stored) =
           IF Opened("secret.s") \notin ToSet(segs) THEN Missing
           ELSE IF stored = Missing THEN Error ELSE stored
  <1>1. PICK s : s = FlattenSeq(segs)
    OBVIOUS
  <1>2. PICK f : JoinsOf(f, segs, Plain)
    BY SegmentsArePlain
  <1>3. segs \in Seq(Seq(Plain)) /\ Len(segs) \in Nat
    BY SegmentsArePlain, LenProperties
  <1>4. s \in Seq(Plain) /\ Len(s) \in Nat
    <2>1. f[Len(segs)] \in Seq(Plain)
      BY <1>2, <1>3 DEF JoinsOf
    <2> QED
      BY <1>1, <1>2, <1>3, <2>1, FlattenIs, LenProperties
  <1> DEFINE K == {k \in 1 .. Len(s) - 1 : s[k] = Open /\ s[k + 1] = "secret.s"
                                           /\ find(s, Close, k) > 0}
             Name(k) == SubSeq(s, k + 1, find(s, Close, k) - 1)
  <1>6. Names(s) = {Name(k) : k \in K}
    BY DEF Names
  <1>7. ASSUME NEW k \in K
        PROVE  \E i \in 1 .. Len(segs) : segs[i] = Opened("secret.s") /\ k = Len(f[i - 1]) + 1
    <2>1. /\ k \in Nat /\ k \in 1 .. Len(s) /\ k + 1 \in 1 .. Len(s)
          /\ s[k] = Open /\ s[k + 1] = "secret.s"
      BY <1>4
    <2> HIDE DEF K
    <2> QED
      BY <1>1, <1>2, <1>3, <2>1, SecretIsNamed
  <1>8. ASSUME NEW i \in 1 .. Len(segs), segs[i] = Opened("secret.s")
        PROVE  Len(f[i - 1]) + 1 \in K /\ Name(Len(f[i - 1]) + 1) = <<"secret.s">>
    <2>1. PICK b : b = Len(f[i - 1])
      OBVIOUS
    <2>2. b \in Nat
      <3>1. i - 1 \in 0 .. Len(segs)
        BY <1>3
      <3>2. f[i - 1] \in Seq(Plain)
        BY <1>2, <3>1 DEF JoinsOf
      <3> QED
        BY <2>1, <3>2, LenProperties
    <2>3. PICK seg : seg = segs[i]
      OBVIOUS
    <2>4. Len(seg) = 3 /\ seg[1] = Open /\ seg[2] = "secret.s" /\ seg[3] = Close
      BY <1>8, <2>3 DEF Opened
    <2>5. \A o \in 1 .. 3 : b + o \in 1 .. Len(s) /\ s[b + o] = seg[o]
      <3>1. \A o \in 1 .. Len(segs[i]) :
              /\ Len(f[i - 1]) + o \in 1 .. Len(FlattenSeq(segs))
              /\ FlattenSeq(segs)[Len(f[i - 1]) + o] = segs[i][o]
        BY <1>2, <1>3, Place
      <3> QED
        BY <1>1, <2>1, <2>3, <2>4, <3>1
    <2>6. /\ s[b + 1] = Open /\ s[b + 2] = "secret.s" /\ s[b + 3] = Close
          /\ b + 3 \in 1 .. Len(s)
      BY <2>4, <2>5
    <2>7. find(s, Close, b + 1) = b + 3
      <3>1. \A j \in b + 1 .. (b + 3) - 1 : j = b + 1 \/ j = b + 2
        BY <2>2
      <3>2. Open # Close /\ "secret.s" # Close
        BY TokensDiffer
      <3>3. \A j \in b + 1 .. (b + 3) - 1 : s[j] # Close
        BY <2>6, <3>1, <3>2
      <3>4. b + 3 \in b + 1 .. Len(s) /\ b + 3 # 0 /\ b + 1 \in Nat
        BY <1>4, <2>2, <2>6
      <3> QED
        BY <1>4, <2>6, <3>3, <3>4, FindsAt, SMTT(40)
    <2>8. b + 1 \in K
      <3>1. b + 1 \in 1 .. Len(s) - 1 /\ (b + 1) + 1 = b + 2
        BY <1>4, <2>2, <2>6
      <3> QED
        BY <2>2, <2>6, <2>7, <3>1
    <2>9. Name(b + 1) = <<"secret.s">>
      <3>1. (b + 1) + 1 = b + 2 /\ (b + 3) - 1 = b + 2
        BY <2>2
      <3>2. Name(b + 1) = SubSeq(s, b + 2, b + 2)
        BY <2>7, <3>1
      <3> HIDE DEF Name, K
      <3>3. PICK v : v = "secret.s"
        OBVIOUS
      <3>4. \A j \in b + 2 .. b + 2 : s[j] \in {v}
        BY <2>2, <2>6, <3>3
      <3>5. PICK t : t = SubSeq(s, b + 2, b + 2)
        OBVIOUS
      <3>6. b + 2 \in Int
        BY <2>2
      <3>7. t \in Seq({v}) /\ Len(t) = 1
        <4>1. PICK m : m = b + 2
          OBVIOUS
        <4>2. m \in Int /\ \A j \in m .. m : s[j] \in {v}
          BY <3>4, <3>6, <4>1
        <4>3. SubSeq(s, m, m) \in Seq({v}) /\ Len(SubSeq(s, m, m)) = IF m <= m THEN m - m + 1 ELSE 0
          BY <4>2, SubSeqProperties
        <4> QED
          BY <3>5, <4>1, <4>2, <4>3
      <3>8. t[1] = v
        <4>1. t \in [1 .. Len(t) -> {v}]
          BY <3>7, LenProperties
        <4> QED
          BY <3>7, <4>1
      <3>9. <<v>> \in Seq({v}) /\ Len(<<v>>) = 1 /\ <<v>>[1] = v
        OBVIOUS
      <3>10. t = <<v>>
        <4>1. \A j \in 1 .. Len(t) : t[j] = <<v>>[j]
          BY <3>7, <3>8, <3>9
        <4> QED
          BY <3>7, <3>9, <4>1, SeqEqual
      <3> QED
        BY <3>2, <3>3, <3>5, <3>10
    <2> QED
      BY <2>1, <2>8, <2>9
  <1> HIDE DEF K, Name
  <1>9. \A x : x \in ToSet(segs) <=> \E i \in 1 .. Len(segs) : segs[i] = x
    <2>1. DOMAIN segs = 1 .. Len(segs)
      BY LenProperties
    <2> QED
      BY <2>1 DEF ToSet
  <1>10. ASSUME Opened("secret.s") \notin ToSet(segs) PROVE load_secrets(s, stored) = Missing
    <2>1. K = {}
      BY <1>7, <1>9, <1>10
    <2>2. Names(s) = {}
      BY <1>6, <2>1
    <2> QED
      BY <2>2 DEF load_secrets
  <1>11. ASSUME Opened("secret.s") \in ToSet(segs)
         PROVE  load_secrets(s, stored) = IF stored = Missing THEN Error ELSE stored
    <2>1. PICK i \in 1 .. Len(segs) : segs[i] = Opened("secret.s")
      BY <1>9, <1>11
    <2>2. Names(s) # {}
      BY <1>6, <1>8, <2>1
    <2>3. \A k \in K : Name(k) = <<"secret.s">>
      BY <1>7, <1>8
    <2>4. Names(s) = {<<"secret.s">>}
      BY <1>6, <2>2, <2>3
    <2> QED
      BY <2>2, <2>4 DEF load_secrets
  <1> QED
    BY <1>1, <1>10, <1>11

(* A whole of two parts is cut into them. *)
LEMMA CutsApart ==
  ASSUME NEW S, NEW a \in Seq(S), NEW b \in Seq(S)
  PROVE  /\ SubSeq(a \o b, 1, Len(a)) = a
         /\ SubSeq(a \o b, Len(a) + 1, Len(a \o b)) = b
  <1>1. PICK m \in Nat, n \in Nat : m = Len(a) /\ n = Len(b)
    BY LenProperties
  <1>2. PICK c : c = a \o b
    OBVIOUS
  <1>3. c \in Seq(S) /\ Len(c) = m + n
    BY <1>1, <1>2, ConcatProperties
  <1>4. \A i \in 1 .. m : c[i] = a[i] /\ a[i] \in S
    <2> SUFFICES ASSUME NEW i \in 1 .. m PROVE c[i] = a[i] /\ a[i] \in S
      OBVIOUS
    <2>1. i \in 1 .. Len(a) + Len(b) /\ i <= Len(a) /\ i \in 1 .. Len(a)
      BY <1>1
    <2> QED
      BY <1>2, <2>1, ConcatProperties, ElementOfSeq
  <1>5. \A i \in 1 .. n : c[m + i] = b[i] /\ b[i] \in S
    <2> SUFFICES ASSUME NEW i \in 1 .. n PROVE c[m + i] = b[i] /\ b[i] \in S
      OBVIOUS
    <2>1. m + i \in 1 .. Len(a) + Len(b) /\ ~(m + i <= Len(a)) /\ (m + i) - Len(a) = i /\ i \in 1 .. Len(b)
      BY <1>1
    <2> QED
      BY <1>2, <2>1, ConcatProperties, ElementOfSeq
  <1>6. SubSeq(c, 1, m) = a
    <2>1. PICK t : t = SubSeq(c, 1, m)
      OBVIOUS
    <2>2. \A i \in 1 .. m : c[i] \in S
      BY <1>4
    <2>3. /\ SubSeq(c, 1, m) \in Seq(S) /\ Len(SubSeq(c, 1, m)) = IF 1 <= m THEN m - 1 + 1 ELSE 0
          /\ \A i \in 1 .. m - 1 + 1 : SubSeq(c, 1, m)[i] = c[1 + i - 1]
      BY <2>2, SubSeqProperties
    <2>4. t \in Seq(S) /\ Len(t) = m /\ \A i \in 1 .. m : t[i] = c[i]
      <3>1. m - 1 + 1 = m /\ \A i \in 1 .. m : 1 + i - 1 = i
        OBVIOUS
      <3> QED
        BY <2>1, <2>3, <3>1
    <2>5. \A i \in 1 .. Len(t) : t[i] = a[i]
      BY <1>4, <2>4
    <2>6. t = a
      BY <1>1, <2>4, <2>5, SeqEqual
    <2> QED
      BY <2>1, <2>6
  <1>7. SubSeq(c, m + 1, m + n) = b
    <2>1. PICK t : t = SubSeq(c, m + 1, m + n)
      OBVIOUS
    <2>2. ASSUME NEW i \in m + 1 .. m + n PROVE c[i] \in S
      <3>1. i - m \in 1 .. n /\ m + (i - m) = i
        OBVIOUS
      <3> QED
        BY <1>5, <3>1
    <2>3. PICK u \in Int, v \in Int : u = m + 1 /\ v = m + n
      OBVIOUS
    <2>4. \A i \in u .. v : c[i] \in S
      BY <2>2, <2>3
    <2>5. /\ SubSeq(c, u, v) \in Seq(S) /\ Len(SubSeq(c, u, v)) = IF u <= v THEN v - u + 1 ELSE 0
          /\ \A i \in 1 .. v - u + 1 : SubSeq(c, u, v)[i] = c[u + i - 1]
      BY <2>4, SubSeqProperties
    <2>6. t \in Seq(S) /\ Len(t) = n /\ \A i \in 1 .. n : t[i] = c[m + i]
      <3>1. v - u + 1 = n /\ \A i \in 1 .. n : u + i - 1 = m + i
        BY <2>3
      <3> QED
        BY <2>1, <2>3, <2>5, <3>1
    <2>7. \A i \in 1 .. Len(t) : t[i] = b[i]
      BY <1>5, <2>6
    <2>8. t = b
      BY <1>1, <2>6, <2>7, SeqEqual
    <2> QED
      BY <2>1, <2>8
  <1> QED
    BY <1>1, <1>2, <1>3, <1>6, <1>7

(* What a turn puts together is of the same tokens. *)
LEMMA Spliced ==
  ASSUME NEW S, NEW t \in Seq(S), NEW v \in Seq(S), NEW a \in 1 .. Len(t), NEW b \in a .. Len(t)
  PROVE  SubSeq(t, 1, a - 1) \o v \o SubSeq(t, b + 1, Len(t)) \in Seq(S)
  <1>1. PICK n \in Nat : n = Len(t)
    BY LenProperties
  <1>2. \A i \in 1 .. n : t[i] \in S
    BY <1>1, ElementOfSeq
  <1>3. a \in Int /\ b \in Int /\ 1 <= a /\ a <= n /\ 1 <= b /\ b <= n
    BY <1>1
  <1>4. SubSeq(t, 1, a - 1) \in Seq(S)
    <2>1. PICK m \in Int : m = a - 1
      BY <1>3
    <2>2. \A i \in 1 .. m : t[i] \in S
      BY <1>2, <1>3, <2>1
    <2>3. SubSeq(t, 1, m) \in Seq(S)
      BY <2>2, SubSeqProperties
    <2> QED
      BY <2>1, <2>3
  <1>5. SubSeq(t, b + 1, n) \in Seq(S)
    <2>1. PICK m \in Int : m = b + 1
      BY <1>3
    <2>2. \A i \in m .. n : t[i] \in S
      BY <1>2, <1>3, <2>1
    <2>3. SubSeq(t, m, n) \in Seq(S)
      BY <2>2, SubSeqProperties
    <2> QED
      BY <2>1, <2>3
  <1>6. SubSeq(t, 1, a - 1) \o v \in Seq(S)
    BY <1>4, ConcatProperties
  <1> QED
    BY <1>1, <1>5, <1>6, ConcatProperties

-----------------------------------------------------------------------------
(* The steps of resolve_string.                                            *)

\* The template as Init chose it, and a text and a result made of tokens.
TplInv ==
  /\ tpl = [segments |-> tpl.segments, input |-> tpl.input, stored |-> tpl.stored,
            secrets |-> tpl.secrets, text |-> tpl.text, start |-> tpl.start,
            value |-> tpl.value]
  /\ tpl.segments \in Seq(Segments) /\ tpl.input \in Inputs /\ tpl.stored \in Secrets
  /\ tpl.secrets = load_secrets(FlattenSeq(tpl.segments), tpl.stored)
  /\ tpl.text \in Seq(Tokens) /\ tpl.start \in Nat \ {0}
  /\ tpl.secrets = Error => tpl.value = Error

\* What a step leaves.
Became(text, start, value) ==
  /\ tpl' = [segments |-> tpl.segments, input |-> tpl.input, stored |-> tpl.stored,
             secrets |-> tpl.secrets, text |-> text, start |-> start, value |-> value]
  /\ tpl'.segments = tpl.segments /\ tpl'.input = tpl.input /\ tpl'.stored = tpl.stored
  /\ tpl'.secrets = tpl.secrets /\ tpl'.text = text /\ tpl'.start = start
  /\ tpl'.value = value

OpenAt == find(tpl.text, Open, tpl.start)
CloseAt == find(tpl.text, Close, OpenAt)
Found == resolve_variable(trim(SubSeq(tpl.text, OpenAt + 1, CloseAt - 1)), Values)
Rewritten == SubSeq(tpl.text, 1, OpenAt - 1) \o Found.text
               \o SubSeq(tpl.text, CloseAt + 1, Len(tpl.text))
Single == LET t == trim(tpl.text)
          IN  resolve_variable(trim(SubSeq(t, 2, Len(t) - 1)), Values)

(* A step of resolve_string resolves a single variable, ends for want of a brace
   or with an error, or replaces one variable and goes on after its value. *)
LEMMA TurnIs ==
  ASSUME TplInv, TemplatesNext
  PROVE  /\ tpl.value = Missing
         /\ \/ /\ tpl.start = 1 /\ is_single_template(tpl.text)
               /\ Became(tpl.text, tpl.start, Single)
            \/ /\ tpl.start = 1 => ~is_single_template(tpl.text)
               /\ \/ /\ OpenAt = 0 \/ CloseAt = 0
                     /\ Became(tpl.text, tpl.start, Text(tpl.text))
                  \/ /\ ~(OpenAt = 0 \/ CloseAt = 0) /\ Found = Error
                     /\ Became(tpl.text, tpl.start, Error)
                  \/ /\ ~(OpenAt = 0 \/ CloseAt = 0) /\ Found # Error
                     /\ Became(Rewritten, OpenAt + Len(Found.text), tpl.value)
  <1>1. tpl.value = Missing
    BY DEF TemplatesNext
  <1>2. ASSUME NEW v, Finish(v) PROVE Became(tpl.text, tpl.start, v)
    <2>1. tpl' = [segments |-> tpl.segments, input |-> tpl.input, stored |-> tpl.stored,
                  secrets |-> tpl.secrets, text |-> tpl.text, start |-> tpl.start, value |-> v]
      BY <1>2 DEF Finish, TplInv
    <2> QED
      BY <2>1 DEF Became
  <1>3. CASE resolve_single
    <2>1. Finish(Single) /\ tpl.start = 1 /\ is_single_template(tpl.text)
      BY <1>3 DEF resolve_single, Single
    <2> QED
      BY <1>1, <1>2, <2>1
  <1>4. CASE resolve_string /\ (tpl.start = 1 => ~is_single_template(tpl.text))
    <2>1. IF OpenAt = 0 \/ CloseAt = 0 THEN Finish(Text(tpl.text))
          ELSE IF Found = Error THEN Finish(Error)
          ELSE tpl' = [tpl EXCEPT !.text = SubSeq(@, 1, OpenAt - 1) \o Found.text
                                             \o SubSeq(@, CloseAt + 1, Len(@)),
                                  !.start = OpenAt + Len(Found.text)]
      BY <1>4 DEF resolve_string, OpenAt, CloseAt, Found
    <2>2. CASE OpenAt = 0 \/ CloseAt = 0
      BY <1>1, <1>2, <1>4, <2>1, <2>2
    <2>3. CASE ~(OpenAt = 0 \/ CloseAt = 0) /\ Found = Error
      BY <1>1, <1>2, <1>4, <2>1, <2>3
    <2>4. CASE ~(OpenAt = 0 \/ CloseAt = 0) /\ Found # Error
      <3>1. tpl' = [tpl EXCEPT !.text = Rewritten, !.start = OpenAt + Len(Found.text)]
        BY <2>1, <2>4 DEF Rewritten
      <3>2. tpl' = [segments |-> tpl.segments, input |-> tpl.input, stored |-> tpl.stored,
                    secrets |-> tpl.secrets, text |-> Rewritten,
                    start |-> OpenAt + Len(Found.text), value |-> tpl.value]
        BY <3>1 DEF TplInv
      <3>3. Became(Rewritten, OpenAt + Len(Found.text), tpl.value)
        BY <3>2 DEF Became
      <3> QED
        BY <1>1, <1>4, <2>4, <3>3
    <2> QED
      BY <2>2, <2>3, <2>4
  <1> QED
    BY <1>3, <1>4 DEF TemplatesNext

(* resolve_variable gives an error or a value, the one the name asks for. *)
LEMMA ResolvedIs ==
  ASSUME NEW var
  PROVE  /\ resolve_variable(var, Values) \in {Error, tpl.input, tpl.secrets}
         /\ resolve_variable(var, Values) # Missing
         /\ var = <<"input.a">> =>
              resolve_variable(var, Values) = IF tpl.input = Missing THEN Error ELSE tpl.input
         /\ var = <<"secret.s">> =>
              resolve_variable(var, Values) = IF tpl.secrets = Missing THEN Error ELSE tpl.secrets
         /\ var = <<"other">> => resolve_variable(var, Values) = Error
  <1>1. /\ <<"input.a">> # <<"secret.s">> /\ <<"input.a">> # <<"other">>
        /\ <<"secret.s">> # <<"other">>
    OBVIOUS
  <1>2. Values.input = tpl.input /\ Values.secrets = tpl.secrets
    BY DEF Values
  <1> QED
    BY <1>1, <1>2, KindsDiffer DEF resolve_variable

\* Nothing shows the secret unless the template names it.
KeyInv ==
  Opened("secret.s") \notin ToSet(tpl.segments) =>
    tpl.text \in Seq(Plain) /\ tpl.value.text \in Seq(Plain)

(* A template is plain text. *)
LEMMA TextIs ==
  ASSUME NEW segs \in Seq(Segments)
  PROVE  FlattenSeq(segs) \in Seq(Plain) /\ FlattenSeq(segs) \in Seq(Tokens)
  <1>1. PICK f : JoinsOf(f, segs, Plain)
    BY SegmentsArePlain
  <1>2. segs \in Seq(Seq(Plain)) /\ Len(segs) \in Nat
    BY SegmentsArePlain, LenProperties
  <1>3. f[Len(segs)] \in Seq(Plain)
    BY <1>1, <1>2 DEF JoinsOf
  <1>4. FlattenSeq(segs) \in Seq(Plain)
    BY <1>1, <1>2, <1>3, FlattenIs
  <1>5. Plain \subseteq Tokens
    BY DEF Tokens
  <1> QED
    BY <1>4, <1>5, SeqMonotonic

(* It starts with its own text, and the secrets it names. *)
LEMMA TemplateStarts == TemplatesInit => TplInv /\ KeyInv
  <1> SUFFICES ASSUME TemplatesInit PROVE TplInv /\ KeyInv
    OBVIOUS
  <1>0. PICK n \in 0 .. MaxSegments :
          \E segments \in [1 .. n -> Segments] : \E input \in Inputs, stored \in Secrets :
            LET s == FlattenSeq(segments)
                secrets == load_secrets(s, stored)
            IN  tpl = [segments |-> segments, input |-> input, stored |-> stored,
                       secrets |-> secrets, text |-> s, start |-> 1,
                       value |-> IF secrets = Error THEN Error ELSE Missing]
    BY DEF TemplatesInit
  <1>1. PICK segs \in [1 .. n -> Segments], input \in Inputs, stored \in Secrets :
          tpl = [segments |-> segs, input |-> input, stored |-> stored,
                 secrets |-> load_secrets(FlattenSeq(segs), stored),
                 text |-> FlattenSeq(segs), start |-> 1,
                 value |-> IF load_secrets(FlattenSeq(segs), stored) = Error
                           THEN Error ELSE Missing]
    BY <1>0
  <1>2. n \in Nat
    BY TemplatesAssumption
  <1>3. segs \in Seq(Segments)
    BY <1>2, SeqDef
  <1>4. /\ tpl.segments = segs /\ tpl.input = input /\ tpl.stored = stored
        /\ tpl.secrets = load_secrets(FlattenSeq(segs), stored)
        /\ tpl.text = FlattenSeq(segs) /\ tpl.start = 1
        /\ tpl.value = IF load_secrets(FlattenSeq(segs), stored) = Error THEN Error ELSE Missing
    BY <1>1
  <1>5. tpl = [segments |-> tpl.segments, input |-> tpl.input, stored |-> tpl.stored,
               secrets |-> tpl.secrets, text |-> tpl.text, start |-> tpl.start,
               value |-> tpl.value]
    BY <1>1, <1>4
  <1>6. tpl.text \in Seq(Plain) /\ tpl.text \in Seq(Tokens)
    BY <1>3, <1>4, TextIs
  <1>7. tpl.value.text = <<>>
    BY <1>4, KindsDiffer
  <1>8. tpl.value.text \in Seq(Plain)
    BY <1>7
  <1> QED
    BY <1>3, <1>4, <1>5, <1>6, <1>8 DEF TplInv, KeyInv

(* A secret is fetched only if a piece names it. *)
LEMMA SecretIs ==
  ASSUME TplInv
  PROVE  /\ tpl.secrets.text \in Seq(Tokens)
         /\ tpl.secrets \in {Missing, Error, tpl.stored}
         /\ Opened("secret.s") \notin ToSet(tpl.segments) => tpl.secrets = Missing
  <1>1. tpl.secrets = IF Opened("secret.s") \notin ToSet(tpl.segments) THEN Missing
                      ELSE IF tpl.stored = Missing THEN Error ELSE tpl.stored
    BY SecretsAre DEF TplInv
  <1>2. tpl.stored.text \in Seq(Tokens)
    BY ValuesArePlain DEF TplInv
  <1>3. Missing.text \in Seq(Tokens) /\ Error.text \in Seq(Tokens)
    BY KindsDiffer
  <1> QED
    BY <1>1, <1>2, <1>3

(* Every step keeps the secret to the templates that name it. *)
LEMMA TemplateGoesOn == TplInv /\ KeyInv /\ TemplatesNext => TplInv' /\ KeyInv'
  <1> SUFFICES ASSUME TplInv, KeyInv, TemplatesNext PROVE TplInv' /\ KeyInv'
    OBVIOUS
  <1>1. /\ tpl.segments \in Seq(Segments) /\ tpl.input \in Inputs /\ tpl.stored \in Secrets
        /\ tpl.secrets = load_secrets(FlattenSeq(tpl.segments), tpl.stored)
        /\ tpl.text \in Seq(Tokens) /\ tpl.start \in Nat \ {0}
    BY DEF TplInv
  <1>2. tpl.value = Missing /\ tpl.secrets # Error
    BY TurnIs, KindsDiffer DEF TplInv
  <1> DEFINE plain == Opened("secret.s") \notin ToSet(tpl.segments)
  <1>3. plain => tpl.text \in Seq(Plain)
    BY DEF KeyInv
  <1>4. ASSUME NEW var
        PROVE  /\ plain => resolve_variable(var, Values).text \in Seq(Plain)
               /\ resolve_variable(var, Values).text \in Seq(Tokens)
    <2>1. resolve_variable(var, Values) \in {Error, tpl.input, tpl.secrets}
      BY ResolvedIs
    <2>2. tpl.input.text \in Seq(Plain) /\ Error.text = <<>> /\ Missing.text = <<>>
      BY <1>1, ValuesArePlain, KindsDiffer
    <2>3. tpl.input.text \in Seq(Tokens)
      <3>1. Plain \subseteq Tokens
        BY DEF Tokens
      <3> QED
        BY <2>2, <3>1, SeqMonotonic
    <2>4. tpl.secrets.text \in Seq(Tokens) /\ (plain => tpl.secrets = Missing)
      BY SecretIs
    <2>5. Error.text \in Seq(Plain) /\ Error.text \in Seq(Tokens) /\ Missing.text \in Seq(Plain)
      BY <2>2
    <2> HIDE DEF plain
    <2> QED
      BY <2>1, <2>2, <2>3, <2>4, <2>5
  <1>5. ASSUME NEW text \in Seq(Tokens), NEW start \in Nat \ {0}, NEW value,
               Became(text, start, value),
               plain => text \in Seq(Plain) /\ value.text \in Seq(Plain)
        PROVE  TplInv' /\ KeyInv'
    <2>1. tpl' = [segments |-> tpl'.segments, input |-> tpl'.input, stored |-> tpl'.stored,
                  secrets |-> tpl'.secrets, text |-> tpl'.text, start |-> tpl'.start,
                  value |-> tpl'.value]
      BY <1>5 DEF Became
    <2>2. /\ tpl'.segments = tpl.segments /\ tpl'.input = tpl.input /\ tpl'.stored = tpl.stored
          /\ tpl'.secrets = tpl.secrets /\ tpl'.text = text /\ tpl'.start = start
          /\ tpl'.value = value
      BY <1>5 DEF Became
    <2>3. TplInv'
      BY <1>1, <1>2, <1>5, <2>1, <2>2 DEF TplInv
    <2>4. KeyInv'
      BY <1>5, <2>2 DEF KeyInv
    <2> QED
      BY <2>3, <2>4
  <1>6. Text(tpl.text).text = tpl.text /\ Error.text = <<>> /\ Missing.text = <<>>
    BY KindsDiffer
  <1>7. <<>> \in Seq(Plain)
    OBVIOUS
  <1>8. CASE Became(tpl.text, tpl.start, Single)
    <2>1. plain => Single.text \in Seq(Plain)
      BY <1>4 DEF Single
    <2> HIDE DEF plain
    <2> QED
      BY <1>1, <1>3, <1>5, <1>8, <2>1
  <1>9. CASE Became(tpl.text, tpl.start, Text(tpl.text))
    BY <1>1, <1>3, <1>5, <1>6, <1>9
  <1>10. CASE Became(tpl.text, tpl.start, Error)
    BY <1>1, <1>3, <1>5, <1>6, <1>7, <1>10
  <1>11. CASE ~(OpenAt = 0 \/ CloseAt = 0) /\ Became(Rewritten, OpenAt + Len(Found.text), tpl.value)
    <2>1. Len(tpl.text) \in Nat
      BY <1>1, LenProperties
    <2>2. OpenAt \in tpl.start .. Len(tpl.text)
      BY <1>1, <1>11, <2>1, FindIs DEF OpenAt
    <2>3. OpenAt \in Nat \ {0} /\ OpenAt \in 1 .. Len(tpl.text)
      BY <1>1, <2>1, <2>2
    <2>4. CloseAt \in OpenAt .. Len(tpl.text)
      BY <1>11, <2>1, <2>3, FindIs DEF CloseAt
    <2>5. Found.text \in Seq(Tokens) /\ (plain => Found.text \in Seq(Plain))
      BY <1>4 DEF Found
    <2> HIDE DEF plain
    <2>6. Rewritten \in Seq(Tokens)
      BY <1>1, <2>3, <2>4, <2>5, Spliced DEF Rewritten
    <2>7. plain => Rewritten \in Seq(Plain)
      BY <1>3, <2>3, <2>4, <2>5, Spliced DEF Rewritten
    <2>8. OpenAt + Len(Found.text) \in Nat \ {0}
      <3>1. Len(Found.text) \in Nat
        BY <2>5, LenProperties
      <3> QED
        BY <2>3, <3>1
    <2> QED
      BY <1>2, <1>5, <1>6, <1>7, <1>11, <2>6, <2>7, <2>8
  <1> QED
    BY <1>8, <1>9, <1>10, <1>11, TurnIs

(* So a result shows the secret only if the template names it. *)
LEMMA KeyIsKept ==
  ASSUME TplInv, KeyInv
  PROVE  "key" \in ToSet(tpl.value.text) => Opened("secret.s") \in ToSet(tpl.segments)
  <1> SUFFICES ASSUME Opened("secret.s") \notin ToSet(tpl.segments) PROVE "key" \notin ToSet(tpl.value.text)
    OBVIOUS
  <1>1. tpl.value.text \in Seq(Plain)
    BY DEF KeyInv
  <1>2. \A i \in DOMAIN tpl.value.text : tpl.value.text[i] \in Plain
    BY <1>1, LenProperties
  <1> QED
    BY <1>2, KeyIsNotPlain DEF ToSet

VariableNames == {"input.a", "secret.s", "other"}

\* A piece that stands for the variable v.
Braced(s, v) ==
  /\ s \in Seq(Tokens) /\ Len(s) \in Nat /\ Len(s) > 2
  /\ s[1] = Open /\ s[Len(s)] = Close
  /\ \A i \in 2 .. Len(s) - 1 : s[i] # Open /\ s[i] # Close
  /\ trim(SubSeq(s, 2, Len(s) - 1)) = <<v>>

(* A name in braces stands for the variable. *)
LEMMA OpenedIs ==
  ASSUME NEW v \in VariableNames
  PROVE  Braced(Opened(v), v)
  <1>1. PICK s : s = Opened(v)
    OBVIOUS
  <1>2. s = <<Open, v, Close>>
    BY <1>1 DEF Opened
  <1>3. /\ v # Open /\ v # Close /\ v # Blank
        /\ v \in Tokens /\ Open \in Tokens /\ Close \in Tokens
    BY TokensDiffer DEF VariableNames, Tokens, Plain
  <1>4. s \in Seq(Tokens) /\ Len(s) = 3 /\ s[1] = Open /\ s[2] = v /\ s[3] = Close
    BY <1>2, <1>3
  <1>5. \A i \in 2 .. 2 : s[i] # Open /\ s[i] # Close
    BY <1>3, <1>4
  <1>6. SubSeq(s, 2, 2) = <<v>>
    <2>1. PICK m : m = 2
      OBVIOUS
    <2>2. m \in Int /\ \A i \in m .. m : s[i] \in {v}
      BY <1>4, <2>1
    <2>3. SubSeq(s, m, m) \in Seq({v}) /\ Len(SubSeq(s, m, m)) = IF m <= m THEN m - m + 1 ELSE 0
      BY <2>2, SubSeqProperties
    <2>4. PICK t : t = SubSeq(s, m, m)
      OBVIOUS
    <2>5. t \in Seq({v}) /\ Len(t) = 1
      BY <2>2, <2>3, <2>4
    <2>6. t \in [1 .. Len(t) -> {v}]
      BY <2>5, LenProperties
    <2>7. <<v>> \in Seq({v}) /\ Len(<<v>>) = 1 /\ <<v>>[1] = v
      OBVIOUS
    <2>8. \A i \in 1 .. Len(t) : t[i] = <<v>>[i]
      BY <2>5, <2>6, <2>7
    <2>9. t = <<v>>
      BY <2>5, <2>7, <2>8, SeqEqual
    <2> QED
      BY <2>1, <2>4, <2>9
  <1>7. trim(<<v>>) = <<v>>
    BY <1>3, TrimStrips
  <1>8. Len(s) - 1 = 2
    BY <1>4
  <1>9. s[Len(s)] = Close /\ Len(s) \in Nat /\ Len(s) > 2
    BY <1>4
  <1>10. \A i \in 2 .. Len(s) - 1 : s[i] # Open /\ s[i] # Close
    BY <1>5, <1>8
  <1>11. trim(SubSeq(s, 2, Len(s) - 1)) = <<v>>
    BY <1>6, <1>7, <1>8
  <1>12. s \in Seq(Tokens) /\ s[1] = Open
    BY <1>4
  <1>13. Braced(s, v)
    BY <1>9, <1>10, <1>11, <1>12 DEF Braced
  <1> QED
    BY <1>1, <1>13

(* And so does one with blanks around it. *)
LEMMA SpacedIs ==
  ASSUME NEW v \in VariableNames
  PROVE  Braced(Spaced(v), v)
  <1>1. PICK s : s = Spaced(v)
    OBVIOUS
  <1>2. s = <<Open, Blank, v, Blank, Close>>
    BY <1>1 DEF Spaced
  <1>3. /\ v # Open /\ v # Close /\ v # Blank /\ Blank # Open /\ Blank # Close
        /\ v \in Tokens /\ Open \in Tokens /\ Close \in Tokens /\ Blank \in Tokens
    BY TokensDiffer DEF VariableNames, Tokens, Plain
  <1>4. /\ s \in Seq(Tokens) /\ Len(s) = 5 /\ s[1] = Open /\ s[2] = Blank /\ s[3] = v
        /\ s[4] = Blank /\ s[5] = Close
    BY <1>2, <1>3
  <1>5. \A i \in 2 .. 4 : s[i] # Open /\ s[i] # Close
    <2>1. \A i \in 2 .. 4 : i = 2 \/ i = 3 \/ i = 4
      OBVIOUS
    <2> QED
      BY <1>3, <1>4, <2>1
  <1>6. SubSeq(s, 2, 4) = <<Blank, v, Blank>>
    <2>1. PICK a, b : a = 2 /\ b = 4
      OBVIOUS
    <2>2. a \in Int /\ b \in Int /\ \A i \in a .. b : s[i] \in Tokens
      BY <1>4, <2>1, ElementOfSeq, SMTT(40)
    <2>3. /\ SubSeq(s, a, b) \in Seq(Tokens) /\ Len(SubSeq(s, a, b)) = IF a <= b THEN b - a + 1 ELSE 0
          /\ \A i \in 1 .. b - a + 1 : SubSeq(s, a, b)[i] = s[a + i - 1]
      BY <2>2, SubSeqProperties
    <2>4. PICK t : t = SubSeq(s, a, b)
      OBVIOUS
    <2>5. /\ t \in Seq(Tokens) /\ Len(t) = 3
          /\ \A i \in 1 .. 3 : t[i] = s[2 + i - 1]
      BY <2>1, <2>3, <2>4
    <2>6. t[1] = Blank /\ t[2] = v /\ t[3] = Blank
      BY <1>4, <2>5
    <2>7. PICK u : u = <<Blank, v, Blank>>
      OBVIOUS
    <2>8. u \in Seq(Tokens) /\ Len(u) = 3 /\ u[1] = Blank /\ u[2] = v /\ u[3] = Blank
      BY <1>3, <2>7
    <2>9. \A i \in 1 .. Len(t) : t[i] = u[i]
      <3>1. \A i \in 1 .. 3 : i = 1 \/ i = 2 \/ i = 3
        OBVIOUS
      <3> QED
        BY <2>5, <2>6, <2>8, <3>1
    <2>10. t = u
      BY <2>5, <2>8, <2>9, SeqEqual
    <2> QED
      BY <2>1, <2>4, <2>7, <2>10
  <1>7. trim(<<Blank, v, Blank>>) = <<v>>
    BY <1>3, TrimStrips
  <1>8. Len(s) - 1 = 4
    BY <1>4
  <1>9. s[Len(s)] = Close /\ Len(s) \in Nat /\ Len(s) > 2
    BY <1>4
  <1>10. \A i \in 2 .. Len(s) - 1 : s[i] # Open /\ s[i] # Close
    BY <1>5, <1>8
  <1>11. trim(SubSeq(s, 2, Len(s) - 1)) = <<v>>
    BY <1>6, <1>7, <1>8
  <1>12. s \in Seq(Tokens) /\ s[1] = Open
    BY <1>4
  <1>13. Braced(s, v)
    BY <1>9, <1>10, <1>11, <1>12 DEF Braced
  <1> QED
    BY <1>1, <1>13

\* The piece s stands for the variable v; only an unspaced secret is loaded.
Stands(s, v) == v \in VariableNames /\ Braced(s, v) /\ (v = "secret.s" => s = Opened("secret.s"))

(* Every piece that is not text stands for a variable. *)
LEMMA WellformedIs ==
  ASSUME NEW s \in Wellformed, s # <<"x">>
  PROVE  \E v : Stands(s, v)
  <1>1. {"input.a", "secret.s", "other"} = VariableNames /\ "input.a" # "secret.s" /\ "other" # "secret.s"
    BY DEF VariableNames
  <1>2. CASE s = Opened("input.a")
    <2>1. PICK v : v = "input.a"
      OBVIOUS
    <2>2. Stands(s, v)
      BY <1>1, <1>2, <2>1, OpenedIs DEF Stands
    <2> QED
      BY <2>2
  <1>3. CASE s = Spaced("input.a")
    <2>1. PICK v : v = "input.a"
      OBVIOUS
    <2>2. Stands(s, v)
      BY <1>1, <1>3, <2>1, SpacedIs DEF Stands
    <2> QED
      BY <2>2
  <1>4. CASE s = Opened("secret.s")
    <2>1. PICK v : v = "secret.s"
      OBVIOUS
    <2>2. Stands(s, v)
      BY <1>1, <1>4, <2>1, OpenedIs DEF Stands
    <2> QED
      BY <2>2
  <1>5. CASE s = Opened("other")
    <2>1. PICK v : v = "other"
      OBVIOUS
    <2>2. Stands(s, v)
      BY <1>1, <1>5, <2>1, OpenedIs DEF Stands
    <2> QED
      BY <2>2
  <1> QED
    BY <1>2, <1>3, <1>4, <1>5 DEF Wellformed

(* What the piece means is what resolve_variable gives for its variable. *)
LEMMA MeansIs ==
  ASSUME TplInv, tpl.secrets # Error, NEW s \in ToSet(tpl.segments), NEW v, Stands(s, v)
  PROVE  /\ s # <<"x">> /\ Variable(s) = <<v>>
         /\ Unresolved(s) <=> resolve_variable(<<v>>, Values) = Error
         /\ ~Unresolved(s) =>
              /\ resolve_variable(<<v>>, Values).text = Image(s)
              /\ resolve_variable(<<v>>, Values) =
                   IF Variable(s) = <<"input.a">> THEN tpl.input ELSE tpl.stored
              /\ Len(Image(s)) > 0
  <1>1. v \in VariableNames /\ Braced(s, v) /\ (v = "secret.s" => s = Opened("secret.s"))
    BY DEF Stands
  <1>2. s # <<"x">>
    <2>1. Len(<<"x">>) = 1
      OBVIOUS
    <2> QED
      BY <1>1, <2>1 DEF Braced
  <1>3. Variable(s) = <<v>>
    BY <1>1, <1>2 DEF Variable, Braced
  <1>4. /\ tpl.input \in Inputs /\ tpl.stored \in Secrets /\ tpl.segments \in Seq(Segments)
    BY DEF TplInv
  <1>5. /\ <<"input.a">> # <<"secret.s">> /\ <<"input.a">> # <<"other">>
        /\ <<"secret.s">> # <<"other">>
    OBVIOUS
  <1>6. CASE v = "input.a"
    <2>1. Unresolved(s) <=> tpl.input = Missing
      BY <1>2, <1>3, <1>6 DEF Unresolved
    <2>2. Image(s) = tpl.input.text
      BY <1>2, <1>3, <1>6 DEF Image
    <2>3. resolve_variable(<<v>>, Values) = IF tpl.input = Missing THEN Error ELSE tpl.input
      BY <1>6, ResolvedIs
    <2>4. tpl.input # Error /\ (tpl.input # Missing => Len(tpl.input.text) > 0)
      BY <1>4, ValuesArePlain
    <2> QED
      BY <1>2, <1>3, <1>6, <2>1, <2>2, <2>3, <2>4
  <1>7. CASE v = "secret.s"
    <2>1. Unresolved(s) <=> tpl.stored = Missing
      BY <1>2, <1>3, <1>5, <1>7 DEF Unresolved
    <2>2. Image(s) = tpl.stored.text
      BY <1>2, <1>3, <1>5, <1>7 DEF Image
    <2>3. resolve_variable(<<v>>, Values) = IF tpl.secrets = Missing THEN Error ELSE tpl.secrets
      BY <1>7, ResolvedIs
    <2>4. tpl.stored # Error /\ (tpl.stored # Missing => Len(tpl.stored.text) > 0)
      BY <1>4, ValuesArePlain
    <2>5. Opened("secret.s") \in ToSet(tpl.segments)
      BY <1>1, <1>7
    <2>6. tpl.secrets = IF tpl.stored = Missing THEN Error ELSE tpl.stored
      BY <1>4, <2>5, SecretsAre DEF TplInv
    <2>7. tpl.stored # Missing /\ tpl.secrets = tpl.stored
      BY <2>6
    <2>8. Variable(s) # <<"input.a">>
      BY <1>3, <1>5, <1>7
    <2> QED
      BY <1>2, <1>3, <2>1, <2>2, <2>3, <2>4, <2>7, <2>8
  <1>8. CASE v = "other"
    <2>1. Unresolved(s)
      BY <1>2, <1>3, <1>5, <1>8 DEF Unresolved
    <2>2. resolve_variable(<<v>>, Values) = Error
      BY <1>8, ResolvedIs
    <2> QED
      BY <1>2, <1>3, <2>1, <2>2
  <1> QED
    BY <1>1, <1>6, <1>7, <1>8 DEF VariableNames

(* A part of a text, token by token. *)
LEMMA PartIs ==
  ASSUME NEW t \in Seq(Tokens), Len(t) > 1
  PROVE  /\ SubSeq(t, 2, Len(t) - 1) \in Seq(Tokens)
         /\ Len(SubSeq(t, 2, Len(t) - 1)) = Len(t) - 2
         /\ \A i \in 1 .. Len(t) - 2 : SubSeq(t, 2, Len(t) - 1)[i] = t[i + 1]
  <1>1. PICK n \in Nat : n = Len(t)
    BY LenProperties
  <1>2. PICK a \in Int, b \in Int : a = 2 /\ b = n - 1
    OBVIOUS
  <1>3. \A i \in a .. b : t[i] \in Tokens
    <2> SUFFICES ASSUME NEW i \in a .. b PROVE t[i] \in Tokens
      OBVIOUS
    <2>1. i \in 1 .. Len(t)
      BY <1>1, <1>2
    <2> QED
      BY <2>1, ElementOfSeq
  <1>4. /\ SubSeq(t, a, b) \in Seq(Tokens) /\ Len(SubSeq(t, a, b)) = IF a <= b THEN b - a + 1 ELSE 0
        /\ \A i \in 1 .. b - a + 1 : SubSeq(t, a, b)[i] = t[a + i - 1]
    BY <1>3, SubSeqProperties
  <1>5. b - a + 1 = n - 2 /\ n > 1 /\ \A i \in 1 .. n - 2 : a + i - 1 = i + 1
    BY <1>1, <1>2
  <1>6. Len(SubSeq(t, a, b)) = n - 2
    BY <1>1, <1>2, <1>4, <1>5
  <1> QED
    BY <1>1, <1>2, <1>4, <1>5, <1>6

(* A template is a single one if it is one variable and nothing else. *)
LEMMA SingleIs ==
  ASSUME NEW segs \in Seq(Segments), ToSet(segs) \subseteq Wellformed
  PROVE  is_single_template(FlattenSeq(segs)) <=> Len(segs) = 1 /\ segs[1] # <<"x">>
  <1>1. PICK t : t = FlattenSeq(segs)
    OBVIOUS
  <1>2. PICK n \in Nat : n = Len(segs)
    BY LenProperties
  <1>3. PICK f : JoinsOf(f, segs, Plain)
    BY SegmentsArePlain
  <1>4. segs \in Seq(Seq(Plain))
    BY SegmentsArePlain
  <1>5. t \in Seq(Tokens) /\ Len(t) \in Nat /\ t = f[n]
    BY <1>1, <1>2, <1>3, <1>4, TextIs, FlattenIs, LenProperties
  <1>6. \A i \in 1 .. n : \A o \in 1 .. Len(segs[i]) :
          Len(f[i - 1]) + o \in 1 .. Len(t) /\ t[Len(f[i - 1]) + o] = segs[i][o]
    BY <1>1, <1>2, <1>3, <1>4, Place
  <1>7. \A i \in 0 .. n : Len(f[i]) \in Nat
    <2> SUFFICES ASSUME NEW i \in 0 .. n PROVE Len(f[i]) \in Nat
      OBVIOUS
    <2>1. f[i] \in Seq(Plain)
      BY <1>2, <1>3 DEF JoinsOf
    <2> QED
      BY <2>1, LenProperties
  <1>8. \A i \in 1 .. n : segs[i] \in Wellformed /\ Piece(segs[i])
    <2> SUFFICES ASSUME NEW i \in 1 .. n PROVE segs[i] \in Wellformed /\ Piece(segs[i])
      OBVIOUS
    <2>1. DOMAIN segs = 1 .. n
      BY <1>2, LenProperties
    <2>2. segs[i] \in ToSet(segs) /\ segs[i] \in Segments
      BY <1>2, <2>1, ElementOfSeq DEF ToSet
    <2> QED
      BY <2>2, PiecesAre
  <1>9. \A i \in 1 .. n : /\ Len(segs[i]) \in Nat \ {0}
                          /\ segs[i][1] # Blank /\ segs[i][Len(segs[i])] # Blank
    BY <1>8, PiecesArePlain
  <1>10. \A i \in 1 .. n : Len(f[i]) = Len(f[i - 1]) + Len(segs[i])
    <2> SUFFICES ASSUME NEW i \in 1 .. n PROVE Len(f[i]) = Len(f[i - 1]) + Len(segs[i])
      OBVIOUS
    <2>1. i - 1 \in 0 .. n
      OBVIOUS
    <2>2. f[i - 1] \in Seq(Plain) /\ segs[i] \in Seq(Plain) /\ f[i] = f[i - 1] \o segs[i]
      BY <1>2, <1>3, <1>8, <2>1, PiecesArePlain DEF JoinsOf, Joins
    <2> QED
      BY <2>2, ConcatProperties
  <1>11. CASE n = 0
    <2>1. t = <<>>
      BY <1>3, <1>5, <1>11 DEF JoinsOf, Joins
    <2>2. Len(t) = 0 /\ {i \in 1 .. Len(t) : t[i] # Blank} = {}
      BY <2>1
    <2>3. trim(t) = <<>>
      BY <2>2 DEF trim
    <2>4. ~is_single_template(t)
      BY <2>3 DEF is_single_template
    <2> QED
      BY <1>1, <1>2, <1>11, <2>4
  <1>12. CASE n # 0
    <2>1. 1 \in 1 .. n /\ n \in 1 .. n /\ n - 1 \in 0 .. n
      BY <1>12
    <2>2. Len(f[0]) = 0
      BY <1>3 DEF JoinsOf, Joins
    <2>3. PICK z : z = Len(segs[n])
      OBVIOUS
    <2>4. z \in Nat \ {0} /\ Len(t) = Len(f[n - 1]) + z /\ Len(f[n - 1]) \in Nat
      BY <1>5, <1>7, <1>9, <1>10, <2>1, <2>3
    <2>5. t[1] = segs[1][1] /\ Len(t) # 0
      <3>1. PICK o : o = 1
        OBVIOUS
      <3>2. o \in 1 .. Len(segs[1])
        BY <1>9, <2>1, <3>1
      <3>3. t[Len(f[1 - 1]) + o] = segs[1][o]
        BY <1>6, <2>1, <3>2
      <3> QED
        BY <2>2, <2>4, <3>1, <3>3
    <2>6. t[Len(t)] = segs[n][z]
      <3>1. z \in 1 .. Len(segs[n])
        BY <2>3, <2>4
      <3> QED
        BY <1>6, <2>1, <2>4, <3>1
    <2>7. t[1] # Blank /\ t[Len(t)] # Blank
      BY <1>9, <2>1, <2>3, <2>5, <2>6
    <2>8. trim(t) = t
      BY <1>5, <2>5, <2>7, TrimKeeps
    <2>9. is_single_template(t) <=> /\ Len(t) > 1 /\ t[1] = Open /\ t[Len(t)] = Close
                                    /\ find(SubSeq(t, 2, Len(t) - 1), Open, 1) = 0
      BY <2>8 DEF is_single_template
    <2>10. <<"x">>[1] # Open /\ <<"x">>[Len(<<"x">>)] # Close
      <3>1. "x" # Open /\ "x" # Close
        BY TokensDiffer
      <3>2. <<"x">>[1] = "x" /\ Len(<<"x">>) = 1
        OBVIOUS
      <3> QED
        BY <3>1, <3>2
    <2>11. ASSUME n = 1, segs[1] # <<"x">> PROVE is_single_template(t)
      <3>1. PICK s : s = segs[1]
        OBVIOUS
      <3>2. PICK v : Stands(s, v)
        BY <1>8, <2>1, <2>11, <3>1, WellformedIs
      <3>3. Braced(s, v)
        BY <3>2 DEF Stands
      <3>4. Len(t) = Len(s) /\ z = Len(s)
        <4>1. n - 1 = 0 /\ z = Len(s)
          BY <2>3, <2>11, <3>1
        <4>2. Len(f[n - 1]) = 0
          BY <2>2, <4>1
        <4> QED
          BY <2>4, <4>1, <4>2
      <3>5. /\ Len(s) \in Nat /\ Len(s) > 2 /\ s[1] = Open /\ s[Len(s)] = Close
            /\ \A i \in 2 .. Len(s) - 1 : s[i] # Open
        BY <3>3 DEF Braced
      <3>6. \A i \in 1 .. Len(s) : t[i] = s[i]
        <4>1. \A o \in 1 .. Len(segs[1]) : t[Len(f[1 - 1]) + o] = segs[1][o]
          BY <1>6, <2>1
        <4> QED
          BY <2>2, <3>1, <4>1
      <3>7. PICK u : u = SubSeq(t, 2, Len(t) - 1)
        OBVIOUS
      <3>8. Len(u) = Len(s) - 2 /\ \A i \in 1 .. Len(s) - 2 : u[i] = t[i + 1]
        BY <1>5, <3>4, <3>5, <3>7, PartIs
      <3>9. ASSUME NEW i \in 1 .. Len(u) PROVE u[i] # Open
        <4>1. i + 1 \in 2 .. Len(s) - 1 /\ i + 1 \in 1 .. Len(s) /\ i \in 1 .. Len(s) - 2
          BY <3>5, <3>8
        <4> QED
          BY <3>5, <3>6, <3>8, <4>1
      <3>10. find(u, Open, 1) = 0
        <4>1. Len(u) \in Nat
          BY <3>5, <3>8
        <4>2. PICK one \in Nat : one = 1
          OBVIOUS
        <4>3. \/ find(u, Open, one) = 0 /\ \A i \in one .. Len(u) : u[i] # Open
              \/ /\ find(u, Open, one) \in one .. Len(u) /\ u[find(u, Open, one)] = Open
                 /\ \A i \in one .. find(u, Open, one) - 1 : u[i] # Open
          BY <4>1, FindIs
        <4> QED
          BY <3>9, <4>2, <4>3
      <3>11. Len(t) > 1 /\ t[1] = Open /\ t[Len(t)] = Close
        BY <2>3, <2>5, <2>6, <2>11, <3>1, <3>4, <3>5
      <3> QED
        BY <2>9, <3>7, <3>10, <3>11
    <2>12. ASSUME is_single_template(t) PROVE n = 1 /\ segs[1] # <<"x">>
      <3>1. /\ Len(t) > 1 /\ t[1] = Open /\ t[Len(t)] = Close
            /\ find(SubSeq(t, 2, Len(t) - 1), Open, 1) = 0
        BY <2>9, <2>12
      <3>2. segs[1] # <<"x">> /\ segs[n] # <<"x">>
        BY <2>3, <2>5, <2>6, <2>10, <3>1
      <3>3. ASSUME n # 1 PROVE FALSE
        <4>1. PICK v : Stands(segs[n], v)
          BY <1>8, <2>1, <3>2, WellformedIs
        <4>2. z > 2 /\ segs[n][1] = Open
          BY <2>3, <4>1 DEF Stands, Braced
        <4>3. PICK p : p = Len(f[n - 1]) + 1
          OBVIOUS
        <4>4. t[p] = Open
          <5>1. PICK o : o = 1
            OBVIOUS
          <5>2. o \in 1 .. Len(segs[n])
            BY <2>3, <4>2, <5>1
          <5>3. t[Len(f[n - 1]) + o] = segs[n][o]
            BY <1>6, <2>1, <5>2
          <5> QED
            BY <4>2, <4>3, <5>1, <5>3
        <4>5. Len(f[n - 1]) >= 1
          <5>1. PICK m : m = n - 1
            OBVIOUS
          <5>2. m \in 1 .. n /\ m - 1 \in 0 .. n
            BY <1>12, <3>3, <5>1
          <5>3. Len(f[m]) = Len(f[m - 1]) + Len(segs[m]) /\ Len(f[m - 1]) \in Nat
                /\ Len(segs[m]) \in Nat \ {0}
            BY <1>7, <1>9, <1>10, <5>2
          <5>4. PICK a, b : a = Len(f[m - 1]) /\ b = Len(segs[m])
            OBVIOUS
          <5>5. Len(f[m]) = a + b
            BY <5>3, <5>4
          <5>6. a \in Nat /\ b \in Nat /\ b >= 1
            BY <5>3, <5>4
          <5>7. a + b >= 1
            BY <5>6
          <5> QED
            BY <5>1, <5>5, <5>7
        <4>6. p - 1 \in 1 .. Len(t) - 2 /\ (p - 1) + 1 = p /\ p \in Nat
          BY <2>4, <4>2, <4>3, <4>5
        <4>7. PICK u : u = SubSeq(t, 2, Len(t) - 1)
          OBVIOUS
        <4>8. Len(u) = Len(t) - 2 /\ u[p - 1] = Open
          BY <1>5, <3>1, <4>4, <4>6, <4>7, PartIs
        <4>9. Len(u) \in Nat
          BY <1>5, <3>1, <4>8
        <4>10. PICK one \in Nat : one = 1
          OBVIOUS
        <4>11. \/ find(u, Open, one) = 0 /\ \A i \in one .. Len(u) : u[i] # Open
               \/ find(u, Open, one) \in one .. Len(u)
          BY <4>9, FindIs
        <4>12. find(u, Open, one) = 0
          BY <3>1, <4>7, <4>10
        <4> QED
          BY <4>6, <4>8, <4>9, <4>10, <4>11, <4>12
      <3> QED
        BY <3>2, <3>3
    <2> QED
      BY <1>1, <1>2, <2>11, <2>12
  <1> QED
    BY <1>11, <1>12

Images == [i \in 1 .. Len(tpl.segments) |-> Image(tpl.segments[i])]

\* The first k pieces are replaced, and the search goes on after them.
InTurn(g, r, k) ==
  /\ JoinsOf(g, Images, Tokens) /\ RestsOf(r, tpl.segments, Tokens)
  /\ k \in 0 .. Len(tpl.segments)
  /\ \A i \in 1 .. k : ~Unresolved(tpl.segments[i])
  /\ tpl.text = g[k] \o r[k]
  /\ tpl.start \in 1 .. Len(g[k]) + 1
  /\ \A p \in tpl.start .. Len(g[k]) : g[k][p] # Open

(* Pieces and images are texts. *)
LEMMA ImagesAre ==
  ASSUME TplInv, ToSet(tpl.segments) \subseteq Wellformed
  PROVE  /\ Len(tpl.segments) \in Nat /\ tpl.segments \in Seq(Seq(Tokens))
         /\ \A i \in 1 .. Len(tpl.segments) :
              /\ tpl.segments[i] \in Wellformed /\ tpl.segments[i] \in ToSet(tpl.segments)
              /\ tpl.segments[i] \in Seq(Tokens)
              /\ Images[i] = Image(tpl.segments[i]) /\ Image(tpl.segments[i]) \in Seq(Tokens)
         /\ Images \in Seq(Seq(Tokens)) /\ Len(Images) = Len(tpl.segments)
  <1>1. PICK segs : segs = tpl.segments
    OBVIOUS
  <1>2. segs \in Seq(Segments) /\ tpl.input \in Inputs /\ tpl.stored \in Secrets
    BY <1>1 DEF TplInv
  <1>3. PICK n \in Nat : n = Len(segs)
    BY <1>2, LenProperties
  <1>4. Plain \subseteq Tokens
    BY DEF Tokens
  <1>5. \A s \in Segments : s \in Seq(Tokens)
    <2> SUFFICES ASSUME NEW s \in Segments PROVE s \in Seq(Tokens)
      OBVIOUS
    <2>1. s \in Seq(Plain)
      BY PiecesAre, PiecesArePlain
    <2> QED
      BY <1>4, <2>1, SeqMonotonic
  <1>6. PICK Q : Q = Seq(Tokens)
    OBVIOUS
  <1>7. segs \in Seq(Q)
    BY <1>2, <1>5, <1>6, SeqMonotonic
  <1>8. \A i \in 1 .. n : segs[i] \in ToSet(segs) /\ segs[i] \in Q
    <2> SUFFICES ASSUME NEW i \in 1 .. n PROVE segs[i] \in ToSet(segs) /\ segs[i] \in Q
      OBVIOUS
    <2>1. DOMAIN segs = 1 .. n
      BY <1>2, <1>3, LenProperties
    <2>2. segs[i] \in ToSet(segs)
      BY <2>1 DEF ToSet
    <2> QED
      BY <1>3, <1>7, <2>2, ElementOfSeq
  <1>9. tpl.input.text \in Q /\ tpl.stored.text \in Q
    <2>1. tpl.input.text \in Seq(Plain) /\ tpl.stored.text \in Seq(Tokens)
      BY <1>2, ValuesArePlain
    <2> QED
      BY <1>4, <1>6, <2>1, SeqMonotonic
  <1>10. \A s \in Q : Image(s) \in Q
    BY <1>9 DEF Image
  <1>11. Images = [i \in 1 .. n |-> Image(segs[i])]
    BY <1>1, <1>3 DEF Images
  <1>12. Images \in [1 .. n -> Q]
    BY <1>8, <1>10, <1>11
  <1>13. Images \in Seq(Q)
    BY <1>12, SeqDef
  <1>14. Len(Images) = n
    BY <1>12, <1>13, LenProperties
  <1>15. \A i \in 1 .. n : Images[i] = Image(segs[i]) /\ Image(segs[i]) \in Q
    BY <1>8, <1>10, <1>11
  <1> QED
    BY <1>1, <1>3, <1>6, <1>7, <1>8, <1>13, <1>14, <1>15

(* One piece further. *)
LEMMA PieceOn ==
  ASSUME TplInv, ToSet(tpl.segments) \subseteq Wellformed,
         NEW g, JoinsOf(g, Images, Tokens), NEW r, RestsOf(r, tpl.segments, Tokens),
         NEW k \in Nat, k < Len(tpl.segments)
  PROVE  /\ g[k] \in Seq(Tokens) /\ r[k] \in Seq(Tokens)
         /\ g[k + 1] \in Seq(Tokens) /\ r[k + 1] \in Seq(Tokens)
         /\ g[k + 1] = g[k] \o Image(tpl.segments[k + 1])
         /\ r[k] = tpl.segments[k + 1] \o r[k + 1]
  <1>1. PICK n \in Nat : n = Len(tpl.segments)
    BY ImagesAre
  <1>2. k + 1 \in 1 .. n /\ (k + 1) - 1 = k /\ k \in 0 .. n /\ k + 1 \in 0 .. n
    BY <1>1
  <1>3. Len(Images) = n /\ Images[k + 1] = Image(tpl.segments[k + 1])
    BY <1>1, <1>2, ImagesAre
  <1>4. g \in [0 .. n -> Seq(Tokens)] /\ r \in [0 .. n -> Seq(Tokens)]
    BY <1>1, <1>3 DEF JoinsOf, RestsOf
  <1>5. \A i \in 1 .. n : g[i] = g[i - 1] \o Images[i] /\ r[i - 1] = tpl.segments[i] \o r[i]
    BY <1>1, <1>3 DEF JoinsOf, Joins, RestsOf
  <1>6. g[k + 1] = g[k] \o Images[k + 1] /\ r[k] = tpl.segments[k + 1] \o r[k + 1]
    BY <1>2, <1>5
  <1> QED
    BY <1>2, <1>3, <1>4, <1>6

(* Text is skipped. *)
LEMMA TextIsSkipped ==
  ASSUME TplInv, ToSet(tpl.segments) \subseteq Wellformed, NEW g, NEW r, NEW k, InTurn(g, r, k),
         k < Len(tpl.segments), tpl.segments[k + 1] = <<"x">>
  PROVE  InTurn(g, r, k + 1)
  <1>1. PICK n \in Nat : n = Len(tpl.segments)
    BY ImagesAre
  <1>2. k \in Nat /\ k + 1 \in 0 .. n /\ JoinsOf(g, Images, Tokens) /\ RestsOf(r, tpl.segments, Tokens)
    BY <1>1 DEF InTurn
  <1>3. PICK a, b, x : a = g[k] /\ b = r[k + 1] /\ x = <<"x">>
    OBVIOUS
  <1>4. Image(x) = x /\ ~Unresolved(x)
    <2>1. Variable(x) = <<>>
      BY <1>3 DEF Variable
    <2>2. <<>> # <<"input.a">> /\ <<>> # <<"secret.s">>
      <3>1. Len(<<>>) = 0 /\ Len(<<"input.a">>) = 1 /\ Len(<<"secret.s">>) = 1
        OBVIOUS
      <3> QED
        BY <3>1
    <2> QED
      BY <1>3, <2>1, <2>2 DEF Image, Unresolved
  <1>5. /\ a \in Seq(Tokens) /\ b \in Seq(Tokens)
        /\ g[k + 1] = a \o x /\ r[k] = x \o b
    BY <1>2, <1>3, <1>4, PieceOn
  <1>6. x \in Seq(Tokens) /\ Len(x) = 1 /\ x[1] = "x" /\ "x" # Open
    <2>1. "x" \in Tokens
      BY DEF Tokens, Plain
    <2> QED
      BY <1>3, <2>1, TokensDiffer
  <1>7. tpl.text = g[k + 1] \o r[k + 1]
    <2>1. (a \o x) \o b = a \o (x \o b)
      BY <1>5, <1>6, ConcatAssociative
    <2> QED
      BY <1>3, <1>5, <2>1 DEF InTurn
  <1>8. \A i \in 1 .. k + 1 : ~Unresolved(tpl.segments[i])
    <2> SUFFICES ASSUME NEW i \in 1 .. k + 1 PROVE ~Unresolved(tpl.segments[i])
      OBVIOUS
    <2>1. i \in 1 .. k \/ i = k + 1
      BY <1>2
    <2> QED
      BY <1>3, <1>4, <2>1 DEF InTurn
  <1>9. PICK m \in Nat : m = Len(a)
    BY <1>5, LenProperties
  <1>10. Len(g[k + 1]) = m + 1 /\ tpl.start \in 1 .. m + 1
    <2>1. Len(a \o x) = Len(a) + Len(x)
      BY <1>5, <1>6, ConcatProperties
    <2> QED
      BY <1>3, <1>5, <1>6, <1>9, <2>1 DEF InTurn
  <1>11. ASSUME NEW p \in tpl.start .. m + 1 PROVE g[k + 1][p] # Open
    <2>1. p \in 1 .. Len(a) + Len(x)
      BY <1>6, <1>9, <1>10
    <2>2. (a \o x)[p] = IF p <= Len(a) THEN a[p] ELSE x[p - Len(a)]
      BY <1>5, <1>6, <2>1, ConcatProperties
    <2>3. CASE p <= m
      <3>1. p \in tpl.start .. Len(g[k])
        BY <1>3, <1>9, <1>10, <2>3
      <3>2. g[k][p] # Open
        BY <3>1 DEF InTurn
      <3> QED
        BY <1>3, <1>5, <1>9, <2>2, <2>3, <3>2
    <2>4. CASE p > m
      <3>1. p - Len(a) = 1 /\ ~(p <= Len(a))
        BY <1>9, <1>10, <2>4
      <3> QED
        BY <1>5, <1>6, <2>2, <3>1
    <2>5. p \in Int
      BY <1>10
    <2> QED
      BY <2>3, <2>4, <2>5
  <1>12. tpl.start \in 1 .. Len(g[k + 1]) + 1
    BY <1>10
  <1> QED
    BY <1>1, <1>2, <1>7, <1>8, <1>10, <1>11, <1>12 DEF InTurn

(* So the search stops at a variable, or at the end. *)
LEMMA NextVariable ==
  ASSUME TplInv, ToSet(tpl.segments) \subseteq Wellformed, NEW g, NEW r, \E k : InTurn(g, r, k)
  PROVE  \E k : /\ InTurn(g, r, k)
                /\ k = Len(tpl.segments) \/ (k < Len(tpl.segments) /\ tpl.segments[k + 1] # <<"x">>)
  <1>1. PICK n \in Nat : n = Len(tpl.segments)
    BY ImagesAre
  <1>2. PICK T : T = {j \in Nat : InTurn(g, r, n - j)}
    OBVIOUS
  <1>3. \A k : InTurn(g, r, k) => k \in 0 .. n
    BY <1>1 DEF InTurn
  <1>4. T # {}
    <2>1. PICK k : InTurn(g, r, k)
      OBVIOUS
    <2>2. k \in 0 .. n
      BY <1>3, <2>1
    <2>3. n - k \in Nat /\ n - (n - k) = k
      BY <2>2
    <2> QED
      BY <1>2, <2>1, <2>3
  <1>5. T \in SUBSET Nat
    BY <1>2
  <1>6. PICK j \in T : \A i \in T : j <= i
    BY <1>4, <1>5, LeastNumber
  <1>7. PICK k : k = n - j
    OBVIOUS
  <1>8. InTurn(g, r, k) /\ k \in 0 .. n /\ j \in Nat
    BY <1>2, <1>3, <1>6, <1>7
  <1>9. ASSUME k < n, tpl.segments[k + 1] = <<"x">> PROVE FALSE
    <2>1. InTurn(g, r, k + 1)
      BY <1>1, <1>8, <1>9, TextIsSkipped
    <2>2. j - 1 \in Nat /\ n - (j - 1) = k + 1
      BY <1>7, <1>8, <1>9
    <2>3. j - 1 \in T
      BY <1>2, <2>1, <2>2
    <2> QED
      BY <1>6, <1>8, <2>3
  <1> QED
    BY <1>1, <1>8, <1>9

(* The turn at a variable replaces it by what it stands for. *)
LEMMA AtVariable ==
  ASSUME TplInv, ToSet(tpl.segments) \subseteq Wellformed, tpl.secrets # Error,
         NEW g, NEW r, NEW k, InTurn(g, r, k), k < Len(tpl.segments),
         NEW v, Stands(tpl.segments[k + 1], v)
  PROVE  /\ OpenAt # 0 /\ CloseAt # 0
         /\ Found = resolve_variable(<<v>>, Values)
         /\ Found # Error => /\ Rewritten = g[k + 1] \o r[k + 1]
                             /\ OpenAt + Len(Found.text) = Len(g[k + 1]) + 1
                             /\ OpenAt + Len(Found.text) > 1
  <1>1. PICK n \in Nat : n = Len(tpl.segments)
    BY ImagesAre
  <1>2. k \in Nat /\ k + 1 \in 1 .. n /\ JoinsOf(g, Images, Tokens) /\ RestsOf(r, tpl.segments, Tokens)
    BY <1>1 DEF InTurn
  <1>3. PICK a, b, s : a = g[k] /\ b = r[k + 1] /\ s = tpl.segments[k + 1]
    OBVIOUS
  <1>4. /\ a \in Seq(Tokens) /\ b \in Seq(Tokens) /\ r[k] \in Seq(Tokens)
        /\ g[k + 1] = a \o Image(s) /\ r[k] = s \o b
    BY <1>2, <1>3, PieceOn
  <1>5. s \in ToSet(tpl.segments) /\ s \in Seq(Tokens) /\ Image(s) \in Seq(Tokens)
    BY <1>1, <1>2, <1>3, ImagesAre
  <1>6. Braced(s, v) /\ Stands(s, v)
    BY <1>3 DEF Stands
  <1>7. PICK m \in Nat, z \in Nat : m = Len(a) /\ z = Len(s)
    BY <1>4, <1>5, LenProperties
  <1>8. /\ z > 2 /\ s[1] = Open /\ s[z] = Close
        /\ \A i \in 2 .. z - 1 : s[i] # Open /\ s[i] # Close
        /\ trim(SubSeq(s, 2, z - 1)) = <<v>>
    BY <1>6, <1>7 DEF Braced
  <1>9. PICK t : t = tpl.text
    OBVIOUS
  <1>10. t = a \o (s \o b)
    BY <1>3, <1>4, <1>9 DEF InTurn
  <1>11. t = (a \o s) \o b
    <2>1. (a \o s) \o b = a \o (s \o b)
      BY <1>4, <1>5, ConcatAssociative, SMTT(40)
    <2> QED
      BY <1>10, <2>1
  <1>12. PICK c : c = s \o b
    OBVIOUS
  <1>13. PICK d : d = a \o s
    OBVIOUS
  <1>14. c \in Seq(Tokens) /\ d \in Seq(Tokens) /\ Len(d) = m + z /\ Len(c) = z + Len(b) /\ Len(b) \in Nat
    BY <1>4, <1>5, <1>7, <1>12, <1>13, ConcatProperties, LenProperties
  <1>15. t \in Seq(Tokens) /\ Len(t) = m + z + Len(b)
    <2>1. t = d \o b
      BY <1>11, <1>13
    <2>2. t \in Seq(Tokens) /\ Len(t) = Len(d) + Len(b)
      BY <1>4, <1>14, <2>1, ConcatProperties
    <2> QED
      BY <1>14, <2>2
  <1>16. \A i \in 1 .. m : t[i] = a[i]
    <2> SUFFICES ASSUME NEW i \in 1 .. m PROVE t[i] = a[i]
      OBVIOUS
    <2>1. i \in 1 .. Len(a) + Len(c) /\ i <= Len(a)
      BY <1>7, <1>14
    <2>2. (a \o c)[i] = a[i]
      BY <1>4, <1>14, <2>1, ConcatProperties
    <2> QED
      BY <1>10, <1>12, <2>2
  <1>17. \A i \in 1 .. z : t[m + i] = s[i]
    <2> SUFFICES ASSUME NEW i \in 1 .. z PROVE t[m + i] = s[i]
      OBVIOUS
    <2>1. PICK p : p = m + i
      OBVIOUS
    <2>2. /\ p \in 1 .. Len(a) + Len(s) /\ ~(p <= Len(a)) /\ p - Len(a) = i
          /\ p \in 1 .. Len(d) + Len(b) /\ p <= Len(d)
      BY <1>7, <1>14, <2>1
    <2>3. (a \o s)[p] = s[i]
      BY <1>4, <1>5, <2>2, ConcatProperties
    <2>4. (d \o b)[p] = d[p]
      BY <1>4, <1>14, <2>2, ConcatProperties
    <2> QED
      BY <1>11, <1>13, <2>1, <2>3, <2>4
  <1>18. OpenAt = m + 1
    <2>1. PICK p \in Nat : p = m + 1
      OBVIOUS
    <2>2. PICK from \in Nat : from = tpl.start
      BY DEF TplInv
    <2>3. p \in from .. Len(t) /\ p # 0 /\ Len(t) \in Nat
      <3>1. from <= m + 1
        BY <1>3, <1>7, <2>2 DEF InTurn
      <3> QED
        BY <1>8, <1>14, <1>15, <2>1, <3>1
    <2>4. t[p] = Open
      <3>1. PICK i : i = 1
        OBVIOUS
      <3>2. i \in 1 .. z /\ s[i] = Open
        BY <1>8, <3>1
      <3> QED
        BY <1>17, <2>1, <3>1, <3>2
    <2>5. \A i \in from .. p - 1 : t[i] # Open
      <3> SUFFICES ASSUME NEW i \in from .. p - 1 PROVE t[i] # Open
        OBVIOUS
      <3>1. i \in tpl.start .. Len(g[k]) /\ i \in 1 .. m
        <4>1. from \in Nat \ {0}
          BY <2>2 DEF TplInv
        <4>2. i \in from .. m /\ i \in 1 .. m
          BY <2>1, <4>1
        <4> QED
          BY <1>3, <1>7, <2>2, <4>2
      <3>2. g[k][i] # Open
        BY <3>1 DEF InTurn
      <3> QED
        BY <1>3, <1>16, <3>1, <3>2
    <2>6. find(t, Open, from) = p
      BY <2>3, <2>4, <2>5, FindsAt
    <2> QED
      BY <1>9, <2>1, <2>2, <2>6 DEF OpenAt
  <1>19. CloseAt = m + z
    <2>1. PICK p \in Nat : p = m + z
      OBVIOUS
    <2>2. PICK from \in Nat : from = m + 1
      OBVIOUS
    <2>3. p \in from .. Len(t) /\ p # 0 /\ Len(t) \in Nat
      BY <1>8, <1>14, <1>15, <2>1, <2>2
    <2>4. t[p] = Close
      <3>1. z \in 1 .. z
        BY <1>8
      <3> QED
        BY <1>8, <1>17, <2>1, <3>1
    <2>5. \A i \in from .. p - 1 : t[i] # Close
      <3> SUFFICES ASSUME NEW i \in from .. p - 1 PROVE t[i] # Close
        OBVIOUS
      <3>1. PICK j : j = i - m
        OBVIOUS
      <3>2. j \in 1 .. z - 1 /\ j \in 1 .. z /\ m + j = i
        BY <2>1, <2>2, <3>1
      <3>3. s[j] # Close
        <4>1. CASE j = 1
          BY <1>8, <4>1, TokensDiffer
        <4>2. CASE j # 1
          <5>1. j \in 2 .. z - 1
            BY <3>2, <4>2
          <5> QED
            BY <1>8, <5>1
        <4> QED
          BY <4>1, <4>2
      <3> QED
        BY <1>17, <3>2, <3>3
    <2>6. find(t, Close, from) = p
      BY <2>3, <2>4, <2>5, FindsAt
    <2> QED
      BY <1>9, <1>18, <2>1, <2>2, <2>6 DEF CloseAt
  <1>20. SubSeq(t, OpenAt + 1, CloseAt - 1) = SubSeq(s, 2, z - 1)
    <2>1. PICK u \in Int, w \in Int : u = m + 2 /\ w = m + z - 1
      OBVIOUS
    <2>2. \A i \in u .. w : t[i] \in Tokens
      <3> SUFFICES ASSUME NEW i \in u .. w PROVE t[i] \in Tokens
        OBVIOUS
      <3>1. i \in 1 .. Len(t)
        BY <1>14, <1>15, <2>1
      <3> QED
        BY <1>15, <3>1, ElementOfSeq
    <2>3. /\ SubSeq(t, u, w) \in Seq(Tokens) /\ Len(SubSeq(t, u, w)) = IF u <= w THEN w - u + 1 ELSE 0
          /\ \A i \in 1 .. w - u + 1 : SubSeq(t, u, w)[i] = t[u + i - 1]
      BY <2>2, SubSeqProperties
    <2>4. PICK x : x = SubSeq(t, u, w)
      OBVIOUS
    <2>5. x \in Seq(Tokens) /\ Len(x) = z - 2 /\ \A i \in 1 .. z - 2 : x[i] = t[m + (i + 1)]
      <3>1. w - u + 1 = z - 2 /\ u <= w /\ \A i \in 1 .. z - 2 : u + i - 1 = m + (i + 1)
        BY <1>8, <2>1
      <3> QED
        BY <2>3, <2>4, <3>1
    <2>6. PICK y : y = SubSeq(s, 2, Len(s) - 1)
      OBVIOUS
    <2>7. y \in Seq(Tokens) /\ Len(y) = z - 2 /\ \A i \in 1 .. z - 2 : y[i] = s[i + 1]
      BY <1>5, <1>7, <1>8, <2>6, PartIs
    <2>8. \A i \in 1 .. Len(x) : x[i] = y[i]
      <3> SUFFICES ASSUME NEW i \in 1 .. Len(x) PROVE x[i] = y[i]
        OBVIOUS
      <3>1. i \in 1 .. z - 2 /\ i + 1 \in 1 .. z
        BY <2>5
      <3>2. t[m + (i + 1)] = s[i + 1]
        BY <1>17, <3>1
      <3> QED
        BY <2>5, <2>7, <3>1, <3>2
    <2>9. x = y
      BY <2>5, <2>7, <2>8, SeqEqual
    <2>10. OpenAt + 1 = u /\ CloseAt - 1 = w
      BY <1>18, <1>19, <2>1
    <2> QED
      BY <1>7, <2>4, <2>6, <2>9, <2>10
  <1>21. Found = resolve_variable(<<v>>, Values)
    BY <1>8, <1>9, <1>20 DEF Found
  <1>22. ASSUME Found # Error
         PROVE  /\ Rewritten = g[k + 1] \o r[k + 1]
                /\ OpenAt + Len(Found.text) = Len(g[k + 1]) + 1
                /\ OpenAt + Len(Found.text) > 1
    <2>1. Found.text = Image(s) /\ Len(Image(s)) > 0
      BY <1>5, <1>6, <1>21, <1>22, MeansIs
    <2>2. SubSeq(t, 1, OpenAt - 1) = a
      <3>1. SubSeq(a \o c, 1, Len(a)) = a
        BY <1>4, <1>14, CutsApart
      <3>2. OpenAt - 1 = Len(a)
        BY <1>7, <1>18
      <3> QED
        BY <1>10, <1>12, <3>1, <3>2
    <2>3. SubSeq(t, CloseAt + 1, Len(t)) = b
      <3>1. SubSeq(d \o b, Len(d) + 1, Len(d \o b)) = b
        BY <1>4, <1>14, CutsApart
      <3> QED
        BY <1>11, <1>13, <1>14, <1>19, <3>1
    <2>4. Rewritten = (a \o Image(s)) \o b
      BY <1>9, <2>1, <2>2, <2>3 DEF Rewritten
    <2>5. Len(g[k + 1]) = m + Len(Image(s)) /\ Len(Image(s)) \in Nat
      BY <1>4, <1>5, <1>7, ConcatProperties, LenProperties
    <2>6. OpenAt + Len(Found.text) = Len(g[k + 1]) + 1 /\ OpenAt + Len(Found.text) > 1
      <3>1. PICK l \in Nat : l = Len(Image(s))
        BY <2>5
      <3>2. OpenAt + l = (m + l) + 1 /\ OpenAt + l > 1
        BY <1>18, <2>1, <3>1
      <3> QED
        BY <2>1, <2>5, <3>1, <3>2
    <2> QED
      BY <1>3, <1>4, <2>4, <2>6
  <1>23. OpenAt # 0 /\ CloseAt # 0
    BY <1>8, <1>18, <1>19
  <1> QED
    BY <1>21, <1>22, <1>23

\* Until it is resolved, a template of text and variables is in some turn;
\* one that is a single variable is resolved at once.
WrittenInv ==
  ToSet(tpl.segments) \subseteq Wellformed =>
    /\ tpl.value # Missing => tpl.value = Meaning
    /\ tpl.value = Missing =>
         /\ \E g, r : \E k : InTurn(g, r, k)
         /\ tpl.start = 1 => tpl.text = FlattenSeq(tpl.segments)
         /\ Len(tpl.segments) = 1 /\ tpl.segments[1] # <<"x">> => tpl.start = 1

(* A step changes nothing of what the template means. *)
LEMMA MeaningStays ==
  ASSUME NEW text, NEW start, NEW value, Became(text, start, value)
  PROVE  /\ Meaning' = Meaning /\ Images' = Images
         /\ \A s : Unresolved(s)' = Unresolved(s)
  BY DEF Became, Meaning, Images, Image, Unresolved

(* A whole and its parts, for all of a template's pieces. *)
LEMMA PartsExist ==
  ASSUME TplInv, ToSet(tpl.segments) \subseteq Wellformed
  PROVE  /\ \E g : JoinsOf(g, Images, Tokens)
         /\ \E r : RestsOf(r, tpl.segments, Tokens) /\ FlattenSeq(tpl.segments) = r[0]
  <1>1. tpl.segments \in Seq(Seq(Tokens)) /\ Images \in Seq(Seq(Tokens))
    BY ImagesAre
  <1>2. \E g : JoinsOf(g, Images, Tokens)
    BY <1>1, JoinsExists
  <1>3. PICK f : JoinsOf(f, tpl.segments, Tokens)
    BY <1>1, JoinsExists
  <1>4. PICK r : RestsOf(r, tpl.segments, Tokens)
    BY <1>1, RestsExists
  <1>5. FlattenSeq(tpl.segments) = r[0]
    BY <1>1, <1>3, <1>4, JoinsAndRests
  <1> QED
    BY <1>2, <1>4, <1>5

(* At the start, nothing is replaced. *)
LEMMA WrittenStarts == TemplatesInit => WrittenInv
  <1> SUFFICES ASSUME TemplatesInit, ToSet(tpl.segments) \subseteq Wellformed
               PROVE  /\ tpl.value # Missing => tpl.value = Meaning
                      /\ tpl.value = Missing =>
                           /\ \E g, r : \E k : InTurn(g, r, k)
                           /\ tpl.start = 1 => tpl.text = FlattenSeq(tpl.segments)
                           /\ Len(tpl.segments) = 1 /\ tpl.segments[1] # <<"x">> => tpl.start = 1
    BY DEF WrittenInv
  <1>1. TplInv
    BY TemplateStarts
  <1>2. /\ tpl.start = 1 /\ tpl.text = FlattenSeq(tpl.segments)
        /\ tpl.value = IF tpl.secrets = Error THEN Error ELSE Missing
    BY DEF TemplatesInit
  <1>3. ASSUME tpl.secrets = Error PROVE tpl.value = Meaning
    <2>1. /\ Opened("secret.s") \in ToSet(tpl.segments) /\ tpl.stored = Missing
      <3>1. tpl.secrets = IF Opened("secret.s") \notin ToSet(tpl.segments) THEN Missing
                          ELSE IF tpl.stored = Missing THEN Error ELSE tpl.stored
        BY <1>1, SecretsAre DEF TplInv
      <3>2. tpl.stored # Error /\ Missing # Error
        BY <1>1, ValuesArePlain, KindsDiffer DEF TplInv
      <3> QED
        BY <1>3, <3>1, <3>2
    <2>2. PICK s : s = Opened("secret.s")
      OBVIOUS
    <2>3. Variable(s) = <<"secret.s">> /\ s # <<"x">>
      <3>1. PICK v : v = "secret.s"
        OBVIOUS
      <3>2. v \in VariableNames
        BY <3>1 DEF VariableNames
      <3>3. Braced(s, v)
        BY <2>2, <3>1, <3>2, OpenedIs
      <3>4. Len(<<"x">>) = 1
        OBVIOUS
      <3>5. s # <<"x">>
        BY <3>3, <3>4 DEF Braced
      <3> QED
        BY <3>1, <3>3, <3>5 DEF Variable, Braced
    <2>4. <<"secret.s">> # <<"input.a">>
      OBVIOUS
    <2>5. Unresolved(s)
      BY <2>1, <2>3, <2>4 DEF Unresolved
    <2>6. Meaning = Error
      BY <2>1, <2>2, <2>5 DEF Meaning
    <2> QED
      BY <1>2, <1>3, <2>6
  <1>4. \E g, r : \E k : InTurn(g, r, k)
    <2>1. PICK g : JoinsOf(g, Images, Tokens)
      BY <1>1, PartsExist
    <2>2. PICK r : RestsOf(r, tpl.segments, Tokens) /\ FlattenSeq(tpl.segments) = r[0]
      BY <1>1, PartsExist
    <2>3. PICK k : k = 0
      OBVIOUS
    <2>4. PICK n \in Nat : n = Len(tpl.segments)
      BY <1>1, ImagesAre
    <2>5. g[k] = <<>> /\ Len(g[k]) = 0
      BY <2>1, <2>3 DEF JoinsOf, Joins
    <2>6. r[0] \in Seq(Tokens)
      BY <2>2, <2>4 DEF RestsOf
    <2>7. g[k] \o r[k] = r[0]
      BY <2>3, <2>5, <2>6, ConcatEmptySeq
    <2>8. k \in 0 .. n /\ 1 .. k = {} /\ tpl.start \in 1 .. Len(g[k]) + 1 /\ tpl.start .. Len(g[k]) = {}
      BY <1>2, <2>3, <2>5
    <2>9. InTurn(g, r, k)
      BY <1>2, <2>1, <2>2, <2>4, <2>7, <2>8 DEF InTurn
    <2> QED
      BY <2>9
  <1> QED
    BY <1>2, <1>3, <1>4

(* A step replaces the next variable by what it means, whatever it looks like. *)
LEMMA WrittenGoesOn == TplInv /\ WrittenInv /\ TemplatesNext => WrittenInv'
  <1> SUFFICES ASSUME TplInv, WrittenInv, TemplatesNext PROVE WrittenInv'
    OBVIOUS
  <1>1. tpl.value = Missing /\ tpl.secrets # Error
    BY TurnIs, KindsDiffer DEF TplInv
  <1>2. tpl'.segments = tpl.segments
    BY TurnIs DEF Became
  <1>3. CASE ~(ToSet(tpl.segments) \subseteq Wellformed)
    BY <1>2, <1>3 DEF WrittenInv
  <1>4. CASE ToSet(tpl.segments) \subseteq Wellformed
    <2>1. PICK n \in Nat : n = Len(tpl.segments)
      BY <1>4, ImagesAre
    <2>2. PICK g, r : \E k : InTurn(g, r, k)
      BY <1>1, <1>4 DEF WrittenInv
    <2>3. PICK k : /\ InTurn(g, r, k)
                   /\ k = n \/ (k < n /\ tpl.segments[k + 1] # <<"x">>)
      BY <1>4, <2>1, <2>2, NextVariable
    <2>4. /\ k \in 0 .. n /\ JoinsOf(g, Images, Tokens) /\ RestsOf(r, tpl.segments, Tokens)
          /\ \A i \in 1 .. k : ~Unresolved(tpl.segments[i])
          /\ tpl.text = g[k] \o r[k]
      BY <2>1, <2>3 DEF InTurn
    <2> DEFINE lone == n = 1 /\ tpl.segments[1] # <<"x">>
    <2>5. lone => is_single_template(tpl.text) /\ tpl.start = 1
      <3> SUFFICES ASSUME lone PROVE is_single_template(tpl.text) /\ tpl.start = 1
        OBVIOUS
      <3>1. tpl.start = 1 /\ tpl.text = FlattenSeq(tpl.segments)
        BY <1>1, <1>4, <2>1 DEF WrittenInv
      <3> QED
        BY <1>4, <2>1, <3>1, SingleIs DEF TplInv
    <2>6. \A x : x \in ToSet(tpl.segments) <=> \E i \in 1 .. n : tpl.segments[i] = x
      <3>1. DOMAIN tpl.segments = 1 .. n
        BY <2>1, LenProperties DEF TplInv
      <3> QED
        BY <3>1 DEF ToSet
    <2>7. ASSUME NEW value, Became(tpl.text, tpl.start, value), value # Missing, value = Meaning
          PROVE  WrittenInv'
      <3>1. Meaning' = Meaning /\ tpl'.value = value
        BY <2>7, MeaningStays DEF Became
      <3> QED
        BY <2>7, <3>1 DEF WrittenInv, Missing
    <2>8. CASE tpl.start = 1 /\ is_single_template(tpl.text) /\ Became(tpl.text, tpl.start, Single)
      <3>1. tpl.text = FlattenSeq(tpl.segments)
        BY <1>1, <1>4, <2>8 DEF WrittenInv
      <3>2. n = 1 /\ tpl.segments[1] # <<"x">>
        BY <1>4, <2>1, <2>8, <3>1, SingleIs DEF TplInv
      <3>3. PICK s : s = tpl.segments[1]
        OBVIOUS
      <3>4. s \in Wellformed /\ s \in ToSet(tpl.segments) /\ s \in Seq(Tokens)
        BY <1>4, <2>1, <3>2, <3>3, ImagesAre
      <3>5. PICK v : Stands(s, v)
        BY <3>2, <3>3, <3>4, WellformedIs
      <3>6. Braced(s, v)
        BY <3>5 DEF Stands
      <3>7. tpl.text = s
        <4>1. PICK f : JoinsOf(f, tpl.segments, Tokens)
          BY <1>4, ImagesAre, JoinsExists
        <4>2. FlattenSeq(tpl.segments) = f[1]
          BY <1>4, <2>1, <3>2, <4>1, FlattenIs, ImagesAre
        <4>3. f[1] = f[0] \o s /\ f[0] = <<>>
          <5>1. PICK i : i = 1
            OBVIOUS
          <5>2. i \in 1 .. Len(tpl.segments) /\ i - 1 = 0
            BY <2>1, <3>2, <5>1
          <5>3. f[i] = f[i - 1] \o tpl.segments[i] /\ f[0] = <<>>
            BY <4>1, <5>2 DEF JoinsOf, Joins
          <5> QED
            BY <3>3, <5>1, <5>2, <5>3
        <4>4. <<>> \o s = s
          BY <3>4, ConcatEmptySeq
        <4> QED
          BY <3>1, <4>2, <4>3, <4>4
      <3>8. trim(s) = s
        <4>1. Len(s) # 0 /\ s[1] # Blank /\ s[Len(s)] # Blank
          BY <3>6, TokensDiffer DEF Braced
        <4> QED
          BY <3>4, <4>1, TrimKeeps
      <3>9. Single = resolve_variable(<<v>>, Values)
        BY <3>6, <3>7, <3>8 DEF Single, Braced
      <3>10. Single # Missing
        BY <3>9, ResolvedIs
      <3>11. Single = Meaning
        <4>1. CASE Unresolved(s)
          BY <1>1, <3>4, <3>5, <3>9, <4>1, MeansIs DEF Meaning
        <4>2. CASE ~Unresolved(s)
          <5>1. Single = IF Variable(s) = <<"input.a">> THEN tpl.input ELSE tpl.stored
            BY <1>1, <3>4, <3>5, <3>9, <4>2, MeansIs
          <5>2. \A x \in ToSet(tpl.segments) : x = s
            BY <2>6, <3>2, <3>3
          <5>3. Meaning = IF Variable(s) = <<"input.a">> THEN tpl.input ELSE tpl.stored
            BY <2>1, <3>2, <3>3, <4>2, <5>2 DEF Meaning
          <5> QED
            BY <5>1, <5>3
        <4> QED
          BY <4>1, <4>2
      <3> QED
        BY <2>7, <2>8, <3>10, <3>11
    <2>9. CASE k = n /\ ~lone
      <3>1. n \in 0 .. n /\ r[n] = <<>>
        BY <2>1, <2>4 DEF RestsOf
      <3>2. Len(Images) = n /\ g \in [0 .. n -> Seq(Tokens)]
        BY <1>4, <2>1, <2>4, ImagesAre DEF JoinsOf
      <3>3. PICK a : a = g[n]
        OBVIOUS
      <3>4. a \in Seq(Tokens)
        BY <3>1, <3>2, <3>3
      <3>5. tpl.text = a
        <4>1. a \o <<>> = a
          BY <3>4, ConcatEmptySeq
        <4> QED
          BY <2>4, <2>9, <3>1, <3>3, <4>1
      <3>6. OpenAt = 0
        <4>1. Len(a) \in Nat
          BY <3>4, LenProperties
        <4>2. \A p \in tpl.start .. Len(a) : a[p] # Open
          BY <2>3, <2>9, <3>3 DEF InTurn
        <4>3. PICK from \in Nat : from = tpl.start
          BY DEF TplInv
        <4>4. \/ find(a, Open, from) = 0
              \/ /\ find(a, Open, from) \in from .. Len(a) /\ a[find(a, Open, from)] = Open
          BY <4>1, FindIs
        <4> QED
          BY <3>5, <4>2, <4>3, <4>4 DEF OpenAt
      <3>7. FlattenSeq(Images) = a
        <4>1. Images \in Seq(Seq(Tokens))
          BY <1>4, ImagesAre
        <4> QED
          BY <2>4, <3>2, <3>3, <4>1, FlattenIs
      <3>8. \A x \in ToSet(tpl.segments) : ~Unresolved(x)
        BY <2>4, <2>6, <2>9
      <3>9. Meaning = Text(a)
        BY <2>1, <2>9, <3>7, <3>8 DEF Meaning, Images
      <3>10. Text(a) # Missing
        BY KindsDiffer
      <3>11. CASE Became(tpl.text, tpl.start, Text(tpl.text))
        BY <2>7, <3>5, <3>9, <3>10, <3>11
      <3> QED
        BY <2>8, <3>6, <3>11, TurnIs
    <2>10. CASE k < n /\ tpl.segments[k + 1] # <<"x">> /\ ~lone
      <3>1. PICK s : s = tpl.segments[k + 1]
        OBVIOUS
      <3>2. k + 1 \in 1 .. n /\ k + 1 \in 0 .. n /\ k \in Nat
        BY <2>4, <2>10
      <3>3. s \in Wellformed /\ s \in ToSet(tpl.segments)
        BY <1>4, <2>1, <3>1, <3>2, ImagesAre
      <3>4. PICK v : Stands(s, v)
        BY <2>10, <3>1, <3>3, WellformedIs
      <3>5. /\ OpenAt # 0 /\ CloseAt # 0
            /\ Found = resolve_variable(<<v>>, Values)
            /\ Found # Error => /\ Rewritten = g[k + 1] \o r[k + 1]
                                /\ OpenAt + Len(Found.text) = Len(g[k + 1]) + 1
                                /\ OpenAt + Len(Found.text) > 1
        BY <1>1, <1>4, <2>1, <2>3, <2>10, <3>1, <3>4, AtVariable
      <3>6. Unresolved(s) <=> Found = Error
        BY <1>1, <3>3, <3>4, <3>5, MeansIs
      <3>7. CASE Found = Error /\ Became(tpl.text, tpl.start, Error)
        <4>1. Meaning = Error
          BY <3>3, <3>6, <3>7 DEF Meaning
        <4> QED
          BY <2>7, <3>7, <4>1, KindsDiffer
      <3>8. CASE Found # Error /\ Became(Rewritten, OpenAt + Len(Found.text), tpl.value)
        <4>1. PICK q : q = Len(g[k + 1])
          OBVIOUS
        <4>2. /\ tpl'.segments = tpl.segments /\ tpl'.text = g[k + 1] \o r[k + 1]
              /\ tpl'.start = q + 1 /\ tpl'.start > 1 /\ tpl'.value = Missing
          BY <1>1, <3>5, <3>8, <4>1 DEF Became
        <4>3. Images' = Images /\ \A x : Unresolved(x)' = Unresolved(x)
          BY <3>8, MeaningStays
        <4>4. q \in Nat
          <5>1. g[k + 1] \in Seq(Tokens)
            BY <1>4, <2>1, <2>4, <2>10, <3>2, PieceOn
          <5> QED
            BY <4>1, <5>1, LenProperties
        <4>5. \A i \in 1 .. k + 1 : ~Unresolved(tpl.segments[i])
          <5> SUFFICES ASSUME NEW i \in 1 .. k + 1 PROVE ~Unresolved(tpl.segments[i])
            OBVIOUS
          <5>1. i \in 1 .. k \/ i = k + 1
            BY <3>2
          <5> QED
            BY <2>4, <3>1, <3>6, <3>8, <5>1
        <4>6. tpl'.start \in 1 .. q + 1 /\ tpl'.start .. q = {}
          BY <4>2, <4>4
        <4>7. InTurn(g, r, k + 1)'
          <5>1. /\ JoinsOf(g, Images', Tokens) /\ RestsOf(r, tpl'.segments, Tokens)
                /\ k + 1 \in 0 .. Len(tpl'.segments)
                /\ tpl'.text = g[k + 1] \o r[k + 1]
            BY <2>1, <2>4, <3>2, <4>2, <4>3
          <5>2. \A i \in 1 .. k + 1 : ~Unresolved(tpl.segments[i])'
            BY <4>2, <4>3, <4>5 DEF Unresolved
          <5>3. /\ tpl'.start \in 1 .. Len(g[k + 1]) + 1
                /\ \A p \in tpl'.start .. Len(g[k + 1]) : g[k + 1][p] # Open
            BY <4>1, <4>6
          <5> QED
            BY <5>1, <5>2, <5>3 DEF InTurn, JoinsOf, Joins, RestsOf, Tokens, Plain, Open
        <4>8. (\E h, t : \E j : InTurn(h, t, j))'
          BY <4>7
        <4>9. tpl'.start # 1
          BY <4>2, <4>4
        <4> QED
          BY <2>1, <2>10, <4>2, <4>8, <4>9 DEF WrittenInv, Missing
      <3> QED
        BY <2>8, <3>5, <3>7, <3>8, TurnIs
    <2>11. CASE lone
      BY <2>5, <2>8, <2>11, TurnIs
    <2> QED
      BY <2>3, <2>9, <2>10, <2>11
  <1> QED
    BY <1>3, <1>4

(* A template of text and variables resolves to what its pieces say, a value
   that looks like a template is never resolved again, and a secret shows only in a
   template that names it: resolve_string and collect_secrets, for templates of any
   length. *)
THEOREM TemplatesResolveAsWritten == AlgorithmsSpec => []Templating
  <1> DEFINE Inv == focus = "templates" => TplInv /\ KeyInv /\ WrittenInv
  <1>1. AlgorithmsInit => Inv
    BY TemplateStarts, WrittenStarts DEF AlgorithmsInit
  <1>2. Inv /\ [AlgorithmsNext]_algorithmVars => Inv'
    <2> SUFFICES ASSUME Inv, [AlgorithmsNext]_algorithmVars, focus' = "templates"
                 PROVE  TplInv' /\ KeyInv' /\ WrittenInv'
      OBVIOUS
    <2>1. focus = "templates" /\ TplInv /\ KeyInv /\ WrittenInv
      BY DEF AlgorithmsNext, algorithmVars
    <2>2. CASE TemplatesNext
      BY <2>1, <2>2, TemplateGoesOn, WrittenGoesOn
    <2>3. CASE tpl' = tpl
      <3>1. TplInv' /\ KeyInv'
        BY <2>1, <2>3 DEF TplInv, KeyInv
      <3>2. WrittenInv'
        <4>1. Meaning' = Meaning
          BY <2>3 DEF Meaning, Image, Unresolved
        <4>2. Images' = Images /\ \A s : Unresolved(s)' = Unresolved(s)
          BY <2>3 DEF Images, Image, Unresolved
        <4>3. ASSUME NEW g, NEW r, NEW k, InTurn(g, r, k) PROVE InTurn(g, r, k)'
          <5>1. \A i \in 1 .. k : ~Unresolved(tpl.segments[i])'
            BY <2>3, <4>3 DEF InTurn, Unresolved
          <5>2. JoinsOf(g, Images', Tokens) /\ RestsOf(r, tpl'.segments, Tokens)
            BY <2>3, <4>2, <4>3 DEF InTurn
          <5> QED
            BY <2>3, <4>3, <5>1, <5>2 DEF InTurn, JoinsOf, Joins, RestsOf, Tokens, Plain, Open
        <4>4. (\E g, r : \E k : InTurn(g, r, k)) => (\E g, r : \E k : InTurn(g, r, k))'
          BY <4>3
        <4> QED
          BY <2>1, <2>3, <4>1, <4>4 DEF WrittenInv, Missing
      <3> QED
        BY <3>1, <3>2
    <2> QED
      BY <2>1, <2>2, <2>3 DEF AlgorithmsNext, algorithmVars
  <1>3. Inv => Templating
    BY KeyIsKept DEF Templating, ResolvesAsWritten, WrittenInv
  <1> QED
    BY <1>1, <1>2, <1>3, PTL DEF AlgorithmsSpec

-----------------------------------------------------------------------------
(* The date filter.                                                        *)

(* The days of a month of the calendar. *)
DaysIn(z) == MonthLength(z \div 12, (z % 12) + 1)

(* A calendar has its first month's first day and the day after its last. *)
Ends == FirstMonth .. FirstMonth + MonthCount

(* A month has 28 to 31 days. *)
LEMMA MonthsAreShort == \A y, m : MonthLength(y, m) \in 28 .. 31
  <1> SUFFICES ASSUME NEW y, NEW m PROVE MonthLength(y, m) \in 28 .. 31
    OBVIOUS
  <1>1. PICK b : b = Leap(y)
    OBVIOUS
  <1> QED
    BY DEF MonthLength

(* Each month starts where the one before it ends. *)
LEMMA FirstDayIs ==
  /\ FirstDay[FirstMonth] = 1
  /\ \A z \in Months : FirstDay[z + 1] = FirstDay[z] + DaysIn(z)
  /\ \A z \in Ends : FirstDay[z] \in Nat \ {0}
  <1>0. FirstMonth \in Nat /\ MonthCount \in Nat
    BY DateRangeAssumption
  <1>a. \A z : DaysIn(z) \in 28 .. 31
    BY MonthsAreShort DEF DaysIn
  <1>1. PICK h : h = [n \in Nat |-> [x \in Nat |-> x + DaysIn(FirstMonth + n)]]
    OBVIOUS
  <1>2. h \in [Nat -> [Nat -> Nat]]
    <2>1. \A n \in Nat, x \in Nat : x + DaysIn(FirstMonth + n) \in Nat
      BY <1>a
    <2> QED
      BY <1>1, <2>1
  <1>3. PICK f \in [Nat -> Nat] : f[0] = 1 /\ \A n \in Nat : f[n + 1] = h[n][f[n]]
    <2>1. PICK a : a = 1
      OBVIOUS
    <2>2. a \in Nat
      BY <2>1
    <2>3. \E f : Follows(f, Nat, a, h)
      BY <1>2, <2>2, RecursionExists
    <2> QED
      BY <2>1, <2>3 DEF Follows
  <1>4. \A n \in Nat : f[n + 1] = f[n] + DaysIn(FirstMonth + n)
    BY <1>1, <1>3
  <1>5. PICK g : g = [z \in Ends |-> f[z - FirstMonth]]
    OBVIOUS
  <1>6. g = [z \in Ends |-> IF z = FirstMonth THEN 1 ELSE g[z - 1] + DaysIn(z - 1)]
    <2>1. ASSUME NEW z \in Ends
          PROVE  g[z] = IF z = FirstMonth THEN 1 ELSE g[z - 1] + DaysIn(z - 1)
      <3>1. CASE z = FirstMonth
        <4>1. z - FirstMonth = 0 /\ g[z] = f[z - FirstMonth]
          BY <1>0, <1>5, <3>1
        <4> QED
          BY <1>3, <3>1, <4>1
      <3>2. CASE z # FirstMonth
        <4>1. PICK n : n = (z - 1) - FirstMonth
          OBVIOUS
        <4>2. n \in Nat /\ n + 1 = z - FirstMonth /\ FirstMonth + n = z - 1 /\ z - 1 \in Ends
          BY <1>0, <3>2, <4>1 DEF Ends
        <4>3. g[z] = f[n + 1] /\ g[z - 1] = f[n]
          BY <1>5, <4>1, <4>2
        <4>4. f[n + 1] = f[n] + DaysIn(z - 1)
          BY <1>4, <4>2
        <4> QED
          BY <3>2, <4>3, <4>4
      <3> QED
        BY <3>1, <3>2
    <2> QED
      BY <2>1, <1>5
  <1>7. FirstDay = [z \in Ends |-> IF z = FirstMonth THEN 1 ELSE FirstDay[z - 1] + DaysIn(z - 1)]
    BY <1>6 DEF FirstDay, Ends, DaysIn
  <1>8. FirstDay[FirstMonth] = 1
    BY <1>0, <1>7 DEF Ends
  <1>9. ASSUME NEW z \in Months PROVE FirstDay[z + 1] = FirstDay[z] + DaysIn(z)
    <2>1. z + 1 \in Ends /\ z + 1 # FirstMonth /\ (z + 1) - 1 = z
      BY <1>0 DEF Ends, Months
    <2> QED
      BY <1>7, <2>1
  <1>10. \A n \in Nat : FirstMonth + n \in Ends => FirstDay[FirstMonth + n] \in Nat \ {0}
    <2> DEFINE T == {n \in Nat : FirstMonth + n \in Ends => FirstDay[FirstMonth + n] \in Nat \ {0}}
    <2>1. 0 \in T
      BY <1>0, <1>8
    <2>2. ASSUME NEW n \in Nat, n \in T PROVE n + 1 \in T
      <3> SUFFICES ASSUME FirstMonth + (n + 1) \in Ends
                   PROVE  FirstDay[FirstMonth + (n + 1)] \in Nat \ {0}
        OBVIOUS
      <3>1. FirstMonth + n \in Months /\ FirstMonth + n \in Ends
            /\ (FirstMonth + n) + 1 = FirstMonth + (n + 1)
        BY <1>0 DEF Ends, Months
      <3>2. FirstDay[FirstMonth + (n + 1)] = FirstDay[FirstMonth + n] + DaysIn(FirstMonth + n)
        BY <1>9, <3>1
      <3>3. FirstDay[FirstMonth + n] \in Nat \ {0}
        BY <2>2, <3>1
      <3> QED
        BY <3>2, <3>3, <1>a
    <2> HIDE DEF T
    <2>3. Nat \subseteq T
      BY <2>1, <2>2, SetInduction
    <2> QED
      BY <2>3 DEF T
  <1>11. ASSUME NEW z \in Ends PROVE FirstDay[z] \in Nat \ {0}
    <2>1. z - FirstMonth \in Nat /\ FirstMonth + (z - FirstMonth) = z
      BY <1>0 DEF Ends
    <2> QED
      BY <1>10, <2>1
  <1> QED
    BY <1>8, <1>9, <1>11

(* The first days grow with the months. *)
LEMMA FirstDaysGrow ==
  \A y, z \in Ends : y < z => FirstDay[y] + 28 <= FirstDay[z]
  <1>0. FirstMonth \in Nat /\ MonthCount \in Nat
    BY DateRangeAssumption
  <1>a. \A z : DaysIn(z) \in 28 .. 31
    BY MonthsAreShort DEF DaysIn
  <1> SUFFICES ASSUME NEW y \in Ends
               PROVE  \A z \in Ends : y < z => FirstDay[y] + 28 <= FirstDay[z]
    OBVIOUS
  <1> DEFINE T == {k \in Nat : y + (k + 1) \in Ends => FirstDay[y] + 28 <= FirstDay[y + (k + 1)]}
  <1>1. 0 \in T
    <2> SUFFICES ASSUME y + (0 + 1) \in Ends PROVE FirstDay[y] + 28 <= FirstDay[y + (0 + 1)]
      OBVIOUS
    <2>1. y \in Months /\ y + (0 + 1) = y + 1
      BY <1>0 DEF Ends, Months
    <2>2. FirstDay[y] \in Nat /\ FirstDay[y + 1] = FirstDay[y] + DaysIn(y)
      BY <2>1, FirstDayIs
    <2> QED
      BY <1>a, <2>1, <2>2
  <1>2. ASSUME NEW k \in Nat, k \in T PROVE k + 1 \in T
    <2> SUFFICES ASSUME y + ((k + 1) + 1) \in Ends
                 PROVE  FirstDay[y] + 28 <= FirstDay[y + ((k + 1) + 1)]
      OBVIOUS
    <2>1. PICK m : m = y + (k + 1)
      OBVIOUS
    <2>2. m \in Months /\ m \in Ends /\ y + ((k + 1) + 1) = m + 1
      BY <1>0, <2>1 DEF Ends, Months
    <2>3. FirstDay[m] \in Nat /\ FirstDay[y] \in Nat /\ FirstDay[m + 1] = FirstDay[m] + DaysIn(m)
      BY <2>2, FirstDayIs
    <2>4. FirstDay[y] + 28 <= FirstDay[m]
      BY <1>2, <2>1, <2>2
    <2> QED
      BY <1>a, <2>2, <2>3, <2>4
  <1> HIDE DEF T
  <1>3. Nat \subseteq T
    BY <1>1, <1>2, SetInduction
  <1>4. ASSUME NEW z \in Ends, y < z PROVE FirstDay[y] + 28 <= FirstDay[z]
    <2>1. PICK k : k = (z - y) - 1
      OBVIOUS
    <2>2. k \in Nat /\ y + (k + 1) = z
      BY <1>0, <1>4, <2>1 DEF Ends
    <2> QED
      BY <1>3, <2>2 DEF T
  <1> QED
    BY <1>4

(* Every day of the calendar is in the one month that MonthOf gives. *)
LEMMA MonthOfIs ==
  /\ \A d \in Dates : /\ MonthOf[d] \in Months
                      /\ FirstDay[MonthOf[d]] <= d /\ d < FirstDay[MonthOf[d] + 1]
  /\ \A d \in Dates : \A z \in Months : FirstDay[z] <= d /\ d < FirstDay[z + 1] => MonthOf[d] = z
  <1>0. FirstMonth \in Nat /\ MonthCount \in Nat /\ FirstMonth \in Ends
        /\ FirstMonth + MonthCount \in Ends
    BY DateRangeAssumption DEF Ends
  <1>d. \A d \in Dates : d \in Nat /\ d >= 1 /\ d < FirstDay[FirstMonth + MonthCount]
    BY <1>0, FirstDayIs DEF Dates
  <1>1. ASSUME NEW d \in Dates
        PROVE  \E z \in Months : FirstDay[z] <= d /\ d < FirstDay[z + 1]
    <2> DEFINE S == {n \in Nat : FirstMonth + (n + 1) \in Ends /\ d < FirstDay[FirstMonth + (n + 1)]}
    <2>1. S # {}
      <3>1. MonthCount # 0
        BY <1>0, <1>d, FirstDayIs
      <3>2. MonthCount - 1 \in Nat /\ FirstMonth + ((MonthCount - 1) + 1) = FirstMonth + MonthCount
        BY <1>0, <3>1
      <3>3. MonthCount - 1 \in S
        BY <1>0, <1>d, <3>2
      <3> QED
        BY <3>3
    <2>2. S \in SUBSET Nat
      OBVIOUS
    <2>3. PICK n \in S : \A k \in S : n <= k
      <3> HIDE DEF S
      <3> QED
        BY <2>1, <2>2, LeastNumber
    <2>4. n \in Nat /\ FirstMonth + (n + 1) \in Ends /\ d < FirstDay[FirstMonth + (n + 1)]
      BY <2>3
    <2>5. FirstMonth + n \in Months /\ FirstMonth + n \in Ends
          /\ (FirstMonth + n) + 1 = FirstMonth + (n + 1)
      BY <1>0, <2>4 DEF Ends, Months
    <2>6. FirstDay[FirstMonth + n] <= d
      <3>1. CASE n = 0
        BY <1>0, <1>d, <3>1, FirstDayIs
      <3>2. CASE n # 0
        <4>1. n - 1 \in Nat /\ FirstMonth + ((n - 1) + 1) = FirstMonth + n /\ ~ (n <= n - 1)
          BY <1>0, <2>4, <3>2
        <4>2. ~ (d < FirstDay[FirstMonth + n])
          BY <2>3, <2>5, <4>1
        <4>3. FirstDay[FirstMonth + n] \in Nat /\ d \in Nat
          BY <2>5, <1>d, FirstDayIs
        <4> QED
          BY <4>2, <4>3
      <3> QED
        BY <3>1, <3>2
    <2> QED
      BY <2>4, <2>5, <2>6
  <1>2. ASSUME NEW d \in Dates
        PROVE  MonthOf[d] \in Months /\ FirstDay[MonthOf[d]] <= d /\ d < FirstDay[MonthOf[d] + 1]
    <2>1. MonthOf[d] = CHOOSE z \in Months : FirstDay[z] <= d /\ d < FirstDay[z + 1]
      BY DEF MonthOf
    <2> QED
      BY <1>1, <2>1
  <1>3. ASSUME NEW d \in Dates, NEW z \in Months, FirstDay[z] <= d, d < FirstDay[z + 1]
        PROVE  MonthOf[d] = z
    <2>1. PICK y : y = MonthOf[d]
      OBVIOUS
    <2>2. y \in Months /\ FirstDay[y] <= d /\ d < FirstDay[y + 1]
      BY <1>2, <2>1
    <2>3. y \in Int /\ z \in Int /\ y \in Ends /\ z \in Ends /\ y + 1 \in Ends /\ z + 1 \in Ends
      BY <1>0, <2>2 DEF Months, Ends
    <2>4. FirstDay[y] \in Nat /\ FirstDay[z] \in Nat /\ FirstDay[y + 1] \in Nat
          /\ FirstDay[z + 1] \in Nat /\ d \in Nat
      BY <2>3, <1>d, FirstDayIs
    <2>5. ~ (y < z)
      <3>1. ASSUME y < z PROVE FALSE
        <4>1. y + 1 = z \/ y + 1 < z
          BY <2>3, <3>1
        <4>2. FirstDay[y + 1] <= FirstDay[z]
          BY <2>3, <2>4, <4>1, FirstDaysGrow
        <4> QED
          BY <1>3, <2>2, <2>4, <4>2
      <3> QED
        BY <3>1
    <2>6. ~ (z < y)
      <3>1. ASSUME z < y PROVE FALSE
        <4>1. z + 1 = y \/ z + 1 < y
          BY <2>3, <3>1
        <4>2. FirstDay[z + 1] <= FirstDay[y]
          BY <2>3, <2>4, <4>1, FirstDaysGrow
        <4> QED
          BY <1>3, <2>2, <2>4, <4>2
      <3> QED
        BY <3>1
    <2> QED
      BY <2>1, <2>3, <2>5, <2>6
  <1> QED
    BY <1>2, <1>3

(* The firsts of the months are days of the calendar, each in its month. *)
LEMMA FirstOfMonth ==
  /\ \A z \in Months : FirstDay[z] \in Dates /\ MonthOf[FirstDay[z]] = z
  /\ \A d \in Dates : MonthOf[d] \in Months /\ first_of_month(d) = FirstDay[MonthOf[d]]
  <1>0. FirstMonth \in Nat /\ MonthCount \in Nat /\ FirstMonth + MonthCount \in Ends
    BY DateRangeAssumption DEF Ends
  <1>1. ASSUME NEW z \in Months PROVE FirstDay[z] \in Dates /\ MonthOf[FirstDay[z]] = z
    <2>1. z \in Ends /\ z + 1 \in Ends /\ z < z + 1 /\ z < FirstMonth + MonthCount
      BY <1>0 DEF Months, Ends
    <2>2. FirstDay[z] \in Nat \ {0} /\ FirstDay[z + 1] \in Nat
          /\ FirstDay[FirstMonth + MonthCount] \in Nat
      BY <1>0, <2>1, FirstDayIs
    <2>3. FirstDay[z] + 28 <= FirstDay[z + 1]
          /\ FirstDay[z] + 28 <= FirstDay[FirstMonth + MonthCount]
      BY <1>0, <2>1, FirstDaysGrow
    <2>4. FirstDay[z] \in Dates
      BY <2>2, <2>3 DEF Dates
    <2>5. FirstDay[z] <= FirstDay[z] /\ FirstDay[z] < FirstDay[z + 1]
      BY <2>2, <2>3
    <2> QED
      BY <2>4, <2>5, MonthOfIs
  <1> QED
    BY <1>1, MonthOfIs DEF first_of_month

(* add_months splits a month number into a year and a month and puts it together
   again: nothing is lost. *)
LEMMA MonthsAdd ==
  ASSUME NEW z \in Months, NEW delta \in {-1, 1}
  PROVE  add_months(FirstDay[z], delta) = FirstDay[z + delta]
  <1>0. z \in Nat
    BY DateRangeAssumption DEF Months
  <1>1. MonthOf[FirstDay[z]] = z
    BY FirstOfMonth
  <1>2. \A x \in Int : (x \div 12) * 12 + (x % 12) = x
    OBVIOUS
  <1>3. PICK zero : zero = (z \div 12) * 12 + (z % 12) + delta
    OBVIOUS
  <1>4. zero = z + delta /\ zero \in Int
    BY <1>0, <1>2, <1>3
  <1>5. add_months(FirstDay[z], delta) = FirstDay[(zero \div 12) * 12 + (zero % 12)]
    BY <1>1, <1>3 DEF add_months
  <1> QED
    BY <1>2, <1>4, <1>5

(* The day the page is opened has its previous month in the calendar. *)
LEMMA TodayIs ==
  ASSUME NEW t \in Todays
  PROVE  /\ t \in Dates /\ MonthOf[t] \in Months /\ MonthOf[t] - 1 \in Months
         /\ t >= 29 /\ t - 1 \in Dates /\ t - 6 \in Dates
  <1>0. FirstMonth \in Nat /\ MonthCount \in Nat /\ FirstMonth \in Ends
        /\ FirstMonth + MonthCount \in Ends
    BY DateRangeAssumption DEF Ends
  <1>1. t \in Dates /\ MonthOf[t] > FirstMonth
    BY DateRangeAssumption
  <1>2. PICK z : z = MonthOf[t]
    OBVIOUS
  <1>3. z \in Months /\ FirstDay[z] <= t
    BY <1>1, <1>2, MonthOfIs
  <1>4. z - 1 \in Months /\ z \in Ends
    BY <1>0, <1>1, <1>2, <1>3 DEF Months, Ends
  <1>5. FirstDay[FirstMonth] = 1 /\ FirstDay[z] \in Nat /\ t \in Nat
        /\ FirstDay[FirstMonth + MonthCount] \in Nat /\ t < FirstDay[FirstMonth + MonthCount]
    BY <1>0, <1>1, <1>4, FirstDayIs DEF Dates
  <1>6. FirstDay[FirstMonth] + 28 <= FirstDay[z]
    BY <1>0, <1>1, <1>2, <1>4, FirstDaysGrow
  <1>7. t >= 29
    BY <1>3, <1>5, <1>6
  <1>8. t - 1 \in Dates /\ t - 6 \in Dates
    BY <1>5, <1>7 DEF Dates
  <1> QED
    BY <1>1, <1>2, <1>3, <1>4, <1>7, <1>8

(* The quick ranges are of days of the calendar. *)
LEMMA PresetIs ==
  ASSUME NEW t \in Todays, NEW p \in Presets
  PROVE  range(p, t)[1] \in Dates /\ range(p, t)[2] \in Dates
  <1>1. t \in Dates /\ MonthOf[t] \in Months /\ MonthOf[t] - 1 \in Months
        /\ t - 1 \in Dates /\ t - 6 \in Dates
    BY TodayIs
  <1>2. first_of_month(t) \in Dates /\ first_of_month(t) = FirstDay[MonthOf[t]]
    BY <1>1, FirstOfMonth
  <1>3. CASE p = "Today"
    BY <1>1, <1>3 DEF range
  <1>4. CASE p = "Last2Days"
    BY <1>1, <1>4 DEF range
  <1>5. CASE p = "Last7Days"
    BY <1>1, <1>5 DEF range
  <1>6. CASE p = "ThisMonth"
    BY <1>1, <1>2, <1>6 DEF range
  <1>7. CASE p = "LastMonth"
    <2>1. PICK l : l = first_of_month(t) - 1
      OBVIOUS
    <2>2. l \in Dates
      <3>1. FirstMonth \in Nat /\ MonthCount \in Nat
        BY DateRangeAssumption
      <3>2. FirstDay[MonthOf[t]] \in Nat /\ FirstDay[FirstMonth + MonthCount] \in Nat
        BY <1>1, <3>1, FirstDayIs DEF Months, Ends
      <3>3. FirstMonth \in Ends /\ MonthOf[t] \in Ends /\ FirstMonth < MonthOf[t]
        BY <1>1, <3>1 DEF Months, Ends
      <3>4. 1 + 28 <= FirstDay[MonthOf[t]]
        BY <3>3, FirstDayIs, FirstDaysGrow
      <3> QED
        BY <1>2, <2>1, <3>2, <3>4 DEF Dates
    <2>3. range(p, t) = <<first_of_month(l), l>>
      BY <1>7, <2>1 DEF range
    <2>4. first_of_month(l) \in Dates
      BY <2>2, FirstOfMonth
    <2> QED
      BY <2>2, <2>3, <2>4
  <1> QED
    BY <1>3, <1>4, <1>5, <1>6, <1>7 DEF Presets

(* Last month is the month before, to its last day. *)
LEMMA LastMonthIs ==
  ASSUME NEW t \in Todays
  PROVE  /\ range("LastMonth", t)[1] = FirstDay[MonthOf[t] - 1]
         /\ range("LastMonth", t)[2] = FirstDay[MonthOf[t]] - 1
  <1>0. FirstMonth \in Nat /\ MonthCount \in Nat
    BY DateRangeAssumption
  <1>1. t \in Dates /\ MonthOf[t] \in Months /\ MonthOf[t] - 1 \in Months
    BY TodayIs
  <1>2. PICK y : y = MonthOf[t] - 1
    OBVIOUS
  <1>3. y \in Months /\ y + 1 = MonthOf[t] /\ y \in Ends /\ y + 1 \in Ends /\ y < y + 1
    BY <1>0, <1>1, <1>2 DEF Months, Ends
  <1>4. PICK l : l = first_of_month(t) - 1
    OBVIOUS
  <1>5. l = FirstDay[y + 1] - 1
    BY <1>1, <1>3, <1>4, FirstOfMonth
  <1>6. l \in Dates /\ range("LastMonth", t) = <<first_of_month(l), l>>
    <2>1. range("LastMonth", t) = <<first_of_month(l), l>>
      BY <1>4 DEF range
    <2>2. "LastMonth" \in Presets
      BY DEF Presets
    <2>3. range("LastMonth", t)[2] \in Dates
      BY <2>2, PresetIs
    <2> QED
      BY <2>1, <2>3
  <1>7. FirstDay[y] \in Nat /\ FirstDay[y + 1] \in Nat /\ FirstDay[y] + 28 <= FirstDay[y + 1]
    BY <1>3, FirstDayIs, FirstDaysGrow
  <1>8. FirstDay[y] <= l /\ l < FirstDay[y + 1]
    BY <1>5, <1>7
  <1>9. MonthOf[l] = y
    BY <1>3, <1>6, <1>8, MonthOfIs
  <1>10. first_of_month(l) = FirstDay[y]
    BY <1>6, <1>9, FirstOfMonth
  <1> QED
    BY <1>2, <1>3, <1>5, <1>6, <1>10

(* Weekdays go on by sevens. *)
LEMMA Sevens ==
  ASSUME NEW a \in Nat, NEW i \in Nat
  PROVE  ((a % 7) + i) % 7 = (a + i) % 7
  OBVIOUS

(* The grid of a month: pads up to its first weekday, then its days in order. *)
LEMMA GridIs ==
  ASSUME NEW z \in Months
  PROVE  LET cells == month_cells(FirstDay[z])
         IN  /\ {cells[i] : i \in DOMAIN cells} \ {0} = FirstDay[z] .. FirstDay[z + 1] - 1
             /\ \A i \in DOMAIN cells : cells[i] # 0 => WeekdayOf(cells[i]) = (i - 1) % 7
  <1>0. FirstMonth \in Nat /\ MonthCount \in Nat /\ Weekday \in 0 .. 6
    BY DateRangeAssumption
  <1>1. PICK first : first = FirstDay[z]
    OBVIOUS
  <1>2. PICK n : n = FirstDay[z + 1] - FirstDay[z]
    OBVIOUS
  <1>3. z \in Ends /\ z + 1 \in Ends /\ z < z + 1
    BY <1>0 DEF Months, Ends
  <1>4. first \in Nat /\ first >= 1 /\ n \in Nat /\ FirstDay[z + 1] = first + n
    BY <1>1, <1>2, <1>3, FirstDayIs, FirstDaysGrow
  <1>5. PICK w : w = WeekdayOf(first)
    OBVIOUS
  <1>6. w \in 0 .. 6 /\ w \in Nat /\ w = ((first - 1) + Weekday) % 7
    BY <1>0, <1>4, <1>5 DEF WeekdayOf
  <1>7. PICK pad : pad = [i \in 1 .. w |-> 0]
    OBVIOUS
  <1>8. PICK days : days = [i \in 1 .. n |-> first + i - 1]
    OBVIOUS
  <1>9. month_cells(FirstDay[z]) = pad \o days
    <2>1. first_of_month(FirstDay[z]) = first
      BY <1>1, FirstOfMonth
    <2>2. add_months(first, 1) = FirstDay[z + 1]
      BY <1>1, MonthsAdd
    <2> QED
      BY <1>1, <1>2, <1>5, <1>7, <1>8, <2>1, <2>2 DEF month_cells
  <1>10. pad \in Seq(Int) /\ Len(pad) = w /\ days \in Seq(Int) /\ Len(days) = n
    <2>1. pad \in [1 .. w -> Int]
      BY <1>7
    <2>2. days \in [1 .. n -> Int]
      BY <1>4, <1>8
    <2>3. pad \in Seq(Int) /\ Len(pad) = w
      BY <1>6, <2>1
    <2>4. days \in Seq(Int) /\ Len(days) = n
      BY <1>4, <2>2
    <2> QED
      BY <2>3, <2>4
  <1>11. PICK cells : cells = pad \o days
    OBVIOUS
  <1>12. DOMAIN cells = 1 .. w + n /\ cells \in Seq(Int)
         /\ \A i \in 1 .. w + n : cells[i] = IF i <= w THEN pad[i] ELSE days[i - w]
    <2>1. cells \in Seq(Int) /\ Len(cells) = w + n
          /\ \A i \in 1 .. w + n : cells[i] = IF i <= w THEN pad[i] ELSE days[i - w]
      BY <1>10, <1>11, ConcatProperties
    <2> QED
      BY <2>1
  <1>13. \A i \in 1 .. w + n : cells[i] = IF i <= w THEN 0 ELSE first + (i - w) - 1
    <2> SUFFICES ASSUME NEW i \in 1 .. w + n
                 PROVE  cells[i] = IF i <= w THEN 0 ELSE first + (i - w) - 1
      OBVIOUS
    <2>1. CASE i <= w
      BY <1>6, <1>7, <1>12, <2>1
    <2>2. CASE i > w
      <3>1. i - w \in 1 .. n /\ ~ (i <= w)
        BY <1>4, <1>6, <2>2
      <3> QED
        BY <1>8, <1>12, <3>1
    <2> QED
      BY <1>6, <2>1, <2>2
  <1>14. {cells[i] : i \in DOMAIN cells} \ {0} = FirstDay[z] .. FirstDay[z + 1] - 1
    <2>1. ASSUME NEW i \in 1 .. w + n, cells[i] # 0
          PROVE  cells[i] \in FirstDay[z] .. FirstDay[z + 1] - 1
      BY <1>1, <1>4, <1>6, <1>13, <2>1
    <2>2. ASSUME NEW d \in FirstDay[z] .. FirstDay[z + 1] - 1
          PROVE  d # 0 /\ \E i \in 1 .. w + n : cells[i] = d
      <3>1. PICK i : i = (d - first) + 1 + w
        OBVIOUS
      <3>2. d # 0 /\ i \in 1 .. w + n /\ ~ (i <= w) /\ first + (i - w) - 1 = d
        BY <1>1, <1>4, <1>6, <3>1
      <3> QED
        BY <1>13, <3>2
    <2> QED
      BY <1>12, <2>1, <2>2
  <1>15. ASSUME NEW i \in 1 .. w + n, cells[i] # 0 PROVE WeekdayOf(cells[i]) = (i - 1) % 7
    <2>1. ~ (i <= w) /\ cells[i] = first + (i - w) - 1
      BY <1>13, <1>15
    <2>2. PICK a : a = (first - 1) + Weekday
      OBVIOUS
    <2>3. PICK k : k = (i - w) - 1
      OBVIOUS
    <2>4. a \in Nat /\ k \in Nat /\ w = a % 7 /\ i - 1 = w + k
          /\ cells[i] - 1 + Weekday = a + k
      BY <1>0, <1>4, <1>6, <2>1, <2>2, <2>3
    <2>5. (w + k) % 7 = (a + k) % 7
      BY <2>4, Sevens
    <2> QED
      BY <2>4, <2>5 DEF WeekdayOf
  <1> QED
    BY <1>9, <1>11, <1>12, <1>14, <1>15

(* An instant of a draft: none, or a day of the calendar and a time of day. *)
Instants == [day : Dates, time : TimesOfDay]

(* The state of the filter: what is on view is a month of the calendar, and the
   draft is what the clicks since it was started say. *)
PickerShape(p) ==
  /\ p \in [open : BOOLEAN, today : Todays, view_month : {FirstDay[z] : z \in Months},
            after : {Unset} \cup Instants, before : {Unset} \cup Instants,
            draft_after : {Unset} \cup Instants, draft_before : {Unset} \cup Instants,
            start_time : TimesOfDay, end_time : TimesOfDay, hover_day : {0} \cup Dates,
            clicks : Seq(Dates)]

Drafted(p) ==
  \/ p.clicks = <<>> /\ (p.draft_after = Unset \/ p.draft_before # Unset)
  \/ \E c \in Dates : /\ p.clicks = <<c>>
                      /\ p.draft_after = combine(c, p.start_time) /\ p.draft_before = Unset
  \/ \E c, d \in Dates :
       /\ p.clicks = <<c, d>>
       /\ p.draft_after = combine(IF c < d THEN c ELSE d, p.start_time)
       /\ p.draft_before = combine(IF c < d THEN d ELSE c, p.end_time)

PickerInv == PickerShape(picker) /\ (picker.open => Drafted(picker))

(* A day and a time of day make an instant, and give them back. *)
LEMMA InstantsAre ==
  /\ \A d \in Dates, t \in TimesOfDay : /\ combine(d, t) \in Instants /\ combine(d, t) # Unset
                                        /\ combine(d, t).day = d /\ combine(d, t).time = t
  /\ \A x \in Instants : /\ x.day \in Dates /\ x.time \in TimesOfDay
                         /\ x = combine(x.day, x.time) /\ x # Unset
  /\ Unset.day = 0
  /\ StartOfDay \in TimesOfDay /\ EndOfDay \in TimesOfDay
  <1>1. 0 \notin Dates
    BY DateRangeAssumption, FirstDayIs DEF Dates
  <1>2. ASSUME NEW d \in Dates, NEW t \in TimesOfDay
        PROVE  /\ combine(d, t) \in Instants /\ combine(d, t) # Unset
               /\ combine(d, t).day = d /\ combine(d, t).time = t
    BY <1>1 DEF combine, Instants, Unset
  <1>3. ASSUME NEW x \in Instants
        PROVE  /\ x.day \in Dates /\ x.time \in TimesOfDay
               /\ x = combine(x.day, x.time) /\ x # Unset
    BY <1>1 DEF combine, Instants, Unset
  <1> QED
    BY <1>2, <1>3 DEF Unset, combine, TimesOfDay, StartOfDay, EndOfDay

(* The filter starts closed and unset. *)
LEMMA PickerStarts == PickerInit => PickerInv
  <1> SUFFICES ASSUME PickerInit PROVE PickerInv
    OBVIOUS
  <1>1. PICK t \in Todays :
          picker = [open |-> FALSE, today |-> t, view_month |-> first_of_month(t),
                    after |-> Unset, before |-> Unset, draft_after |-> Unset,
                    draft_before |-> Unset, start_time |-> StartOfDay, end_time |-> EndOfDay,
                    hover_day |-> 0, clicks |-> <<>>]
    BY DEF PickerInit
  <1>2. first_of_month(t) \in {FirstDay[z] : z \in Months}
    BY TodayIs, FirstOfMonth
  <1>3. PICK m : m = first_of_month(t)
    OBVIOUS
  <1>4. PICK u : u = Unset
    OBVIOUS
  <1>5. PickerShape(picker)
    BY <1>1, <1>2, <1>3, <1>4, InstantsAre DEF PickerShape
  <1> QED
    BY <1>1, <1>5 DEF PickerInv

(* The fields of the filter. *)
LEMMA FieldsAre ==
  ASSUME NEW p, PickerShape(p)
  PROVE  /\ p.open \in BOOLEAN /\ p.today \in Todays /\ p.view_month \in {FirstDay[z] : z \in Months}
         /\ p.after \in {Unset} \cup Instants /\ p.before \in {Unset} \cup Instants
         /\ p.draft_after \in {Unset} \cup Instants /\ p.draft_before \in {Unset} \cup Instants
         /\ p.start_time \in TimesOfDay /\ p.end_time \in TimesOfDay
         /\ p.hover_day \in {0} \cup Dates /\ p.clicks \in Seq(Dates)
  BY DEF PickerShape

(* Opening it drafts the filter that is on, as if its start alone had been
   clicked where it has no end. *)
LEMMA OpeningDrafts == PickerInv /\ toggle_open => PickerInv'
  <1> SUFFICES ASSUME PickerInv, toggle_open PROVE PickerInv'
    OBVIOUS
  <1>0. PickerShape(picker)
    BY DEF PickerInv
  <1>1. CASE picker.open
    <2>1. picker' = [picker EXCEPT !.open = FALSE]
      BY <1>1 DEF toggle_open
    <2>2. PickerShape(picker') /\ picker'.open = FALSE
      BY <1>0, <2>1 DEF PickerShape
    <2> QED
      BY <2>2 DEF PickerInv
  <1>2. CASE ~ picker.open
    <2>1. PICK st : st = TimeOr(picker.after, StartOfDay)
      OBVIOUS
    <2>2. PICK et : et = TimeOr(picker.before, EndOfDay)
      OBVIOUS
    <2>3. PICK m : m = first_of_month(IF picker.after = Unset THEN picker.today
                                      ELSE picker.after.day)
      OBVIOUS
    <2>4. PICK c : c = IF picker.after # Unset /\ picker.before = Unset
                       THEN <<picker.after.day>> ELSE <<>>
      OBVIOUS
    <2>5. picker' = [picker EXCEPT !.draft_after = picker.after, !.draft_before = picker.before,
                                   !.start_time = st, !.end_time = et, !.hover_day = 0,
                                   !.view_month = m, !.open = TRUE, !.clicks = c]
      BY <1>2, <2>1, <2>2, <2>3, <2>4 DEF toggle_open
    <2>6. /\ picker.after \in {Unset} \cup Instants /\ picker.before \in {Unset} \cup Instants
          /\ picker.today \in Todays
      BY <1>0, FieldsAre
    <2>7. st \in TimesOfDay /\ et \in TimesOfDay
      BY <2>1, <2>2, <2>6, InstantsAre DEF TimeOr
    <2>8. m \in {FirstDay[z] : z \in Months}
      <3>1. PICK d : d = IF picker.after = Unset THEN picker.today ELSE picker.after.day
        OBVIOUS
      <3>2. d \in Dates
        BY <2>6, <3>1, InstantsAre, TodayIs
      <3> QED
        BY <2>3, <3>1, <3>2, FirstOfMonth
    <2>9. c \in Seq(Dates)
      <3>1. CASE picker.after # Unset /\ picker.before = Unset
        <4>1. picker.after.day \in Dates
          BY <2>6, <3>1, InstantsAre
        <4> QED
          BY <2>4, <3>1, <4>1
      <3>2. CASE ~ (picker.after # Unset /\ picker.before = Unset)
        BY <2>4, <3>2
      <3> QED
        BY <3>1, <3>2
    <2>10. PickerShape(picker')
      BY <1>0, <2>5, <2>6, <2>7, <2>8, <2>9 DEF PickerShape
    <2>11. /\ picker'.draft_after = picker.after /\ picker'.draft_before = picker.before
           /\ picker'.start_time = st /\ picker'.clicks = c
      BY <1>0, <2>5 DEF PickerShape
    <2>12. Drafted(picker')
      <3>1. CASE picker.after # Unset /\ picker.before = Unset
        <4>1. PICK d : d = picker.after.day
          OBVIOUS
        <4>2. d \in Dates /\ picker.after = combine(d, picker.after.time) /\ st = picker.after.time
          BY <2>1, <2>6, <3>1, <4>1, InstantsAre DEF TimeOr
        <4>3. c = <<d>>
          BY <2>4, <3>1, <4>1
        <4> QED
          BY <2>11, <3>1, <4>2, <4>3 DEF Drafted
      <3>2. CASE ~ (picker.after # Unset /\ picker.before = Unset)
        <4>1. c = <<>>
          BY <2>4, <3>2
        <4> QED
          BY <2>11, <3>2, <4>1 DEF Drafted
      <3> QED
        BY <3>1, <3>2
    <2> QED
      BY <2>10, <2>12 DEF PickerInv
  <1> QED
    BY <1>1, <1>2

(* A step that leaves the draft, its times and its clicks alone leaves it drafted. *)
LEMMA DraftStays ==
  ASSUME NEW p, NEW q, Drafted(p),
         q.draft_after = p.draft_after, q.draft_before = p.draft_before,
         q.start_time = p.start_time, q.end_time = p.end_time, q.clicks = p.clicks
  PROVE  Drafted(q)
  BY DEF Drafted

(* Closing it, applied, cleared or left, leaves it in shape. *)
LEMMA ClosingKeeps == PickerInv /\ (OutsideClick \/ apply \/ clear) => PickerInv'
  <1> SUFFICES ASSUME PickerInv, OutsideClick \/ apply \/ clear PROVE PickerInv'
    OBVIOUS
  <1>0. PickerShape(picker)
    BY DEF PickerInv
  <1>1. CASE OutsideClick
    <2>1. PickerShape(picker') /\ picker'.open = FALSE
      BY <1>0, <1>1 DEF PickerShape, OutsideClick
    <2> QED
      BY <2>1 DEF PickerInv
  <1>2. CASE apply
    <2>1. PickerShape(picker') /\ picker'.open = FALSE
      BY <1>0, <1>2 DEF PickerShape, apply
    <2> QED
      BY <2>1 DEF PickerInv
  <1>3. CASE clear
    <2>1. PICK e : e = <<>>
      OBVIOUS
    <2>2. PICK u : u = Unset
      OBVIOUS
    <2>3. PICK st, et : st = StartOfDay /\ et = EndOfDay
      OBVIOUS
    <2>4. e \in Seq(Dates) /\ u \in {Unset} \cup Instants /\ st \in TimesOfDay /\ et \in TimesOfDay
      BY <2>1, <2>2, <2>3, InstantsAre
    <2>5. picker' = [picker EXCEPT !.after = u, !.before = u, !.draft_after = u, !.draft_before = u,
                                   !.start_time = st, !.end_time = et, !.open = FALSE, !.clicks = e]
      BY <1>3, <2>1, <2>2, <2>3 DEF clear
    <2>6. PickerShape(picker') /\ picker'.open = FALSE
      BY <1>0, <2>4, <2>5 DEF PickerShape
    <2> QED
      BY <2>6 DEF PickerInv
  <1> QED
    BY <1>1, <1>2, <1>3

(* A quick range drafts days of the calendar and forgets the clicks. *)
LEMMA PresetKeeps == \A p \in Quick : PickerInv /\ apply_preset(p) => PickerInv'
  <1> SUFFICES ASSUME NEW p \in Quick, PickerInv, apply_preset(p) PROVE PickerInv'
    OBVIOUS
  <1>0. PickerShape(picker) /\ picker.today \in Todays
    BY FieldsAre DEF PickerInv
  <1>1. PICK r : r = range(p, picker.today)
    OBVIOUS
  <1>2. r[1] \in Dates /\ r[2] \in Dates
    BY <1>0, <1>1, PresetIs, DateRangeAssumption
  <1>3. PICK a : a = combine(r[1], StartOfDay)
    OBVIOUS
  <1>4. PICK b : b = combine(r[2], EndOfDay)
    OBVIOUS
  <1>5. PICK m : m = first_of_month(r[1])
    OBVIOUS
  <1>6. a \in Instants /\ b \in Instants /\ b # Unset /\ m \in {FirstDay[z] : z \in Months}
    BY <1>2, <1>3, <1>4, <1>5, InstantsAre, FirstOfMonth
  <1>7. PICK e : e = <<>>
    OBVIOUS
  <1>8. PICK st, et : st = StartOfDay /\ et = EndOfDay
    OBVIOUS
  <1>9. e \in Seq(Dates) /\ st \in TimesOfDay /\ et \in TimesOfDay
    BY <1>7, <1>8, InstantsAre
  <1>10. picker' = [picker EXCEPT !.start_time = st, !.end_time = et, !.draft_after = a,
                                  !.draft_before = b, !.view_month = m, !.clicks = e]
    BY <1>1, <1>3, <1>4, <1>5, <1>7, <1>8 DEF apply_preset
  <1>11. PickerShape(picker') /\ picker'.clicks = e /\ picker'.draft_before = b
    BY <1>0, <1>6, <1>9, <1>10 DEF PickerShape
  <1>12. Drafted(picker')
    BY <1>6, <1>7, <1>11 DEF Drafted
  <1> QED
    BY <1>11, <1>12 DEF PickerInv

(* Moving the mouse and turning the months leaves the draft alone. *)
LEMMA LookingKeeps ==
  ASSUME PickerInv, picker.open, NEW h \in {0} \cup Dates, NEW m \in {FirstDay[z] : z \in Months},
         picker' = [picker EXCEPT !.hover_day = h, !.view_month = m]
  PROVE  PickerInv'
  <1>0. PickerShape(picker) /\ Drafted(picker)
    BY DEF PickerInv
  <1>1. PickerShape(picker')
    BY <1>0 DEF PickerShape
  <1>2. /\ picker'.draft_after = picker.draft_after /\ picker'.draft_before = picker.draft_before
        /\ picker'.start_time = picker.start_time /\ picker'.end_time = picker.end_time
        /\ picker'.clicks = picker.clicks
    BY <1>0 DEF PickerShape
  <1>3. Drafted(picker')
    BY <1>0, <1>2, DraftStays
  <1> QED
    BY <1>1, <1>3 DEF PickerInv

(* A click fills the draft and leaves the rest alone. *)
LEMMA PickedIs ==
  ASSUME NEW p, PickerShape(p), NEW d \in Dates
  PROVE  /\ PickerShape(Picked(p, d))
         /\ Picked(p, d).clicks = p.clicks /\ Picked(p, d).open = p.open
         /\ Picked(p, d).start_time = p.start_time /\ Picked(p, d).end_time = p.end_time
         /\ p.draft_after = Unset \/ p.draft_before # Unset =>
              /\ Picked(p, d).draft_after = combine(d, p.start_time)
              /\ Picked(p, d).draft_before = Unset
         /\ p.draft_after # Unset /\ p.draft_before = Unset =>
              LET c == p.draft_after.day
              IN  /\ Picked(p, d).draft_after = (IF d < c THEN combine(d, p.start_time)
                                                 ELSE p.draft_after)
                  /\ Picked(p, d).draft_before = combine(IF d < c THEN c ELSE d, p.end_time)
  <1>1. /\ p.start_time \in TimesOfDay /\ p.end_time \in TimesOfDay
        /\ p.draft_after \in {Unset} \cup Instants
    BY FieldsAre
  <1>2. CASE p.draft_after = Unset \/ p.draft_before # Unset
    <2>1. PICK a : a = combine(d, p.start_time)
      OBVIOUS
    <2>2. PICK u : u = Unset
      OBVIOUS
    <2>3. a \in Instants
      BY <1>1, <2>1, InstantsAre
    <2>4. Picked(p, d) = [p EXCEPT !.draft_after = a, !.draft_before = u]
      BY <1>2, <2>1, <2>2 DEF Picked
    <2>5. PickerShape(Picked(p, d))
      BY <2>2, <2>3, <2>4 DEF PickerShape
    <2>6. /\ Picked(p, d).clicks = p.clicks /\ Picked(p, d).open = p.open
          /\ Picked(p, d).start_time = p.start_time /\ Picked(p, d).end_time = p.end_time
          /\ Picked(p, d).draft_after = a /\ Picked(p, d).draft_before = u
      BY <2>4 DEF PickerShape
    <2> QED
      BY <1>2, <2>1, <2>2, <2>5, <2>6
  <1>3. CASE ~ (p.draft_after = Unset \/ p.draft_before # Unset)
    <2>1. PICK c : c = p.draft_after.day
      OBVIOUS
    <2>2. c \in Dates
      BY <1>1, <1>3, <2>1, InstantsAre
    <2>3. PICK a : a = IF d < c THEN combine(d, p.start_time) ELSE p.draft_after
      OBVIOUS
    <2>4. PICK b : b = combine(IF d < c THEN c ELSE d, p.end_time)
      OBVIOUS
    <2>5. a \in {Unset} \cup Instants /\ b \in Instants
      BY <1>1, <2>2, <2>3, <2>4, InstantsAre
    <2>6. Picked(p, d) = [p EXCEPT !.draft_after = a, !.draft_before = b]
      <3>1. CASE d < c
        BY <1>3, <2>1, <2>3, <2>4, <3>1 DEF Picked
      <3>2. CASE ~ (d < c)
        <4>1. Picked(p, d) = [p EXCEPT !.draft_before = b]
          BY <1>3, <2>1, <2>4, <3>2 DEF Picked
        <4>2. a = p.draft_after
          BY <2>3, <3>2
        <4> QED
          BY <4>1, <4>2 DEF PickerShape
      <3> QED
        BY <3>1, <3>2
    <2>7. PickerShape(Picked(p, d))
      BY <2>5, <2>6 DEF PickerShape
    <2>8. /\ Picked(p, d).clicks = p.clicks /\ Picked(p, d).open = p.open
          /\ Picked(p, d).start_time = p.start_time /\ Picked(p, d).end_time = p.end_time
          /\ Picked(p, d).draft_after = a /\ Picked(p, d).draft_before = b
      BY <2>6 DEF PickerShape
    <2> QED
      BY <1>3, <2>1, <2>3, <2>4, <2>7, <2>8
  <1> QED
    BY <1>2, <1>3

(* A click goes on with the draft as its clicks say. *)
LEMMA PickKeeps == \A d \in Clickable : PickerInv /\ pick_day(d) => PickerInv'
  <1> SUFFICES ASSUME NEW d \in Clickable, PickerInv, pick_day(d) PROVE PickerInv'
    OBVIOUS
  <1>0. PickerShape(picker) /\ Drafted(picker) /\ d \in Dates
    BY DateRangeAssumption DEF PickerInv, pick_day
  <1>1. PICK q : q = Picked(picker, d)
    OBVIOUS
  <1>2. /\ PickerShape(q) /\ q.clicks = picker.clicks
        /\ q.start_time = picker.start_time /\ q.end_time = picker.end_time
        /\ picker.start_time \in TimesOfDay /\ picker.end_time \in TimesOfDay
        /\ picker.clicks \in Seq(Dates)
    BY <1>0, <1>1, PickedIs, FieldsAre
  <1>3. PICK e : e = IF Len(picker.clicks) = 1 THEN Append(picker.clicks, d) ELSE <<d>>
    OBVIOUS
  <1>4. e \in Seq(Dates)
    BY <1>0, <1>2, <1>3
  <1>5. picker' = [q EXCEPT !.hover_day = d, !.clicks = e]
    BY <1>1, <1>2, <1>3 DEF pick_day
  <1>6. PickerShape(picker')
    BY <1>0, <1>2, <1>4, <1>5 DEF PickerShape
  <1>7. /\ picker'.clicks = e /\ picker'.draft_after = q.draft_after
        /\ picker'.draft_before = q.draft_before
        /\ picker'.start_time = picker.start_time /\ picker'.end_time = picker.end_time
    BY <1>2, <1>5 DEF PickerShape
  <1>8. ASSUME picker.draft_after = Unset \/ picker.draft_before # Unset, Len(picker.clicks) # 1
        PROVE  Drafted(picker')
    <2>1. q.draft_after = combine(d, picker.start_time) /\ q.draft_before = Unset
      BY <1>0, <1>1, <1>8, PickedIs
    <2>2. e = <<d>>
      BY <1>3, <1>8
    <2> QED
      BY <1>0, <1>7, <2>1, <2>2 DEF Drafted
  <1>9. CASE picker.clicks = <<>> /\ (picker.draft_after = Unset \/ picker.draft_before # Unset)
    <2>1. Len(picker.clicks) # 1
      BY <1>9
    <2> QED
      BY <1>6, <1>8, <1>9, <2>1 DEF PickerInv
  <1>10. ASSUME NEW c \in Dates, picker.clicks = <<c>>,
                picker.draft_after = combine(c, picker.start_time), picker.draft_before = Unset
         PROVE  Drafted(picker')
    <2>1. picker.draft_after # Unset /\ picker.draft_after.day = c
      BY <1>2, <1>10, InstantsAre
    <2>2. /\ q.draft_after = (IF d < c THEN combine(d, picker.start_time) ELSE picker.draft_after)
          /\ q.draft_before = combine(IF d < c THEN c ELSE d, picker.end_time)
      BY <1>0, <1>1, <1>10, <2>1, PickedIs
    <2>3. e = <<c, d>>
      <3>1. Len(<<c>>) = 1
        OBVIOUS
      <3>2. e = Append(<<c>>, d)
        BY <1>3, <1>10, <3>1
      <3>3. Append(<<c>>, d) = <<c, d>>
        <4>1. <<c>> \in Seq(Dates) /\ <<c>>[1] = c
          OBVIOUS
        <4>2. PICK s : s = Append(<<c>>, d)
          OBVIOUS
        <4>3. s \in Seq(Dates) /\ Len(s) = 2 /\ s[1] = c /\ s[2] = d
          BY <1>0, <3>1, <4>1, <4>2, AppendProperties
        <4>4. s = <<s[1], s[2]>>
          BY <4>3
        <4> QED
          BY <4>2, <4>3, <4>4
      <3> QED
        BY <3>2, <3>3
    <2>4. c \in Int /\ d \in Int
      BY <1>0, FirstDayIs, DateRangeAssumption DEF Dates
    <2>5. PICK lo : lo = IF c < d THEN c ELSE d
      OBVIOUS
    <2>6. PICK hi : hi = IF c < d THEN d ELSE c
      OBVIOUS
    <2>7. lo = (IF d < c THEN d ELSE c) /\ hi = (IF d < c THEN c ELSE d)
      BY <2>4, <2>5, <2>6
    <2>8. q.draft_after = combine(lo, picker.start_time) /\ q.draft_before = combine(hi, picker.end_time)
      BY <1>10, <2>2, <2>7
    <2> QED
      BY <1>0, <1>7, <2>3, <2>5, <2>6, <2>8 DEF Drafted
  <1>11. ASSUME NEW b \in Dates, NEW c \in Dates, picker.clicks = <<b, c>>,
                picker.draft_before = combine(IF b < c THEN c ELSE b, picker.end_time)
         PROVE  Drafted(picker')
    <2>1. picker.draft_before # Unset
      BY <1>2, <1>11, InstantsAre
    <2>2. Len(picker.clicks) # 1
      BY <1>11
    <2> QED
      BY <1>8, <2>1, <2>2
  <1> QED
    BY <1>0, <1>6, <1>9, <1>10, <1>11 DEF PickerInv, Drafted

(* So do the steps that only look. *)
LEMMA LooksKeep ==
  PickerInv /\ (Leave \/ (\E d \in Clickable : Hover(d)) \/ (\E delta \in {-1, 1} : Turn(delta)))
    => PickerInv'
  <1> SUFFICES ASSUME PickerInv, Leave \/ (\E d \in Clickable : Hover(d))
                                       \/ (\E delta \in {-1, 1} : Turn(delta))
               PROVE  PickerInv'
    OBVIOUS
  <1>0. PickerShape(picker) /\ picker.view_month \in {FirstDay[z] : z \in Months}
        /\ picker.hover_day \in {0} \cup Dates
    BY FieldsAre DEF PickerInv
  <1>1. CASE Leave
    <2>1. picker.open /\ picker' = [picker EXCEPT !.hover_day = 0, !.view_month = picker.view_month]
      BY <1>0, <1>1 DEF Leave, PickerShape
    <2> QED
      BY <1>0, <2>1, LookingKeeps
  <1>2. ASSUME NEW d \in Clickable, Hover(d) PROVE PickerInv'
    <2>1. picker.open /\ picker' = [picker EXCEPT !.hover_day = d, !.view_month = picker.view_month]
      BY <1>0, <1>2 DEF Hover, PickerShape
    <2>2. d \in {0} \cup Dates
      BY DateRangeAssumption
    <2> QED
      BY <1>0, <2>1, <2>2, LookingKeeps
  <1>3. ASSUME NEW delta \in {-1, 1}, Turn(delta) PROVE PickerInv'
    <2>1. PICK z \in Months : picker.view_month = FirstDay[z]
      BY <1>0
    <2>2. MonthOf[picker.view_month] = z
      BY <2>1, FirstOfMonth
    <2>3. z + delta \in Months
      BY <1>3, <2>2, FirstOfMonth, DateRangeAssumption DEF Turn
    <2>4. PICK m : m = add_months(picker.view_month, delta)
      OBVIOUS
    <2>5. m \in {FirstDay[y] : y \in Months}
      BY <2>1, <2>3, <2>4, MonthsAdd
    <2>6. picker.open /\ picker' = [picker EXCEPT !.view_month = m]
      BY <1>3, <2>4 DEF Turn
    <2>7. picker' = [picker EXCEPT !.hover_day = picker.hover_day, !.view_month = m]
      BY <1>0, <2>6 DEF PickerShape
    <2> QED
      BY <1>0, <2>5, <2>6, <2>7, LookingKeeps
  <1> QED
    BY <1>1, <1>2, <1>3

(* A time of day changes the draft's instants, not its days. *)
LEMMA TimesKeep ==
  \A t \in TimesOfDay : PickerInv /\ (apply_start(t) \/ apply_end(t)) => PickerInv'
  <1> SUFFICES ASSUME NEW t \in TimesOfDay, PickerInv, apply_start(t) \/ apply_end(t)
               PROVE  PickerInv'
    OBVIOUS
  <1>0. PickerShape(picker) /\ Drafted(picker)
        /\ picker.draft_after \in {Unset} \cup Instants
        /\ picker.draft_before \in {Unset} \cup Instants
        /\ picker.start_time \in TimesOfDay /\ picker.end_time \in TimesOfDay
    BY FieldsAre DEF PickerInv, apply_start, apply_end
  <1>1. ASSUME NEW x \in {Unset} \cup Instants
        PROVE  LET y == IF x = Unset THEN x ELSE combine(x.day, t)
               IN  y \in {Unset} \cup Instants /\ (y = Unset <=> x = Unset)
    BY <1>1, InstantsAre
  <1>2. CASE apply_start(t)
    <2>1. PICK a : a = IF picker.draft_after = Unset THEN picker.draft_after
                       ELSE combine(picker.draft_after.day, t)
      OBVIOUS
    <2>2. a \in {Unset} \cup Instants /\ (a = Unset <=> picker.draft_after = Unset)
      BY <1>0, <1>1, <2>1
    <2>3. picker' = [picker EXCEPT !.start_time = t, !.draft_after = a]
      BY <1>2, <2>1 DEF apply_start
    <2>4. PickerShape(picker')
      BY <1>0, <2>2, <2>3 DEF PickerShape
    <2>5. /\ picker'.clicks = picker.clicks /\ picker'.draft_after = a /\ picker'.start_time = t
          /\ picker'.draft_before = picker.draft_before /\ picker'.end_time = picker.end_time
      BY <1>0, <2>3 DEF PickerShape
    <2>6. \A d \in Dates : picker.draft_after = combine(d, picker.start_time) => a = combine(d, t)
      BY <1>0, <2>1, InstantsAre
    <2>7. \A c, d \in Dates : (IF c < d THEN c ELSE d) \in Dates
      OBVIOUS
    <2>8. Drafted(picker')
      <3>1. CASE picker.clicks = <<>> /\ (picker.draft_after = Unset \/ picker.draft_before # Unset)
        BY <2>2, <2>5, <3>1 DEF Drafted
      <3>2. CASE \E c \in Dates : /\ picker.clicks = <<c>>
                                  /\ picker.draft_after = combine(c, picker.start_time)
                                  /\ picker.draft_before = Unset
        BY <2>5, <2>6, <3>2 DEF Drafted
      <3>3. ASSUME NEW c \in Dates, NEW d \in Dates, picker.clicks = <<c, d>>,
                   picker.draft_after = combine(IF c < d THEN c ELSE d, picker.start_time),
                   picker.draft_before = combine(IF c < d THEN d ELSE c, picker.end_time)
            PROVE  Drafted(picker')
        <4>1. a = combine(IF c < d THEN c ELSE d, t)
          BY <2>6, <2>7, <3>3
        <4> QED
          BY <2>5, <3>3, <4>1 DEF Drafted
      <3> QED
        BY <1>0, <3>1, <3>2, <3>3 DEF Drafted
    <2> QED
      BY <2>4, <2>8 DEF PickerInv
  <1>3. CASE apply_end(t)
    <2>1. PICK b : b = IF picker.draft_before = Unset THEN picker.draft_before
                       ELSE combine(picker.draft_before.day, t)
      OBVIOUS
    <2>2. b \in {Unset} \cup Instants /\ (b = Unset <=> picker.draft_before = Unset)
      BY <1>0, <1>1, <2>1
    <2>3. picker' = [picker EXCEPT !.end_time = t, !.draft_before = b]
      BY <1>3, <2>1 DEF apply_end
    <2>4. PickerShape(picker')
      BY <1>0, <2>2, <2>3 DEF PickerShape
    <2>5. /\ picker'.clicks = picker.clicks /\ picker'.draft_before = b /\ picker'.end_time = t
          /\ picker'.draft_after = picker.draft_after /\ picker'.start_time = picker.start_time
      BY <1>0, <2>3 DEF PickerShape
    <2>6. \A d \in Dates : picker.draft_before = combine(d, picker.end_time) => b = combine(d, t)
      BY <1>0, <2>1, InstantsAre
    <2>7. \A c, d \in Dates : (IF c < d THEN d ELSE c) \in Dates
      OBVIOUS
    <2>8. Drafted(picker')
      <3>1. CASE picker.clicks = <<>> /\ (picker.draft_after = Unset \/ picker.draft_before # Unset)
        BY <2>2, <2>5, <3>1 DEF Drafted
      <3>2. CASE \E c \in Dates : /\ picker.clicks = <<c>>
                                  /\ picker.draft_after = combine(c, picker.start_time)
                                  /\ picker.draft_before = Unset
        BY <2>2, <2>5, <3>2 DEF Drafted
      <3>3. ASSUME NEW c \in Dates, NEW d \in Dates, picker.clicks = <<c, d>>,
                   picker.draft_after = combine(IF c < d THEN c ELSE d, picker.start_time),
                   picker.draft_before = combine(IF c < d THEN d ELSE c, picker.end_time)
            PROVE  Drafted(picker')
        <4>1. b = combine(IF c < d THEN d ELSE c, t)
          BY <2>6, <2>7, <3>3
        <4> QED
          BY <2>5, <3>3, <4>1 DEF Drafted
      <3> QED
        BY <1>0, <3>1, <3>2, <3>3 DEF Drafted
    <2> QED
      BY <2>4, <2>8 DEF PickerInv
  <1> QED
    BY <1>2, <1>3

(* Every step of the filter keeps its invariant. *)
LEMMA PickerGoesOn == PickerInv /\ PickerNext => PickerInv'
  BY OpeningDrafts, ClosingKeeps, PresetKeeps, PickKeeps, LooksKeep, TimesKeep DEF PickerNext

(* A day of the calendar is not the 0 that stands for none. *)
LEMMA DaysAreNumbers == \A d \in Dates : d \in Nat /\ d # 0
  BY FirstDayIs, DateRangeAssumption DEF Dates

(* The draft is what the clicks say. *)
LEMMA DraftIs == PickerInv => DraftIsClicks
  <1> SUFFICES ASSUME PickerInv, picker.open PROVE DraftIsClicks
    BY DEF DraftIsClicks
  <1>1. Drafted(picker)
    BY DEF PickerInv
  <1>2. CASE picker.clicks = <<>>
    <2>1. Len(picker.clicks) = 0
      BY <1>2
    <2> QED
      BY <2>1 DEF DraftIsClicks
  <1>3. ASSUME NEW c \in Dates, picker.clicks = <<c>>,
               picker.draft_after = combine(c, picker.start_time), picker.draft_before = Unset
        PROVE  DraftIsClicks
    <2>1. Len(picker.clicks) = 1 /\ picker.clicks[1] = c
      BY <1>3
    <2> QED
      BY <1>3, <2>1 DEF DraftIsClicks
  <1>4. ASSUME NEW c \in Dates, NEW d \in Dates, picker.clicks = <<c, d>>,
               picker.draft_after = combine(IF c < d THEN c ELSE d, picker.start_time),
               picker.draft_before = combine(IF c < d THEN d ELSE c, picker.end_time)
        PROVE  DraftIsClicks
    <2>1. Len(picker.clicks) = 2 /\ picker.clicks[1] = c /\ picker.clicks[2] = d
      BY <1>4
    <2>2. PICK lo : lo = IF c < d THEN c ELSE d
      OBVIOUS
    <2>3. c + d - lo = IF c < d THEN d ELSE c
      BY <2>2, DaysAreNumbers
    <2> QED
      BY <1>4, <2>1, <2>2, <2>3 DEF DraftIsClicks
  <1> QED
    BY <1>1, <1>2, <1>3, <1>4 DEF Drafted

(* What is painted is what a click would select. *)
LEMMA PreviewIs == PickerInv => PreviewIsPick
  <1> SUFFICES ASSUME PickerInv, picker.open, Len(picker.clicks) = 1, picker.hover_day # 0
               PROVE  PreviewIsPick
    BY DEF PreviewIsPick
  <1>0. PickerShape(picker) /\ Drafted(picker)
    BY DEF PickerInv
  <1>1. PICK c \in Dates : /\ picker.draft_after = combine(c, picker.start_time)
                           /\ picker.draft_before = Unset
    <2>1. picker.clicks # <<>>
      <3>1. picker.clicks = <<>> => Len(picker.clicks) = 0
        OBVIOUS
      <3> QED
        BY <3>1
    <2>2. \A b, d \in Dates : picker.clicks # <<b, d>>
      <3> SUFFICES ASSUME NEW b \in Dates, NEW d \in Dates, picker.clicks = <<b, d>> PROVE FALSE
        OBVIOUS
      <3>1. Len(<<b, d>>) = 2
        OBVIOUS
      <3> QED
        BY <3>1
    <2> QED
      BY <1>0, <2>1, <2>2 DEF Drafted
  <1>2. PICK h : h = picker.hover_day
    OBVIOUS
  <1>3. h \in Dates /\ picker.start_time \in TimesOfDay /\ picker.end_time \in TimesOfDay
    BY <1>0, <1>2, FieldsAre
  <1>4. picker.draft_after # Unset /\ picker.draft_after.day = c /\ picker.draft_before.day = 0
    BY <1>1, <1>3, InstantsAre
  <1>5. c \in Nat /\ c # 0 /\ h \in Nat /\ h # 0
    BY <1>3, DaysAreNumbers
  <1>6. PICK q : q = Picked(picker, h)
    OBVIOUS
  <1>7. /\ q.draft_after = (IF h < c THEN combine(h, picker.start_time) ELSE picker.draft_after)
        /\ q.draft_before = combine(IF h < c THEN c ELSE h, picker.end_time)
    BY <1>0, <1>1, <1>3, <1>4, <1>6, PickedIs
  <1>8. /\ q.draft_after.day = (IF h < c THEN h ELSE c)
        /\ q.draft_before.day = (IF h < c THEN c ELSE h)
    BY <1>3, <1>4, <1>7, InstantsAre
  <1>9. ASSUME NEW d \in Clickable
        PROVE  day_highlight(d, picker.draft_after, picker.draft_before, h) # "None"
                 <=> q.draft_after.day <= d /\ d <= q.draft_before.day
    <2>1. d \in Nat
      BY DaysAreNumbers, DateRangeAssumption
    <2>2. PICK lo : lo = IF h >= c THEN c ELSE h
      OBVIOUS
    <2>3. PICK hi : hi = IF h >= c THEN h ELSE c
      OBVIOUS
    <2>4. day_highlight(d, picker.draft_after, picker.draft_before, h)
            = IF lo = hi THEN (IF d = lo THEN "Only" ELSE "None")
              ELSE IF d = lo THEN "Start"
              ELSE IF d = hi THEN "End"
              ELSE IF d > lo /\ d < hi THEN "Span" ELSE "None"
      BY <1>4, <1>5, <2>2, <2>3 DEF day_highlight
    <2>5. lo \in Nat /\ hi \in Nat /\ lo <= hi /\ q.draft_after.day = lo /\ q.draft_before.day = hi
      BY <1>5, <1>8, <2>2, <2>3
    <2>6. day_highlight(d, picker.draft_after, picker.draft_before, h) # "None"
            <=> lo <= d /\ d <= hi
      BY <2>1, <2>4, <2>5
    <2> QED
      BY <2>5, <2>6
  <1>10. {d \in Clickable : day_highlight(d, picker.draft_after, picker.draft_before, h) # "None"}
         = {d \in Clickable : q.draft_after.day <= d /\ d <= q.draft_before.day}
    BY <1>9
  <1> QED
    BY <1>2, <1>6, <1>10 DEF PreviewIsPick

(* Quick ranges and grid agree with the calendar. *)
LEMMA CalendarIs == PickerInv => CalendarIsRight
  <1> SUFFICES ASSUME PickerInv PROVE CalendarIsRight
    OBVIOUS
  <1>1. picker.today \in Todays /\ picker.view_month \in {FirstDay[z] : z \in Months}
    BY FieldsAre DEF PickerInv
  <1>2. PICK t : t = picker.today
    OBVIOUS
  <1>3. PICK z \in Months : picker.view_month = FirstDay[z]
    BY <1>1
  <1>4. PICK y : y = MonthOf[t]
    OBVIOUS
  <1>5. t \in Todays /\ t \in Dates /\ y \in Months /\ y - 1 \in Months /\ t - 6 \in Dates /\ t \in Nat
    BY <1>1, <1>2, <1>4, TodayIs, DaysAreNumbers
  <1>6. FirstMonth \in Nat /\ MonthCount \in Nat
    BY DateRangeAssumption
  <1>7. (y - 1) + 1 = y /\ y \in Ends /\ y + 1 \in Ends /\ y \in Int
    BY <1>5, <1>6 DEF Months, Ends
  <1>8. FirstDay[y] \in Nat /\ FirstDay[y + 1] \in Nat
    BY <1>7, FirstDayIs
  <1>9. FirstDay[y] <= t /\ t < FirstDay[y + 1]
    BY <1>4, <1>5, MonthOfIs
  <1>10. range("LastMonth", t)[1] .. range("LastMonth", t)[2] = FirstDay[y - 1] .. FirstDay[(y - 1) + 1] - 1
    BY <1>4, <1>5, <1>7, LastMonthIs
  <1>11. range("ThisMonth", t)[1] .. range("ThisMonth", t)[2]
         = {d \in FirstDay[y] .. FirstDay[y + 1] - 1 : d <= t}
    <2>1. range("ThisMonth", t) = <<first_of_month(t), t>>
      BY DEF range
    <2>2. first_of_month(t) = FirstDay[y]
      BY <1>4, <1>5, FirstOfMonth
    <2>3. FirstDay[y] .. t = {d \in FirstDay[y] .. FirstDay[y + 1] - 1 : d <= t}
      BY <1>5, <1>8, <1>9
    <2> QED
      BY <2>1, <2>2, <2>3
  <1>12. /\ range("Today", t)[1] .. range("Today", t)[2] = {t}
         /\ range("Last2Days", t)[1] .. range("Last2Days", t)[2] = {t - 1, t}
         /\ range("Last7Days", t)[1] .. range("Last7Days", t)[2]
            = {d \in Dates : d <= t /\ t - d < 7}
    <2>1. /\ range("Today", t) = <<t, t>> /\ range("Last2Days", t) = <<t - 1, t>>
          /\ range("Last7Days", t) = <<t - 6, t>>
      BY DEF range
    <2>2. t .. t = {t} /\ (t - 1) .. t = {t - 1, t}
      BY <1>5
    <2>3. FirstDay[FirstMonth + MonthCount] \in Nat
      BY <1>6, FirstDayIs DEF Ends
    <2>4. (t - 6) .. t = {d \in Dates : d <= t /\ t - d < 7}
      BY <1>5, <2>3 DEF Dates
    <2> QED
      BY <2>1, <2>2, <2>4
  <1>13. MonthOf[picker.view_month] = z
    BY <1>3, FirstOfMonth
  <1>14. PICK cells : cells = month_cells(picker.view_month)
    OBVIOUS
  <1>15. /\ {cells[i] : i \in DOMAIN cells} \ {0} = FirstDay[z] .. FirstDay[z + 1] - 1
         /\ \A i \in DOMAIN cells : cells[i] # 0 => WeekdayOf(cells[i]) = (i - 1) % 7
    BY <1>3, <1>14, GridIs
  <1> QED
    BY <1>2, <1>4, <1>10, <1>11, <1>12, <1>13, <1>14, <1>15 DEF CalendarIsRight

(* Two clicks draft the days between them whichever came first, what the grid
   paints under the mouse is what a click would select, and quick ranges and the
   grid agree with the calendar: pick_day, day_highlight, DatePreset::range and
   month_cells, in any months and leap years. *)
THEOREM DatesAreRight == AlgorithmsSpec => []DatesRight
  <1> DEFINE Inv == focus = "dates" => PickerInv
  <1>1. AlgorithmsInit => Inv
    BY PickerStarts DEF AlgorithmsInit
  <1>2. Inv /\ [AlgorithmsNext]_algorithmVars => Inv'
    <2> SUFFICES ASSUME Inv, [AlgorithmsNext]_algorithmVars, focus' = "dates" PROVE PickerInv'
      OBVIOUS
    <2>1. focus = "dates" /\ PickerInv
      BY DEF AlgorithmsNext, algorithmVars
    <2>2. CASE PickerNext
      BY <2>1, <2>2, PickerGoesOn
    <2>3. CASE picker' = picker
      BY <2>1, <2>3 DEF PickerInv, PickerShape, Drafted
    <2> QED
      BY <2>1, <2>2, <2>3 DEF AlgorithmsNext, algorithmVars
  <1>3. Inv => DatesRight
    BY DraftIs, PreviewIs, CalendarIs DEF DatesRight
  <1> QED
    BY <1>1, <1>2, <1>3, PTL DEF AlgorithmsSpec
=============================================================================
