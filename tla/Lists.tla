-------------------------------- MODULE Lists --------------------------------
(***************************************************************************)
(* A client pages through a list while rows come and go: the handlers and  *)
(* queries behind GET /v1/configs and its kind, ordered by name, and GET   *)
(* /v1/jobs, ordered by creation time and id, newest first.                *)
(***************************************************************************)
EXTENDS Integers, Sequences, FiniteSets, SequencesExt

CONSTANTS
  Ids,            \* names, or job ids: naturals from 1
  Times,          \* bound: creation times, naturals
  Limits          \* the page sizes a client asks for

ASSUME ListsAssumption ==
  /\ Ids \subseteq Nat \ {0} /\ IsFiniteSet(Ids)
  /\ Times \subseteq Nat /\ Limits \subseteq Int

VARIABLES
  order,          \* which list: "name" or "created"
  rows,           \* rows[i]: its creation time, or Absent
  walk            \* the client's walk

Absent == -1
Present == {i \in Ids : rows[i] # Absent}
NoCursor == 0

\* Before(i, j): i comes before j in the list.
Before(i, j) ==
  IF order = "name" THEN i < j
  ELSE \/ rows[i] > rows[j]
       \/ rows[i] = rows[j] /\ i > j

\* Mutant: the comparison looks at the creation time only.
After_timeOnly(cursor) ==
  {i \in Present : cursor = NoCursor \/ (IF order = "name" THEN cursor < i
                                         ELSE rows[cursor] > rows[i])}

\* name > cursor, or (created_at, job_id) < those of the cursor's job; a job
\* is never deleted.
After(cursor) == {i \in Present : cursor = NoCursor \/ Before(cursor, i)}

effective_limit(limit) == IF limit < 1 THEN 1 ELSE IF limit > 200 THEN 200 ELSE limit

\* ORDER BY: the rows, each of them once, in the order of the list.
Ordered(S) ==
  CHOOSE s \in [1 .. Cardinality(S) -> S] :
    /\ \A i, j \in 1 .. Cardinality(S) : i < j => Before(s[i], s[j])
    /\ \A x \in S : \E i \in 1 .. Cardinality(S) : s[i] = x

\* The query fetches one row more than the page to know whether there is a
\* next one.
Page(cursor, limit) ==
  LET rest == Ordered(After(cursor))
      n == effective_limit(limit)
      page == SubSeq(rest, 1, IF Len(rest) < n THEN Len(rest) ELSE n)
  IN  [data |-> page, cursor |-> IF Len(rest) > n THEN page[n] ELSE NoCursor]

-----------------------------------------------------------------------------
\* Each limit is asked for once per walk; stayed is history, the rows there
\* all along.
ListsInit ==
  /\ order \in {"name", "created"}
  /\ rows \in [Ids -> Times \cup {Absent}]
  /\ \E l \in Limits :
       walk = [limit |-> l, cursor |-> NoCursor, got |-> <<>>, done |-> FALSE,
               stayed |-> Present]

NextPage ==
  LET p == Page(walk.cursor, walk.limit) IN
  /\ ~walk.done
  /\ walk' = [walk EXCEPT !.got = @ \o p.data, !.cursor = p.cursor,
                          !.done = p.cursor = NoCursor]
  /\ UNCHANGED <<order, rows>>

\* A job is created now, at the latest time so far or later.
Insert(i, time) ==
  /\ ~walk.done /\ i \notin Present
  /\ order = "created" => \A j \in Present : rows[j] <= time
  /\ rows' = [rows EXCEPT ![i] = time]
  /\ UNCHANGED <<order, walk>>

\* Configs and their kind can be deleted.
Delete(i) ==
  /\ ~walk.done /\ order = "name" /\ i \in Present
  /\ rows' = [rows EXCEPT ![i] = Absent]
  /\ walk' = [walk EXCEPT !.stayed = @ \ {i}]
  /\ UNCHANGED order

ListsNext ==
  \/ NextPage
  \/ \E i \in Ids : Delete(i) \/ \E time \in Times : Insert(i, time)

-----------------------------------------------------------------------------
\* "stable, consistent results even as new records are inserted": a finished
\* walk has every row that was there all along, no row twice (unless it was
\* deleted and made anew), and in the order of the list.
WalkIsComplete ==
  /\ \A i, j \in 1 .. Len(walk.got) : i < j => walk.got[i] # walk.got[j]
  /\ order = "name" => \A i, j \in 1 .. Len(walk.got) : i < j => walk.got[i] < walk.got[j]
  /\ walk.done => walk.stayed \subseteq ToSet(walk.got)
=============================================================================
