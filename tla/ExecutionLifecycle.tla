------------------------- MODULE ExecutionLifecycle -------------------------
(***************************************************************************)
(* What the execution table promises to its readers (API, dashboard, the   *)
(* job's target), without workers, transactions, locks or time: an         *)
(* execution is submitted, delivered any number of times while it is open, *)
(* settled one counted attempt at a time, or cancelled before its first    *)
(* attempt is counted.  It succeeds only if the target accepted it, and    *)
(* nothing happens to it once it has settled.                              *)
(***************************************************************************)
EXTENDS Naturals

CONSTANT Execs

VARIABLES status, attempt_count, delivered, accepted

lifecycleVars == <<status, attempt_count, delivered, accepted>>

Waiting  == {"PENDING", "QUEUED"}
Live     == Waiting \cup {"RETRYING"}

Init ==
  /\ status = [e \in Execs |-> "NONE"]
  /\ attempt_count = [e \in Execs |-> 0]
  /\ delivered = [e \in Execs |-> 0]
  /\ accepted = [e \in Execs |-> 0]

Submit(e) ==
  /\ status[e] = "NONE"
  /\ \E s \in Waiting : status' = [status EXCEPT ![e] = s]
  /\ UNCHANGED <<attempt_count, delivered, accepted>>

Deliver(e) ==
  /\ status[e] \in Live
  /\ delivered' = [delivered EXCEPT ![e] = delivered[e] + 1]
  /\ \/ accepted' = [accepted EXCEPT ![e] = accepted[e] + 1]
     \/ UNCHANGED accepted
  /\ UNCHANGED <<status, attempt_count>>

Settle(e) ==
  /\ status[e] \in Live
  /\ \E s \in {"RETRYING", "SUCCESS", "FAILED"} :
       /\ s = "SUCCESS" => accepted[e] > 0
       /\ status' = [status EXCEPT ![e] = s]
  /\ attempt_count' = [attempt_count EXCEPT ![e] = attempt_count[e] + 1]
  /\ UNCHANGED <<delivered, accepted>>

Cancel(e) ==
  /\ status[e] \in Waiting
  /\ status' = [status EXCEPT ![e] = "CANCELLED"]
  /\ UNCHANGED <<attempt_count, delivered, accepted>>

Next == \E e \in Execs : Submit(e) \/ Deliver(e) \/ Settle(e) \/ Cancel(e)

Spec == Init /\ [][Next]_lifecycleVars
=============================================================================
