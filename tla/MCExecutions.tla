---------------------------- MODULE MCExecutions ----------------------------
(***************************************************************************)
(* The requests that create jobs, and the pipeline that runs what they     *)
(* queue, side by side in one model.  The step from one to the other is an *)
(* INSERT of the same transaction, so they share no state here: stage says *)
(* which of them runs, and StagesInit picks it.                            *)
(***************************************************************************)
EXTENDS JobCreate, Executions

VARIABLE stage

StagesInit == stage \in {"create", "run"} /\ CreateInit /\ Init

\* A handler that has answered waits for nothing.
AllAnswered ==
  /\ \A r \in Requests : post[r].phase = "done"
  /\ \A d \in Deletes : del[d].phase = "done"

StagesNext ==
  \/ /\ stage = "create"
     /\ CreateNext \/ (AllAnswered /\ UNCHANGED createVars)
     /\ UNCHANGED <<stage, vars>>
  \/ stage = "run" /\ Next /\ UNCHANGED <<stage, createVars>>

StagesSpec ==
  /\ StagesInit /\ [][StagesNext]_<<stage, createVars, vars>>
  /\ CreateFairness
  /\ WF_vars(stage = "run" /\ Tick)
  /\ \A t \in Tasks : WF_vars(stage = "run" /\ Pipeline(t))
=============================================================================
