------------------------------ MODULE MCLoops -------------------------------
(***************************************************************************)
(* The loop over the steps of a run and the loop over the tasks of its     *)
(* build step, one after the other: part says which of them this behaviour *)
(* is about, and the variables of the other keep their first values.       *)
(*   tasks  TaskLoop: two tasks that share two files                       *)
(*   steps  StepLoop: two steps, as a build and its tests; a failure goes  *)
(*          back to the step itself or to any step before it               *)
(***************************************************************************)
EXTENDS TaskLoop, StepLoop

CONSTANTS f, g

InOrder == [t \in 1..NumTasks |-> t]
AnyEarlier == [k \in 1..NumSteps |-> 1..k]

VARIABLE part

allVars == <<part, taskVars, vars>>

ASSUME Assumptions

-----------------------------------------------------------------------------
AllInit == part \in {"tasks", "steps"} /\ TaskInit /\ Init

AllNext ==
  /\ UNCHANGED part
  /\ \/ part = "tasks" /\ TaskNext /\ UNCHANGED vars
     \/ part = "steps" /\ Next /\ UNCHANGED taskVars

\* The fairness of StepLoop; nothing of TaskLoop needs one.
AllSpec ==
  /\ AllInit /\ [][AllNext]_allVars
  /\ WF_vars(part = "steps" /\ Loop)
  /\ WF_vars(part = "steps" /\ MonitorFails)

-----------------------------------------------------------------------------
(* EarlierTasksKept and CheckpointsRestorable are TaskLoop's; the others   *)
(* are StepLoop's.                                                         *)

\* Every variable has its type.
PartsTypeOK == TaskTypeOK /\ TypeOK

\* Whatever fails, and wherever the failures send it back to, the loop ends.
StepsEnd == part = "steps" => LoopEnds
=============================================================================
