------------------------------- MODULE StepLoop --------------------------------
(***************************************************************************)
(* The loop of executor.execute over the steps of a run: attempts and      *)
(* their idempotency keys, retry budgets and retry targets, checkpoints,   *)
(* and where the loop starts again after a restart or a request.           *)
(*                                                                         *)
(*   app/workflow_runtime/executor.py       the loop, _recover_failed_step *)
(*   app/workflow_runtime/run_lease.py      attempts                       *)
(*   app/workflow_runtime/retry_policy.py   where a failure goes back to   *)
(*   app/stores/step_store.py               resets and counters            *)
(*   app/services/workflow_service.py       retry, resume, answers         *)
(*                                                                         *)
(* One controller at a time executes the run: RunController and RunLease   *)
(* are about several. The loop never really waits between two of its store *)
(* mutations, but a crash can fall between any two, so each one whose loss *)
(* makes a difference is an action.                                        *)
(***************************************************************************)
EXTENDS Integers, FiniteSets

CONSTANTS
  NumSteps,       \* the steps of the workflow, 1..NumSteps in their order
  RetryTarget,    \* retry_target_for_failure: of each step, for its failures
  MaxRetries,     \* retryPolicy.maxRetries
  MaxCheckpoints, \* the step checkpoints the record keeps: 100
  TaskSteps,      \* the steps whose action makes task checkpoints
  MaxRestarts,    \* bound: crashes of the controller
  MaxRequests,    \* bound: retries, resumes and answers of the user
  MaxNumber,      \* bound: checkpoints of each kind
  SamePid,        \* does a restarted controller get its old process id back?
  RetryInOrder    \* does the user retry only steps all others before passed?

Assumptions ==
  /\ NumSteps \in Nat \ {0}
  /\ RetryTarget \in [1..NumSteps -> SUBSET (1..NumSteps)]
  /\ TaskSteps \subseteq 1..NumSteps
  /\ {MaxRetries, MaxRestarts, MaxRequests} \subseteq Nat
  /\ {MaxNumber, MaxCheckpoints} \subseteq Nat \ {0}
  /\ {SamePid, RetryInOrder} \subseteq BOOLEAN

VARIABLES
  \* the run record
  status,      \* of the run
  reason,      \* why it failed
  recoverable, \* restart_recoverable, with its recovery
  st,          \* the status of each step
  retries,     \* retry_count of each step
  streak,      \* retry_streaks
  ckpt,        \* last_checkpoint_id
  taskCkpt,    \* last_task_checkpoint_id
  attempts,    \* attempts: from idempotency key to [status, owner]
  \* the controller
  me,          \* its owner id
  pc, idx, key,
  base,        \* retry_count of each step as it was when execute started
  \* bounds and history
  requests, restarts,
  owed,        \* the steps that have not passed since they were asked for
  failures     \* of each step in a row, since it passed

store == <<status, reason, recoverable, st, retries, streak, ckpt, taskCkpt>>
loop  == <<me, pc, idx, key, base>>
vars  == <<store, attempts, loop, requests, restarts, owed, failures>>

Step == 1..NumSteps
RunStatus  == {"active", "waiting_input", "failed", "done"}
StepStatus == {"pending", "running", "passed", "failed", "waiting_input"}
Reason == {"none", "interrupted", "budget", "other"}

Baseline == <<"baseline", 0, 0>>
NoTask   == <<"none", 0, 0>>
CkptId == {"baseline", "none", "step", "task"} \X (0..NumSteps) \X (0..MaxNumber)
NoKey == <<0, 0, Baseline>>

From(i) == {k \in Step : k >= i}
\* reset_from, as far as the steps go
ResetFrom(i) == [k \in Step |-> IF k >= i THEN "pending" ELSE st[k]]

-----------------------------------------------------------------------------
(* Attempts.                                                               *)

\* Mutant: the key does not tell two executions of a step apart.
MutAttemptKey(k) == <<k, base[k], Baseline>>

\* attempt_idempotency_key. The task checkpoint wins; the retry_count is the
\* one the loop read when it started.
AttemptKey(k) == <<k, base[k] + streak[k],
                   IF taskCkpt # NoTask THEN taskCkpt ELSE ckpt>>

Attempt(x) == IF x \in DOMAIN attempts THEN attempts[x]
              ELSE [status |-> "none", owner |-> 0]
Write(x, s) ==
  attempts' = [y \in DOMAIN attempts \cup {x} |->
                 IF y = x THEN [status |-> s, owner |-> me] ELSE attempts[y]]

\* Mutant: the loop goes round again before it has gone on to the next step.
MutSkipDuplicate ==
  /\ pc = "loop" /\ idx <= NumSteps
  /\ Attempt(AttemptKey(idx)).status = "completed"
  /\ UNCHANGED vars

\* begin_attempt for the step at idx: a completed attempt is skipped, one that
\* another controller left running makes execute return, any other one goes
\* on and the step is executed.
SkipDuplicate ==
  LET x == AttemptKey(idx) IN
  /\ pc = "loop" /\ idx <= NumSteps
  /\ Attempt(x).status = "completed"
  /\ idx' = idx + 1
  /\ UNCHANGED <<store, attempts, me, pc, key, base, requests, restarts, owed,
                 failures>>

RefuseDuplicate ==
  LET x == AttemptKey(idx) IN
  /\ pc = "loop" /\ idx <= NumSteps
  /\ Attempt(x).status = "running" /\ Attempt(x).owner # me
  /\ pc' = "refused"
  /\ UNCHANGED <<store, attempts, me, idx, key, base, requests, restarts, owed,
                 failures>>

BeginAttempt ==
  LET x == AttemptKey(idx) IN
  /\ pc = "loop" /\ idx <= NumSteps
  /\ Attempt(x).status # "completed"
  /\ Attempt(x).status = "running" => Attempt(x).owner = me
  /\ Write(x, "running")
  /\ key' = x
  /\ st' = [st EXCEPT ![idx] = "running"]
  /\ pc' = "acting"
  /\ UNCHANGED <<status, reason, recoverable, retries, streak, ckpt, taskCkpt,
                 me, idx, base, requests, restarts, owed, failures>>

-----------------------------------------------------------------------------
(* The end of a step.                                                      *)

\* set_step(key, "passed")
StepPasses ==
  /\ pc = "acting"
  /\ st' = [st EXCEPT ![idx] = "passed"]
  /\ pc' = "passed"
  /\ owed' = owed \ {idx}
  /\ UNCHANGED <<status, reason, recoverable, retries, streak, ckpt, taskCkpt,
                 attempts, me, idx, key, base, requests, restarts, failures>>

\* The list of step checkpoints is cut to its last MaxCheckpoints, and the
\* number in an id is the length of that list plus one.
NextCkpt(k) ==
  <<"step", k, IF ckpt[3] < MaxCheckpoints + 1 THEN ckpt[3] + 1 ELSE ckpt[3]>>

\* clear_guard: the streak, the checkpoint of the step, and the task checkpoint
\* its action may have made.
SaveCheckpoint ==
  /\ pc = "passed"
  /\ NextCkpt(idx)[3] <= MaxNumber
  /\ streak' = [streak EXCEPT ![idx] = 0]
  /\ ckpt' = NextCkpt(idx)
  /\ \/ UNCHANGED taskCkpt
     \/ /\ idx \in TaskSteps /\ taskCkpt[3] < MaxNumber
        /\ taskCkpt' = <<"task", idx, taskCkpt[3] + 1>>
  /\ failures' = [failures EXCEPT ![idx] = 0]
  /\ pc' = "saved"
  /\ UNCHANGED <<status, reason, recoverable, st, retries, attempts, me, idx,
                 key, base, requests, restarts, owed>>

\* finish_attempt(status="completed")
FinishAttempt ==
  /\ pc = "saved"
  /\ Write(key, "completed")
  /\ idx' = idx + 1 /\ pc' = "loop"
  /\ UNCHANGED <<store, me, key, base, requests, restarts, owed,
                 failures>>

\* set_step(key, "failed") and finish_attempt(status="failed")
StepFails ==
  /\ pc = "acting"
  /\ st' = [st EXCEPT ![idx] = "failed"]
  /\ Write(key, "failed")
  /\ failures' = [failures EXCEPT ![idx] = @ + 1]
  /\ pc' = "failing"
  /\ UNCHANGED <<status, reason, recoverable, retries, streak, ckpt, taskCkpt,
                 me, idx, key, base, requests, restarts, owed>>

\* UserInputRequired
StepAsks ==
  /\ pc = "acting"
  /\ st' = [st EXCEPT ![idx] = "waiting_input"]
  /\ Write(key, "waiting_input")
  /\ status' = "waiting_input"
  /\ pc' = "down"
  /\ UNCHANGED <<reason, recoverable, retries, streak, ckpt, taskCkpt,
                 me, idx, key, base, requests, restarts, owed, failures>>

\* Mutant: one retry more than the policy grants.
MutRecover ==
  /\ pc = "failing" /\ streak[idx] <= MaxRetries
  /\ streak' = [streak EXCEPT ![idx] = @ + 1]
  /\ retries' = [retries EXCEPT ![idx] = @ + 1]
  /\ \E i \in RetryTarget[idx] :
       /\ st' = ResetFrom(i)
       /\ owed' = owed \cup From(i)
       /\ idx' = i
  /\ pc' = "loop"
  /\ UNCHANGED <<status, reason, recoverable, ckpt, taskCkpt, attempts, me, key,
                 base, requests, restarts, failures>>

\* _recover_failed_step goes back to the retry target. Its mutations write
\* different fields, and a crash between two of them is one before or after.
Recover ==
  /\ pc = "failing" /\ streak[idx] < MaxRetries
  /\ streak' = [streak EXCEPT ![idx] = @ + 1]
  /\ retries' = [retries EXCEPT ![idx] = @ + 1]
  /\ \E i \in RetryTarget[idx] :
       /\ st' = ResetFrom(i)
       /\ owed' = owed \cup From(i)
       /\ idx' = i
  /\ pc' = "loop"
  /\ UNCHANGED <<status, reason, recoverable, ckpt, taskCkpt, attempts, me, key,
                 base, requests, restarts, failures>>

Fail(why) ==
  /\ status' = "failed" /\ reason' = why
  /\ pc' = "down"
  /\ UNCHANGED <<recoverable, st, retries, streak, ckpt, taskCkpt, attempts, me,
                 idx, key, base, requests, restarts, owed, failures>>

\* Mutant: the budget is that of all retries of the step, not of those in a row.
MutGiveUp ==
  /\ pc = "failing"
  /\ \/ RetryTarget[idx] # {} /\ retries[idx] >= MaxRetries /\ Fail("budget")
     \/ Fail("other")

\* It gives up: no retry target, the budget, or the retry guard.
GiveUp ==
  /\ pc = "failing"
  /\ \/ RetryTarget[idx] # {} /\ streak[idx] >= MaxRetries /\ Fail("budget")
     \/ Fail("other")

\* _mark_done: the completion gate asks for evidence and for no step that
\* failed or waits. It does not ask whether one is pending.
Complete ==
  /\ pc = "loop" /\ idx > NumSteps
  /\ \/ /\ \A k \in Step : st[k] \notin {"failed", "waiting_input"}
        /\ status' = "done" /\ reason' = "none"
        /\ pc' = "down"
        /\ UNCHANGED <<recoverable, st, retries, streak, ckpt, taskCkpt,
                       attempts, me, idx, key, base, requests, restarts, owed,
                       failures>>
     \/ Fail("other")

-----------------------------------------------------------------------------
(* Restarts and requests.                                                  *)

\* A controller that was refused leaves an active run without a task. The
\* monitor fails it when its lease has run out.
MonitorFails ==
  /\ pc = "refused"
  /\ status' = "failed" /\ reason' = "other"
  /\ recoverable' = TRUE
  /\ pc' = "down"
  /\ UNCHANGED <<st, retries, streak, ckpt, taskCkpt, attempts, me, idx, key,
                 base, requests, restarts, owed, failures>>

\* The controller crashes, and the next one marks the run interrupted.
Restart ==
  /\ restarts < MaxRestarts
  /\ status \in {"active", "waiting_input"}
  /\ restarts' = restarts + 1
  /\ me' = IF SamePid THEN me ELSE me + 1
  /\ status' = "failed" /\ reason' = "interrupted"
  /\ recoverable' = TRUE
  /\ st' = [k \in Step |-> IF st[k] = "running" THEN "failed" ELSE st[k]]
  /\ pc' = "down"
  /\ UNCHANGED <<retries, streak, ckpt, taskCkpt, attempts, idx, key, base,
                 requests, owed, failures>>

First(S) == CHOOSE k \in S : \A j \in S : k <= j
FirstOr(S, default) == IF S = {} THEN default ELSE First(S)

\* build_restart_recovery and resume_run: the first step that has not passed,
\* the last one when all have.
ResumeIndex == FirstOr({k \in Step : st[k] # "passed"}, NumSteps)

\* reset_steps_from, and a new execute that reads the retry counts
StartFrom(i, counts) ==
  /\ st' = ResetFrom(i)
  /\ retries' = counts /\ base' = counts
  /\ status' = "active" /\ reason' = "none"
  /\ idx' = i /\ pc' = "loop"
  /\ UNCHANGED <<streak, ckpt, taskCkpt, attempts, me, key>>

Request ==
  /\ pc = "down"
  /\ requests < MaxRequests
  /\ requests' = requests + 1

\* resume_run, by hand; auto_resume_unattended_runs takes no request of a user.
Resume ==
  /\ \/ Request
     \/ pc = "down" /\ reason = "interrupted" /\ UNCHANGED requests
  /\ recoverable' = FALSE
  /\ StartFrom(ResumeIndex, retries)
  /\ UNCHANGED <<restarts, owed, failures>>

\* submit_answers: from the step that waits.
Answer ==
  LET waiting == {k \in Step : st[k] = "waiting_input"} IN
  /\ Request
  /\ status = "waiting_input" /\ waiting # {}
  /\ StartFrom(First(waiting), retries)
  /\ UNCHANGED <<recoverable, restarts, owed, failures>>

\* retry_run from the step the user names, or from the first one that failed
\* or waits: the retry counts of the steps from there on start again. Nothing
\* in the code asks for the steps before it to have passed.
Retry ==
  \E i \in Step :
    /\ Request
    /\ RetryInOrder => \A k \in Step \ From(i) : st[k] = "passed"
    /\ StartFrom(i, [k \in Step |-> IF k >= i THEN 0 ELSE retries[k]])
    /\ owed' = owed \cup From(i)
    /\ UNCHANGED <<recoverable, restarts, failures>>

-----------------------------------------------------------------------------

Init ==
  /\ status = "active" /\ reason = "none" /\ recoverable = FALSE
  /\ st = [k \in Step |-> "pending"]
  /\ retries = [k \in Step |-> 0] /\ streak = [k \in Step |-> 0]
  /\ ckpt = Baseline /\ taskCkpt = NoTask
  /\ attempts = [x \in {} |-> 0]
  /\ me = 1 /\ pc = "loop" /\ idx = 1 /\ key = NoKey
  /\ base = [k \in Step |-> 0]
  /\ requests = 0 /\ restarts = 0
  /\ owed = Step
  /\ failures = [k \in Step |-> 0]

Loop ==
  \/ SkipDuplicate \/ RefuseDuplicate \/ BeginAttempt
  \/ StepPasses \/ SaveCheckpoint \/ FinishAttempt \/ StepFails \/ StepAsks
  \/ Recover \/ GiveUp \/ Complete

Next == Loop \/ MonitorFails \/ Restart \/ Resume \/ Answer \/ Retry

Spec == Init /\ [][Next]_vars

\* The controller's coroutine goes on, and so does the monitor of a server.
\* Nobody has to send a request, and a step may fail every time.
FairSpec == Spec /\ WF_vars(Loop) /\ WF_vars(MonitorFails)

-----------------------------------------------------------------------------
(* Properties.                                                             *)

Key == Step \X Nat \X CkptId

TypeOK ==
  /\ status \in RunStatus /\ reason \in Reason /\ recoverable \in BOOLEAN
  /\ st \in [Step -> StepStatus]
  /\ streak \in [Step -> 0..MaxRetries]
  /\ ckpt \in CkptId /\ taskCkpt \in CkptId
  /\ DOMAIN attempts \subseteq Key
  /\ pc \in {"loop", "acting", "passed", "saved", "failing", "refused", "down"}
  /\ idx \in 1..(NumSteps + 1) /\ owed \subseteq Step
  /\ (pc = "down") = (status # "active")

\* A run is done only when every step that a failure or a user sent it back to
\* was executed again and passed: a completed attempt of an earlier round never
\* stands in for the one that was asked for.
DoneIsExecuted ==
  status = "done" => owed = {} /\ \A k \in Step : st[k] = "passed"

\* The same as long as no step has made a task checkpoint.
DoneIsExecutedWithoutTasks == taskCkpt = NoTask => DoneIsExecuted

\* "A completed Step attempt is not executed again after reconnect or restart":
\* an attempt begins only for a step that has not passed since a failure or a
\* user asked for it, or that has no completed attempt.
Completed == {x[1] : x \in {y \in DOMAIN attempts :
                               attempts[y].status = "completed"}}
NothingIsRepeated ==
  [][pc = "loop" /\ pc' = "acting" => idx \in owed \cup (Step \ Completed)]_vars

\* The same but for the last step, which a resume of a run whose steps have
\* all passed starts again, and but for what follows when a step is skipped.
OnlyTheLastIsRepeated ==
  [][pc = "loop" /\ pc' = "acting" /\ taskCkpt = NoTask =>
       idx \in owed \cup {NumSteps}]_vars

\* A run gives up on a step for its budget only after the step failed
\* MaxRetries + 1 times in a row, whatever happened in between: a restart, a
\* resume, an answer or a retry by hand takes none of its retries away.
BudgetIsGranted ==
  [][reason # "budget" /\ reason' = "budget" =>
       failures[idx] >= MaxRetries + 1]_vars

\* A step is executed when it is owed an execution: restarts and resumes execute
\* none again that had completed, but the last, and a run gives up on none for
\* its budget before it failed as many times in a row as the budget allows.
OnlyWhatIsOwed == OnlyTheLastIsRepeated /\ BudgetIsGranted

\* Whoever retries a run by hand gives the steps from there on their retries.
RetryIsFresh ==
  [][Retry => \A k \in From(idx') : streak'[k] = 0]_vars

\* After a restart the loop can go on: the open attempt of the controller that
\* died does not keep the next one out.
ResumeIsNotRefused == pc # "refused"

\* Whatever fails, and wherever the failures send it back to, the loop ends.
LoopEnds == <>[](pc = "down")
==============================================================================
