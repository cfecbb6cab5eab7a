----------------------------- MODULE RetryGuard ------------------------------
(***************************************************************************)
(* What a failed step is taken for, where the run goes back to, and when   *)
(* it stops instead.                                                       *)
(*                                                                         *)
(*   workflow_runtime/failure_classifier.py   the class of a message       *)
(*   workflow_runtime/retry_policy.py         the retry target             *)
(*   workflow_runtime/progress_evaluator.py   did the project get better?  *)
(*   workflow_runtime/retry_guard.py          budgets and repetitions      *)
(*   workflow_runtime/executor.py             _recover_failed_step         *)
(*                                                                         *)
(* Grain. A failure and all that is decided about it is one step. A message*)
(* is the set of the words the code looks for, and the task it names; its  *)
(* fingerprint is the message. A snapshot of the project is a number, the  *)
(* larger the better. The failures that were counted are kept in their     *)
(* order, the history is the set of the numbers of those it still has, and *)
(* a counter is how many of the counted ones it is about. StepLoop has     *)
(* attempts, restarts and checkpoints.                                     *)
(***************************************************************************)
EXTENDS Naturals, Sequences, FiniteSets

CONSTANTS
  FlowSteps,     \* the steps, 1..FlowSteps in their order
  Message,       \* what a step may fail with: [words, task]
  Configured,    \* of each step its configured retry target, or 0 for "stop"
  EscalateTo,    \* of each step: where every EscalateEvery-th failure goes, or 0
  EscalateEvery,
  Reviews,       \* the steps of type review
  GenerateTests, \* the step of that name, or 0
  RunTest,       \* the step of that name, or 0
  Classified,    \* the steps a test result may be laid to, none if not there
  StreakLimit,   \* retryPolicy.maxRetries
  Rotates,       \* the steps with recoverRepeatedFailure
  Budget,        \* recovery_budget: total, step, task, class, same, fresh
  RepeatLimit,   \* AIWF_RETRY_REPEATED_FAILURE_LIMIT
  NoChangeLimit, \* AIWF_RETRY_NO_FILE_CHANGE_LIMIT
  HistoryCap,    \* failures the history keeps: 200
  BestProject,   \* bound: snapshots are 0..BestProject
  MaxFailures,   \* bound: more than the budget lets a run have
  MaxManual      \* bound: retries of the user

FlowStep == 1..FlowSteps
TaskName == {m.task : m \in Message} \cup {""}

RetryAssumptions ==
  /\ FlowSteps \in Nat \ {0}
  /\ Reviews \cup Rotates \cup Classified \subseteq FlowStep
  /\ {GenerateTests, RunTest} \subseteq 0..FlowSteps
  /\ Configured \in [FlowStep -> 0..FlowSteps] /\ EscalateTo \in [FlowStep -> 0..FlowSteps]
  /\ {StreakLimit, RepeatLimit, NoChangeLimit, HistoryCap, EscalateEvery} \subseteq Nat \ {0}
  /\ Budget \in [total : Nat, step : Nat, task : Nat, class : Nat, same : Nat, fresh : Nat]
  /\ {BestProject, MaxFailures, MaxManual} \subseteq Nat
  /\ MaxFailures >= Budget.total + MaxManual

VARIABLES
  current, mode, \* the step, and one of "runs", "stopped", "done"
  why,           \* why it stopped
  streaks,       \* retry_streaks
  counted,       \* every failure that retry_budget_counters have counted
  history,       \* retry_guard_history: numbers of counted failures
  late,          \* has the wall-clock budget been used up?
  snapshot,      \* what capture_progress would take
  manual,        \* retries of the user
  failed,        \* history variable: every failure there was
  since          \* history variable: how many there were when it began anew

retryVars == <<current, mode, why, streaks, counted, history, late, snapshot,
               manual, failed, since>>

-----------------------------------------------------------------------------
(* classify_failure and retry_target_for_failure.                          *)

\* The rules are tried in this order, a word of a rule's set being enough. An
\* explicit code is a word of its own rule that no text contains.
Rules == <<
  <<"PROJECT_GUARD_BLOCKED", {"outside project"}>>,
  <<"NO_FILE_CHANGE", {"no files changed"}>>,
  <<"VALIDATION_FAILED", {"validation failed"}>>,
  <<"TEST_DEFINITION_INVALID", {"unresolved fixture"}>>,
  <<"TEST_FAILED", {"pytest"}>>,
  <<"REVIEW_FAILED", {"review failed"}>>,
  <<"CONTEXT_LIMIT_REACHED", {"context is too large"}>>,
  <<"AGENT_SESSION_RECOVERABLE", {"session not found"}>>,
  <<"TIMEOUT", {"timed out"}>>,
  <<"INVALID_OUTPUT", {"invalid json"}>> >>

ClassOf(m) ==
  LET hits == SelectSeq(Rules, LAMBDA r : r[2] \cap m.words # {})
  IN  IF hits = <<>> THEN "UNKNOWN" ELSE hits[1][1]

\* Where the n-th failure in a row may send the run; 0 is to stop
Targets(s, m, n) ==
  CASE s \in Reviews /\ (ClassOf(m) = "INVALID_OUTPUT" \/ "review_mutated_project" \in m.words) -> {s}
    [] ClassOf(m) = "TEST_DEFINITION_INVALID" ->
         {IF GenerateTests # 0 THEN GenerateTests ELSE Configured[s]}
    [] s = RunTest -> IF Classified = {} THEN {Configured[s]} ELSE Classified
    [] OTHER ->
         {IF /\ "replan_required" \in m.words /\ n % EscalateEvery = 0
             /\ 0 \notin {Configured[s], EscalateTo[s]}
          THEN EscalateTo[s] ELSE Configured[s]}

-----------------------------------------------------------------------------
(* record_failure_attempt. The failure e is the last of all those counted. *)

Scope(e) == <<e.step, e.m.task, ClassOf(e.m)>>
SameScope(e, f) == Scope(e) = Scope(f)
NoChange(e) == "no files changed" \in e.m.words

\* The counters of a step, of a task, of a class and of a fingerprint
OfStep(all, s) == Cardinality({i \in DOMAIN all : all[i].step = s})
OfTask(all, s, t) ==
  Cardinality({i \in DOMAIN all : all[i].step = s /\ all[i].m.task = t})
OfClass(all, e) == Cardinality({i \in DOMAIN all : SameScope(all[i], e)})
OfPrint(all, e) == Cardinality({i \in DOMAIN all : all[i] = e})

\* The failures of the same scope, back to where the project was another one.
Recent(all, h, e) ==
  {i \in h : /\ SameScope(all[i], e)
             /\ \A j \in h : j >= i /\ SameScope(all[j], e) => all[j].project = e.project}

Repeated(all, h, e) == Cardinality({i \in Recent(all, h, e) : all[i].m = e.m})
Unchanged(all, h, e) == Cardinality({i \in Recent(all, h, e) : NoChange(all[i])})

\* compare_progress with the failure before it of the same scope
Improved(all, h, e) ==
  \E i \in h : /\ SameScope(all[i], e) /\ e.project > all[i].project
               /\ \A j \in h : j > i => ~SameScope(all[j], e)

\* The history with the failure of number n, of which it keeps the last HistoryCap
Remembered(h, n) ==
  LET grown == h \cup {n}
  IN  {i \in grown : Cardinality({j \in grown : j > i}) < HistoryCap}

\* A budget of zero is none.
Spent(limit, n) == limit # 0 /\ n >= limit

\* The hard checks; h is the history before e
Exhausted(all, h, e) ==
  \/ late
  \/ Spent(Budget.total, Len(all))
  \/ Spent(Budget.step, OfStep(all, e.step))
  \/ Spent(Budget.task, OfTask(all, e.step, e.m.task))
  \/ /\ ~Improved(all, h, e)
     /\ \/ Spent(Budget.class, OfClass(all, e))
        \/ Spent(Budget.same, OfPrint(all, e))

\* Mutant: a class that comes back is not enough.
MutLooping(all, h, e) == Repeated(all, h, e) > RepeatLimit

\* The soft ones, after e was recorded
Looping(all, h, e) ==
  \/ NoChange(e) /\ Unchanged(all, h, e) >= NoChangeLimit
  \/ Repeated(all, h, e) >= RepeatLimit
  \/ Budget.fresh # 0 /\ OfClass(all, e) % Budget.fresh = 0

\* clear_retry_history: without a task it is every task of the step; the
\* counters are left alone.
Cleared(all, h, s, t) ==
  {i \in h : all[i].step # s \/ (t # "" /\ all[i].m.task # t)}

-----------------------------------------------------------------------------
(* executor._recover_failed_step                                           *)

StopFor(reason) == mode' = "stopped" /\ why' = reason /\ UNCHANGED current

GoBackTo(s) == current' = s /\ UNCHANGED <<mode, why>>

\* What since says once step s begins anew with task t, or with all its tasks
Anew(s, t) ==
  [p \in FlowStep \X TaskName |->
     IF p[1] = s /\ (t = "" \/ p[2] = t) THEN Len(failed') ELSE since[p]]

RecoverFailedStep(m) ==
  LET s == current
      e == [step |-> s, m |-> m, project |-> snapshot']
      n == streaks[s] + 1
      all == Append(counted, e)
      h == Remembered(history, Len(all))
      hard == Exhausted(all, history, e)
      soft == Looping(all, h, e)
  IN
  /\ mode = "runs" /\ Len(failed) < MaxFailures
  /\ snapshot' \in 0..BestProject
  /\ failed' = Append(failed, e)
  /\ \E target \in Targets(s, m, n) :
       \/ /\ target = 0 \/ streaks[s] >= StreakLimit
          /\ StopFor(IF target = 0 THEN "no target" ELSE "retries")
          /\ UNCHANGED <<streaks, counted, history, since>>
       \/ /\ target # 0 /\ streaks[s] < StreakLimit
          /\ streaks' = [streaks EXCEPT ![s] = n] /\ counted' = all
          /\ \/ /\ ~hard /\ ~soft
                /\ GoBackTo(target) /\ history' = h /\ UNCHANGED since
             \/ /\ ~hard /\ soft /\ s \in Rotates /\ n < StreakLimit
                /\ GoBackTo(target)
                /\ history' = Cleared(all, h, s, m.task) /\ since' = Anew(s, m.task)
             \/ /\ hard \/ (soft /\ (s \notin Rotates \/ n >= StreakLimit))
                /\ StopFor(IF hard THEN "budget" ELSE "loop")
                /\ history' = h /\ UNCHANGED since
  /\ UNCHANGED <<late, manual>>

\* A step passes: clear_guard
ClearGuard ==
  /\ mode = "runs"
  /\ history' = Cleared(counted, history, current, "")
  /\ streaks' = [streaks EXCEPT ![current] = 0]
  /\ UNCHANGED failed /\ since' = Anew(current, "")
  /\ IF current = FlowSteps THEN mode' = "done" /\ UNCHANGED current
     ELSE current' = current + 1 /\ UNCHANGED mode
  /\ UNCHANGED <<why, counted, late, snapshot, manual>>

\* retry_run and reset_retry_counts_from: the streaks stay, and so does
\* started_at.
RetryByHand ==
  /\ mode = "stopped" /\ manual < MaxManual
  /\ manual' = manual + 1
  /\ current' \in FlowStep /\ mode' = "runs" /\ why' = "none"
  /\ since' = [p \in FlowStep \X TaskName |-> Len(failed)]
  /\ UNCHANGED <<streaks, counted, history, late, snapshot, failed>>

TimePasses ==
  /\ ~late /\ late' = TRUE
  /\ UNCHANGED <<current, mode, why, streaks, counted, history, snapshot,
                 manual, failed, since>>

-----------------------------------------------------------------------------
RetryInit ==
  /\ current = 1 /\ mode = "runs" /\ why = "none"
  /\ streaks = [s \in FlowStep |-> 0]
  /\ counted = <<>> /\ history = {} /\ late = FALSE /\ snapshot = 0
  /\ manual = 0 /\ failed = <<>> /\ since = [p \in FlowStep \X TaskName |-> 0]

RetryNext ==
  (\E m \in Message : RecoverFailedStep(m)) \/ ClearGuard \/ RetryByHand \/ TimePasses

RetrySpec == RetryInit /\ [][RetryNext]_retryVars

\* Steps end, one way or the other.
StepEnds == (\E m \in Message : RecoverFailedStep(m)) \/ ClearGuard

FairRetrySpec == RetrySpec /\ WF_retryVars(StepEnds)

-----------------------------------------------------------------------------
(* Properties, in terms of what happened and not of the counters.          *)

Failure == [step : FlowStep, m : Message, project : 0..BestProject]

\* Every variable has its type.
RetryTypeOK ==
  /\ current \in FlowStep /\ mode \in {"runs", "stopped", "done"}
  /\ why \in {"none", "no target", "retries", "budget", "loop"}
  /\ (mode = "stopped" <=> why # "none")
  /\ streaks \in [FlowStep -> 0..StreakLimit]
  /\ counted \in Seq(Failure) /\ failed \in Seq(Failure)
  /\ Len(counted) <= Len(failed) /\ Len(failed) <= MaxFailures
  /\ history \subseteq DOMAIN counted /\ Cardinality(history) <= HistoryCap
  /\ late \in BOOLEAN /\ snapshot \in 0..BestProject /\ manual \in 0..MaxManual
  /\ since \in [FlowStep \X TaskName -> 0..Len(failed)]

\* A run that goes on is within its budgets, whatever sessions it started
\* afresh and whatever passed meanwhile: each retry of the user lets it have one
\* failure more.
BudgetsKept ==
  mode = "runs" =>
    /\ Budget.total # 0 => Len(failed) < Budget.total + manual
    /\ \A s \in FlowStep :
         /\ Budget.step # 0 => OfStep(failed, s) < Budget.step + manual
         /\ \A t \in TaskName :
              Budget.task # 0 => OfTask(failed, s, t) < Budget.task + manual

\* The failures up to the k-th, since its task began anew, that are like it
\* with none of its scope in between that is not.
Alike(k) ==
  {i \in since[<<failed[k].step, failed[k].m.task>>] + 1..k :
     /\ failed[i] = failed[k]
     /\ \A j \in i..k : SameScope(failed[j], failed[k]) => failed[j] = failed[k]}

\* A run does not go on, in the same session, from the RepeatLimit-th time that
\* a step fails alike on the same project, whatever else failed in between.
LoopsAreBroken ==
  mode = "runs" => \A k \in DOMAIN failed : Cardinality(Alike(k)) < RepeatLimit

\* A run goes on after a failure only within its budgets, and not from a failure
\* that repeats itself.
BudgetsHold == BudgetsKept /\ LoopsAreBroken

\* However its steps fail, a run ends: it is done or it stops.
RunEnds == []<>(mode # "runs")

\* "The same failure repeated without measurable project or validation
\* progress" (failure_classifier.py on RETRY_LOOP_DETECTED): a run that is
\* stopped as a loop made no progress with its last failure.
OnlyLoopsArePaused ==
  mode = "stopped" /\ why = "loop" =>
    LET n == Len(counted) IN ~Improved(counted, history \ {n}, counted[n])
=============================================================================
