# Verification of ai-agent-workflow

TLA+ specifications of the parts of this repository that decide *who may execute
a run, what it may write, what it is believed, and what is left after something
fails*, the TLC
configurations that check them on small instances, and TLAPS proofs.

Contents: [the system](#1-the-system) · [plan](#2-plan) ·
[modules and the code](#3-modules-and-the-code) · [runs](#4-runs) ·
[fairness](#5-fairness) · [proofs](#6-proofs) ·
[what the code does not do](#7-where-the-code-and-its-documentation-part) ·
[not modelled](#8-not-modelled)

`tlc -config X.cfg M` checks a model, `tlapm M.tla` a proof module.
Paths of code are relative to `src/`; where only a file name is given it is
under `app/workflow_runtime/` or `app/services/`.

## 1. The system

A server (FastAPI, one asyncio event loop) and a command line (`aiwf`) share one
store, a JSON or SQLite document of runs. A *run* executes the steps of a
workflow on a project: most steps call an external coding agent, in an isolated
copy of the project; at the end the changes are delivered to the original, or
reviewed by the user as a patch.

| Component | State it keeps | Operations | What makes it correct |
|---|---|---|---|
| Run lease (`run_lease.py`) | `run_lease`, `last_run_lease`, `run_lease_epoch` in the run record | acquire, assert, renew, release | a fencing token names one grant; an old one never passes again |
| Run controller (`executor.py`, `workflow_service.py`, `run_lifecycle.py`, `main.py`, `maintenance_service.py`) | the run's status, owner, recovery flags; `running_tasks` of a process | create, execute, retry, resume, terminate, time-out, start-up and shutdown recovery, monitor | one task executes a run; it holds the lease; a stop is final; an abandoned run is found |
| Project writer lock (`run_lifecycle.py`, `core/locks.py`) | the lock file, owners of active runs | admit, start, finalize, clean up | one run of a project writes at a time |
| Step loop (`executor.py`, `run_lease.py`, `stores/step_store.py`) | step states, attempts, retry counts and streaks, checkpoint ids | begin and finish attempt, recover, give up, resume, answer, retry | what is sent back is executed again; what was completed is not; the loop ends |
| Retry policy, classification and guard (`failure_classifier.py`, `retry_policy.py`, `progress_evaluator.py`, `retry_guard.py`) | failure history, budgets per class, step and task | classify, choose a target, start a fresh session, stop | no endless or aimless retries |
| Task loop (`general_actions.py`, `task_loop_actions.py`, `repair_task_policy.py`) and task checkpoints (`task_checkpoints.py`) | artifacts and state files of tasks, the retry feedback, checkpoints in the record and their archives | work on a task, accept, refuse, check-point, prune, repair, roll a task back | a later task keeps what an earlier one did; a checkpoint can be restored; what was rolled back is done again |
| Agent step (`agent_step_runner.py`, `agent_session_manager.py`) | the session of each role, the prompt a call is given, snapshots of what may not change | run, correct, recover, restore | a session is told the task before it is told to go on; a reader leaves no trace |
| Model circuit breaker and agent calls (`model_circuit_breaker.py`, `agent_execution_service.py`, `core/provider_slots.py`) | state and failures of each endpoint, provider slots | allow, record success and failure, wait, retry | failing endpoints are left alone; calls that wait get through |
| Process supervisor and registry (`app/agents`) | registered agent processes, in memory and on disk | start, register, end the tree, reap | no agent outlives its run; no stranger is killed |
| Qwen daemon client (`qwen_serve.py`) | the daemon's registry, sessions per conversation, event streams | start, open, post, read, cancel, forget, shut down | a turn gets its own answer, and ends |
| Chat and agent session service (`chat_service.py`, `project_service.py`, `agent_session_service.py`) | messages, session ids | chat, reset, delete | a request is answered once, by an agent that knows the chat |
| Run store (`app/persistence`) | the document, its tables, a lock file, the schema version | mutate, load, save, update, migrate | an update is whole, and not lost; the tables say what the document says |
| Patch review (`patch_approval.py`, `isolated_workspace.py`) | hashes of patch and selection, evidence, approval | validate, approve, reject, apply | what is applied is what was looked at and tested |
| Atomic delivery (`atomic_delivery.py`, `delivery_journal.py`) | the journal file, the backup, the note in the run record | prepare, apply, verify, commit, roll back, resume | all files or none, across crashes; "done" means delivered |
| Completion gate and validation (`completion_gate.py`, `validation_contract.py`, `builtin_functions/core.py`) | results in memory, in the record, in an artifact | test, run the user's script, evaluate, skip, mark passed | a run is done only with evidence, of this project |
| Project validation profile and autopilot (`project_validation_profile.py`, `autopilot_*.py`, `validators/plan.py`) | the profile, its status, the baseline of a run | detect, confirm, verify, measure, decide | nothing is delivered unattended that was not measured |
| Security scan (`builtin_functions/security_*.py`, `consensus_actions.py`) | candidate artifacts, scores, findings, report | validate, retry, combine, render, finalize | the report is one of the findings there are; none is lost, unless the user goes past a step |
| Workflow assets (`workflow_asset_service.py`, `workflow_config_service.py`) | manifests, contracts and texts in two scopes | load, edit, rename, delete, make sure of the minimal workflow | a start can load its system workflow; a run is made of what its project sees |
| Adaptive and review actions | the manifest, review findings | plan, review, re-plan | the plan covers the requirement |
| Event bus and event log | subscribers' queues, event log | publish, subscribe, replay | a slow reader does not stop the run |
| Providers, HTTP API, CLI, web UI, reports, traces | texts | wrap, route, render | no state of their own over time |

**How they interact.** A request reaches `workflow_service`, which changes the
run record and starts an asyncio task on `executor.execute`. The task acquires
the lease, goes through the steps (each one an attempt; an agent's call chooses a
session and a prompt, asks the circuit breaker, takes a slot, and ends in a
process of its own or in a turn of the daemon), evaluates the completion gate,
delivers and ends. A failed step is classified; the guard lets the run go back or
stops it. A done callback empties the registry entry and the project lock. A
heartbeat task renews the lease and cancels the execution when it cannot. A
monitor loop inspects every run of the store, repairs leases, rolls deliveries
back, reaps processes and fails runs nobody executes. A start or shutdown of a
process rewrites the runs the old owner left active. They share the run record,
the project and its copy, and nothing else orders them.

**What is hard.** Inside one process the store and the event bus never really
suspend a coroutine, so coroutines interleave only where one waits for an agent,
a subprocess, a timer or a thread. Two processes interleave between any two
store mutations. The monitor and the start-up and shutdown recovery are no
transactions: they read the whole store and write the whole store back. A crash
can fall between any two writes. Evidence, approvals, checkpoints and sessions
outlive what they are about: the project changes, and the record does not know.
The hazards this leads to are listed one by one, with their lines, in `PROJECT.json`.

## 2. Plan

The order goes from what everything else relies on outward.

| # | Module | State | Abstract specification |
|---|---|---|---|
| 1 | `RunLease` | done, proved | itself the abstraction of 2 |
| 2 | `RunController` | done, refinement and safety proved | `RunLease` |
| 3 | `AtomicDelivery` | done, refinement proved | `ProjectDelivery` |
| 4 | `ModelCircuit` | done, safety proved | |
| 5 | `ProjectWriter` | done, safety proved | |
| 6 | `StepLoop` | done, safety proved | |
| 7 | `TaskLoop` | done, safety proved | |
| 8 | `PatchReview` | done, proved | |
| 9 | `Chat` | done, safety proved | |
| 10 | `AgentProcess`: the processes of the agents | done, safety proved | |
| | `QwenServe`, `AgentStep`: between a step and the model | done, safety proved | |
| 11 | `RetryGuard` | done, safety proved | |
| 12 | `SqliteStore`, `Migrations`, `StoreLock` | done, safety proved | |
| 13 | `Evidence`, `Validation`: what a run is done and delivered by | done, safety proved | |
| 14 | `SecurityScan` | done, safety proved | |
| | `Assets` | done, safety proved | |
| 15 | event bus | left out: no decision of the program depends on it | |

Left to a product of the parts: what one of them needs of another is a flag or a choice now (section 8).

## 3. Modules and the code

Each module says in its head which files it models and what a step of it is;
`PROJECT.json` maps every definition to its lines. Operators named `Mut...` are
small changes of the definition that follows or precedes them, used to see that
a property notices; no specification refers to them. Flags among the constants
(`Careful`, `CancelInGrace`, ...) say what an instance takes for granted of users,
daemons or the operating system where the code does not see to it. Where it matters only
whether something has happened, a history variable records that it did (`hurried`,
`strayed`, ...): no guard reads it, and a property says what holds as long as it is false.

**RunLease.** `lease`, `last`, `epoch` are the three fields of the record,
`grants` remembers what `acquire_run_lease` returned. The clock is the time the
lease has left. `Acquire`, `Renew`, `Release` are the functions of the file, each
one transaction; `ReleaseAny` is the monitor's release, which names no owner.

**RunController.** One run, several process incarnations, and the asyncio tasks
that ever execute it. `task[t].pc` is where a task's coroutine is:

    created → acquire → preflight → ready ⇄ working → delivering → mark → release → ended → over

An action is what happens between two waits; `Quiet(p)` says that the event loop
of `p` is free. Requests are `RetryRun` (also for the requests that differ from it
only in what they write before they start a task), `ResumeRun`, `TerminateRun`
(in two steps when it has to wait for an agent's process tree). `snap[p]` is the
store copy the monitor or a recovery holds between its read and its write.
A process is `off → boot → recover → up → closing → stopped`, or crashes. Instances
may choose whether another run of the store makes every recovery write the store
back (`OthersStale`), whether heartbeats come in time (`Punctual`; the code sends
one every third of the TTL, `executor.py`, `run_lease.py:39-48`), and whether a done
callback runs before the next request (`PromptFinalize`).

**ProjectDelivery, AtomicDelivery.** The first is the promise: while the delivery
is open a file is old or new; it ends once, kept with all files new or restored
with all files old. It is promised until somebody else edits the project (`edited`).
The second is the code: `act[c].pc` walks through
`deliver_isolated_changes`, with a step for each write of a file, of the journal
on disk and of the run record; `disk` is the journal file, `act[c].j` the
controller's copy. The refinement mapping reads the verdict off the journal's
status. The user's edits are actions, so are crashes, heartbeats and the monitor.
A file's content is old, new, edited or none.

**ModelCircuit.** One endpoint, and a set of calls of `execute`. `Asked`, `Allowed`,
`Succeeded`, `Failed` are the methods of the breaker; the calls' actions are the
stretches of `execute` between its waits: for the circuit, a slot, the agent, its
back-off. The endpoint goes down and comes back. A failure count only matters up
to where the cool-down's multiplier is at its cap, and is kept up to there.

**ProjectWriter.** All runs of one project, each reduced to what the others see of
it. `Admit` is the check of `create_workflow_run` and `retry_run`, with the clean-up it
makes first, `Launch` the rest: another process can act in between.
`resume_run` makes no such check; with `CarefulResume` a user resumes only
while no other run is active.

**StepLoop.** The loop over the steps. An attempt key is the step, its retry
count and the last checkpoint id, as in `executor.py:479`. `owed` and `failures` are
history: the steps that were sent back and not executed since, and the failures
in a row. `DoneIsExecuted` fails once there are task checkpoints (`step_skipped`), so
the passing run checks it as long as there are none. A retry target is any step the
instance allows, and the retry guard may stop at any failure; `RetryGuard` has both.

**TaskLoop.** `build_step` with its task loop, and what surrounds it. A file holds
the set of the tasks whose edits it has, and a task in `Marked` defines something by
name, which is what its `build-state.json` remembers. `at` is where the loop is:

    loop → edited → accepted → loop … → passed | failed, and down between executions

`Work` is the agent's whole turn, whatever its outcome: the files it wrote are looked
at in the same way after a failure. `Accept`, `RejectLost`, `RejectInvalid`, `RejectEmpty` and
`Ask` are what `build_step` makes of them; `RetryBuild` and `SentBack` write the feedback that
decides which tasks are worked on again and whether the repair task is in the list.
`mem` and `saved` are the record in memory and in the store: checkpoints reach the store
only when the step passes, their archives the disk at once. `holds`, in a checkpoint, is
history: the project at the time.

**AgentProcess.** One process per agent's call, named after the call. `os`, `pid`, `kids` are
the operating system's side, `handle` and `records` the registry of each controller,
`registryFile` the one on disk. `run_supervised_process` is cut where it awaits: spawn, registration, the
result or a limit, the end of the tree in two signals. A dead process's id may go to a stranger
or to the next agent at any time, also while a reaper that has compared start times has it on its list and
waits; `late` is history: the ids for which that has happened. `crowded` is history, too: two agents of
one run were at work at once. With a command and a script, that is what disturbs the registry (`Undisturbed`).

**QwenServe.** A turn is one call of `run_prompt_via_serve`, in the steps between its HTTP
requests; `thread` is the part of it that runs on when the task that waits for it is cancelled.
The daemon is what the code says of it: it queues the prompts of a session and sends
its events to every open stream. Three variables are history: `disturbed`, a conversation
was forgotten while a turn of it, or its thread, was at work; `hurried`, a turn was cancelled or ended by a
limit while its answer was still to come; `wavered`, a daemon was slow to start or did not
answer its health check while it ran.

**AgentStep.** The agent's calls of one run in sequence. `told` is the set of steps whose
full prompt the project's conversation has seen, `feedback` the steps that failed
before, `written` what read-only steps have left in the project. Two variables are history: `strayed`, an
agent changed files in a call that failed or in a correction, after which nothing is put back; `moved`, a
session was left behind by a recovery, or found gone or busy.

**SqliteStore, Migrations, StoreLock.** The document and the tables projected from it with
each commit; the four versions of the schema, one transaction each, with its backup; the lock
file of the JSON store. In the first a transaction is a step and `load`/`save` are two; in the
last a system call is a step and the contents are the set of the updates they have.
A commit of `SqliteStore` is refused, and changes nothing, where two rows meet a key: two steps of a run with one key
(`run_steps`), two artifacts with one id (`run_artifacts`), two checkpoints with one number. The look for a
first document and its insertion are two steps in `Migrations`. In `StoreLock`, `lock.by` is who made the lock file,
whose path anybody may unlink; `together` is history: two waiters found the same lock stale.

**RetryGuard.** A failure and everything decided about it is one step: class, target,
progress, budgets, repetition. `counted` is the list of the failures the guard was asked about: a counter of
`retry_budget_counters` is how many of them it is about, and `history` has the numbers of those that
`retry_guard_history` still holds. `failed` and `since` are history variables: every failure there was,
those included that stop the run before the guard is asked, and how many there were when a step or a task
began anew. `BudgetsHold` is about these and not about the counters. A message is the set of words the classifier
looks for and the task it names; where the text of a test result sends the run is a choice (`Classified`).

**Chat.** `chat` is cut at its waits: the user's message, the placeholder of the answer, the
agent, the session id, the answer. `told` is what each agent session has heard: by
itself, or in the history of a prompt, which has the newest `HistoryLimit` messages (`RecoveryLimit` of them in
a recovery) and may cut a long one; `cut` is history: the sessions that were made with a history that
left something out. A reset or a deletion may come in between (`Careful` says
that it does not).

**PatchReview.** `orig` and `iso` are the two projects. A hash is what it is the hash of; evidence is
a number, and a fact the code does not have: the contents it was gained on. A validation that fails
is on record only when a later step of its execution passes (`OnRecord`); else the record of the one before
stays (`OffRecord`), which `unproven` remembers. Copying is a step per file.

**Evidence.** The four steps of a workflow that make or use evidence: build, test, the user's
script, the end. `mem` and `kept` are the results in memory and in the record, `artifact` the
file, each with the project it is of, which the code does not know.

**Validation.** The profile of a project on disk, its verification, and a run that measures a
baseline with it and is delivered, or not, by comparison. A preflight works in a copy of the project as it was
when the run was created (`copied`). Executing a phase gives the set of what failed in it.

**SecurityScan.** The consensus step with its agents, attempts and artifacts, the combination, the report, and
what a retry or a request, which may start at any step, finds of the files of an earlier attempt.
An artifact is well formed or not, scores a pass or not, and has candidates; a score file is its verdict and the
contents it is of. What scores and confidences come to as numbers is not followed. `passedBy` are the
steps the user went past: started beyond, skipped, or marked as passed.

**Assets.** The files of both scopes and what edits, renames and deletions through the API do to
them; `start` (in three steps, which two processes may take at once) and the creation of a
run from the files its project sees. A contract may be YAML that no step can be made of: loading a workflow
with it ends in a `ValueError`, which no start catches (`Loading` is "error"; the start has `raised`). The creation
of a run applies the contracts to the steps once more, by name: to a step that stands for a text the
contract of the same name (`Namesake`), and without one there is no run.

**MCControllers, MCShared, MCLoops, MCAgents, MCServices, MCReview.** Each puts several
instances side by side. `part` is chosen first and never changes: it says which instance
the behaviour is of, and the others keep their first values, so that the states are those of the
instances one after the other. A property of such a module is that of a component's
module, or the conjunction of a few that have one subject, as its comment says.

## 4. Runs

| Run | Parts | What it shows |
|---|---|---|
| `controllers` | `server`: a server and its successor, 3 tasks, TTL 2, 3 tokens, every recovery writes the whole store back. `command`: a command and a server at once, 2 tasks, current snapshots | one writer, which holds the newest lease (`OneWriter`); the lease of a behaviour of `server` is one of `RunLease` (`LeaseSpec`), and what was fenced out stays out (`FencedForever`); an active run nobody executes does not stay so (`NotAbandoned`); a command and a server never execute the run both, and a stopped run is in the end executed by neither (`OneOrNeither`) |
| `shared` | `delivery`: 3 files (one changed, one deleted, one created), 2 controllers one after the other, 2 crashes, of which one within a rollback is the last. `edits`: the same files, 1 crash anywhere, 1 edit of the user. `writers`: 3 runs (2 unattended), 3 server incarnations one at a time and no command, users who look before they resume, tasks that have begun before the next request. `server`: two servers in turn, two runs, an agent that forks. `steps`: two servers in turn, two agents of one run. `command`: a server and a command on one registry, two agents of one run. `script`: an agent that replaces its image, one process id for all. Elsewhere two ids, strangers take the first. | a delivery implements `ProjectDelivery` until somebody edits, and settles if nobody does; done is delivered, unless edited, and rolled back is clean whoever edits (`JournalIsTrue`); in that deployment one run writes, and holds the lock (`OneWriterHoldsLock`); the reaper ends nobody but orphans, and strangers only if they got an orphan's id after it looked (`NoHarm`); no process outlives what it was started for |
| `loops` | `tasks`: 2 tasks and the repair task, 2 files, 3 attempts, 1 crash, 1 rollback, a validation script. `steps`: 2 steps, any earlier target, 1 retry, task checkpoints, 1 restart with a new process id, 1 request | a build that passes has what its tasks recorded; every checkpoint can be restored; done means executed as long as there are no task checkpoints; a restart repeats only the last step and the budget is what was granted (`OnlyWhatIsOwed`); the loop ends |
| `agents` | `circuit`: 3 calls, 2 slots, threshold 2, 1 retry, 1 outage, 1 cancellation (not of the probe). `turns`: 3 turns of 2 conversations on 2 daemons that may die, nothing is in a hurry or wavers. `outages`: 2 turns of one conversation, limits and cancellations end turns, conversations are forgotten under them, daemons waver. A session takes one prompt, and all create 3 at the most. `steps`: 2 steps with a role each, 3 calls, until agents have strayed and a session was left behind | a probe is under way while the circuit waits for it, calls that wait get through; turns do not mix, and end; a reader leaves no trace and a compact prompt has its context (`StepsAreSound`) |
| `services` | `store`: 2 runs of a project, workflows with and without a step twice, 2 artifacts with one id, 2 checkpoints kept, 4 passes. `schema`: 2 controllers, a database of any release, 2 faults. `file`: 3 processes, 2 updates each, two may die. `chats`: 2 calls, 3 requests sent 3 times, one of them long, prompts with 3 messages and recoveries with 2, 4 agent sessions, 2 resets, deletions or restarts. `retries`: 2 steps, 3 messages, 1 manual retry. `assets`: 2 starts, 2 edits (one may be of a contract that no step can be made of), 2 stops | tables agree with the document, and a commit is refused only for a full list of checkpoints, for artifacts with one id, or at the creation of a run with a step twice; a recorded version was made, data is backed up first; no update is lost as long as no two waiters found the same lock stale; a request has one answer, by an agent that knows the newest of the chat, and all of it if no history was cut; budgets hold and loops are broken; a process that has started can load its workflow, and a run has what its project sees (`StartedIsServed`); whoever waits is served (`ServedInTheEnd`) |
| `review` | `patch`: 2 files (one new), 2 reworks of any of them, 2 validations, 1 fault. `evidence`: 3 builds, 2 requests, with and without a required script. `phases`: a Python project that becomes a Node project, edited at any time but during a validation, 1 retry. `scan`: 2 agents, 2 attempts, 2 repetitions from any step, 4 artifacts, 2 contexts | what is applied was looked at, is applied as a whole, and was validated, but for a patch that changed after the validation on record (`AppliedIsReviewed`), and no edit is lost; done is tested, with this project; what is delivered unattended was measured; what is combined has passed, no candidate is lost, and the final report is the one that was scored, of the findings there are, each unless the user went past the step (`FinalIsOfFindings`) |
| `circuit_cancelled` | the circuit; the probe may be cancelled | **violated**: calls wait for ever |
| `step_skipped` | 3 steps, task checkpoints, no restart | **violated**: a step that was sent back is skipped |
| `task_checkpoint_lost` | 1 task, 5 attempts, 2 checkpoints kept, no crash | **violated**: the archive of a listed checkpoint is gone |
| `compact_prompt` | 2 steps, recoverable errors | **violated**: a compact prompt goes to a session that has not seen the task |
| `stale_evidence` | 3 builds, 3 requests, no required script | **violated**: done with a project whose tests only failed |
| `catalog` | 1 workflow, 1 edit, 1 stop | **violated**: a start replaces a shipped manifest |

`CHECK_DEADLOCK FALSE` stands in every configuration: runs end, processes stop,
calls finish, and counters that bound the instance run out.

**Why the bounds suffice.** *TTL 2*: a lease is fresh, about to run out, or out; a longer
TTL only repeats the middle. *Tokens*: as many as grants are needed for each
owner to be fenced out and come back once. *Tasks 3*: one that ends, one started
while it ends, and one after that; the first two meet in every race over the
registry. *Two incarnations*: one that dies and one that cleans up; what a third
would find is the state the second found. *Three files*: one of each kind of
operation; a crash falls before the first, between two and after the last. *Two crashes*: one
in the delivery and one in what repairs it. *Three calls with two slots*: a probe, one that was admitted before the circuit
opened, and one that waits. *Three runs*: one that writes, one interrupted, one that
asks. *Two steps*: one that fails and one it goes back to; what a reset does to the steps
between them it does to the one that fails. *MaxNumber 10* is more than the checkpoints
a behaviour of the instance makes. *Two tasks*: one that undoes the other in a file
they share, and the repair task after both; three attempts are both tasks and one of
the three again. *Two agents, two process ids*: one that died, one that got its id, and a
stranger who does; strangers take the first of the ids, which are alike. *Three turns*: two of a conversation, and one beside it that shares the
daemon. *Three processes at a lock file*, two of which may die: one that dies with the lock, one that dies on its
way to unlink it or is the second to find it stale, and one that gets it. *Four versions* are all there are. *Two faults*: one
in the work, one in what repairs it. *Three requests, sent three times*: one that is repeated and one
beside it, or one more than a recovery carries; 2 and 3 messages stand for the 6 and 16 of the code. *Budgets* are those of the code scaled to 3 and 4 failures, in the same order;
the history's cap is as long as the largest. *Two repetitions of a scan*: one that leaves files behind, one that goes past a step. *Three messages*: two of one task and
different classes, and one of none. *Two patches' files*: one selected, one not. *Two reworks*: what was validated or approved, and a change after it; the contents that agents write are alike (`SYMMETRY`). *Three builds*: one that
is tested, one that fails, one that is rolled back. *MaxCheckpoints* is the 100 of the
code where it must not be reached, and less where its effect is the question.
Section 6 proves the central ones for any number.

## 5. Fairness

* `RunController`: a coroutine that can go on goes on, a heartbeat timer fires, the
  monitor loop comes round, a request that was begun is finished, a server that died
  is started again, time passes. Steps end since agents have a time limit. Nothing
  makes a user send a request. A crash is never required and the last incarnation is
  spared, or nothing would be left to recover anything.
* `AtomicDelivery`: a process that works goes on; the monitor comes round; time passes.
  A file the user edited may be one that no rollback can put back, so that a delivery settles
  is said only of one that nobody edits under.
* `ModelCircuit`: timers fire and an agent's call ends (weak fairness). A slot that is
  freed again and again is got (strong fairness): `asyncio.Semaphore` serves its waiters
  in turn. The endpoint need not come back.
* `StepLoop`: the loop goes on and the monitor does; a step may fail every time.
* `QwenServe`: a turn that can go on does; in its waits that is a time-out, which every
  request and every stream has. A daemon that works on a prompt answers it. A daemon that
  died need not be replaced by anybody but the turns.
* `Migrations`: a controller goes on, and is started again by its supervisor when it failed;
  faults are finite (`MaxOpenFaults`).
* `StoreLock`: a process goes on or dies; time passes, so that a lock gets old. A waiter gives up
  after ten times the age at which it reclaims a lock, so it does not in the instance.
* `RetryGuard`: a step ends, well or not. All of them may fail.
* `Assets`: a start that began goes on, and is repeated when it failed: in the end it succeeds, or it raises
  whenever it is repeated.
* `AgentProcess`, `AgentStep`, `TaskLoop`, `ProjectWriter`, `SqliteStore`, `Chat`, `PatchReview`, `Evidence`,
  `Validation`, `SecurityScan` state safety only, and assume none.

## 6. Proofs

`RunControllerProofs` proves the properties of `RunLease` and then those of `RunController`.
For the lease alone the sets of owners, the TTL and the bound on tokens are any, with what
`Assumptions` of that module says: no owner is the empty one, the TTL is positive, the bound is a
natural number.

    FencingInv == TypeOK /\ EpochBoundsTokens /\ LeaseIsGranted /\ TokensUnique

is inductive (`Fencing`). `TokensUnique` alone is not: the record keeps a token in up to
three places and each of them may be the only one left, so a fresh token is fresh
because the *epoch* bounds every token ever granted (`EpochBoundsTokens`); and an owner
that acquires again keeps its token, which is harmless only because the lease it
finds is one it was granted (`LeaseIsGranted`). `NextTokenIsFresh` is the fact about
`_next_fencing_token`, `AcquireOutcomes` the two ways `acquire_run_lease` ends; from
these follow `TypeCorrect`, `UniqueTokens`, `NewestPasses` and, step by step,
`FencedOutForEver` and `LiveLeaseIsNotTaken`.

Of the controllers, `ControllerTypeCorrect` holds for any processes and tasks, however many processes run at
a time; it needs that a lease in the record has a token above zero, or `acquire_run_lease` could
hand out none. `Implements` says that the controllers implement `RunLease`, for any number of
restarts, crashes, stops, repairs and executions, and `ControllersStayFenced` carries the fence over. They assume
`OneAtATime`: one process runs at a time, as with a server alone on its store. What they rest on is that nothing
changes the store between a read of the monitor or of a recovery and the write that
follows (`SnapIsCurrent`): nothing executes between two waits then, and no other process runs (`OneAlive`). With a
second process the write-back of an old record takes a token back, and section 7 has that instance.
`ServerHasOneWriter` assumes in addition that heartbeats come in time and that a task that ended
is finalized before the next request (`Server`). `OneWriter` is far from inductive; `IInv` adds
that the task at work is the registered one, which is why a second start is refused
(`AtWorkIsRegistered`), that the run has a status in which heartbeats renew its lease while a
step is executed (`ExecutedIsActive`), and that a stop which waits for an agent to die has marked the run,
so that no step begins before it comes back to a task that may be gone (`TermIsMarked`).

`AgentsProofs` proves the safety of the breaker for any number of calls, any threshold,
cool-down, cap, retry budget and slots. The lemmas bound the multiplier (`FactorIsBounded`)
and say what `record_failure` can leave behind (`FailedCases`): never a probe that is
out, and a closed circuit only below the threshold. `CircuitTypeCorrect` and
`ClosedCircuitIsHealthy` follow from one inductive invariant; `ProbeReports` holds under
the assumption that the probing call is not cancelled (`~ProbeCancels`), and `circuit_cancelled`
shows that it is needed.

It also proves what `AgentStep` promises, for any steps, roles and numbers of recoveries and calls
(`StepsLeaveNoTrace`). While no agent has strayed, the snapshots before a call are those of a clean project,
and only a reader whose answer is not recorded yet may have left something (`TraceInv`). While no session was left
behind, whoever failed before has been told its task in the project's conversation, and so has the step at
work, or its first prompt is on the way (`ToldInv`): this is what a compact prompt relies on. It assumes
`BuildersCompact`, that only steps that may write are sent compact prompts, as the code's
default has it (`agent_step_runner.py:460`), for a reader has its own conversation. `compact_prompt` shows what a
session that was left behind does.

Of `QwenServe` it proves `TurnsAreApart` for any turns, conversations, daemons and queue lengths
(`ConversationsAreApart`), with no assumption but that the bounds are numbers: each part holds as long as its
history variable is false. `OneTurnPerSession` needs the lock and the map together (`LocksInv`): a turn
at work has the current lock of its conversation, one turn at a time holds it, the daemon object knows the session
of each open stream, and no session belongs to two conversations, also when one that was lost with its daemon
is replaced. That a turn gets its own answer rests on what waits in a session: nothing, or the one prompt of
the turn that reads there and has not seen its end (`WaitingInv`). That no daemon outlives the shutdown rests
on the one that runs being the one that is registered, and as ours (`OneDaemonInv`).

`LoopsProofs` proves the three invariants of `TaskLoop` for any number of tasks, files,
attempts, crashes and rollbacks. `TaskLoopTypeCorrect` rests on an invariant that adds to the
types that whoever is worked on is in the list (`AtWork`), and that what was written exists
(`Written`). `EarlierTasksAreKept` assumes `NumbersInOrder`: no task has a number beyond its place
in the list, for the code compares the two (`task_loop_actions.py:434`). Its invariant,
`ResultsHeld`, says that outside of an attempt the project has what the results so far
recorded; it says nothing of the project during one, since only acceptance re-establishes
it. `CheckpointsCanBeRestored` assumes that no more tasks are worked on than checkpoints
are kept (`Keep >= MaxWork`): the record in the store is then always a beginning of the one
in memory, and ids, numbered by their places, are unique. `task_checkpoint_lost` and
the row of `EarlierTasksKept` in section 7 show that both assumptions are needed.

`LoopsProofs` also proves the safety properties of `StepLoop` that the run `loops` checks, for any number of
steps, retries, restarts and requests. `BudgetGranted` needs no assumption: a step has failed at least as
many times in a row as its streak says (`Counted`), whatever resets the other counters.
`DoneWithoutTasksIsExecuted` assumes `InTurn`: the user retries only steps all before which passed, and no more
step checkpoints are made than the record keeps. Its invariant `OrderInv` says why a completed attempt never
stands in for the one that was asked for: the keys of completed attempts have older checkpoints than the
last, which is in every new key (`Fresh`). What passed is not owed (`Passing`), the steps from the current
one on have not passed (`AtTheEnd`), and a step that a failure jumped over leaves one that failed behind, for
which the completion gate refuses the run (`Behind`). `OnlyTheLastRepeats` assumes in addition that failures go back and never forward
(`Backward`), so that no step is jumped over (`NoneIsJumped`): a workflow's configuration may name any step as
the target (`retry_policy.py:87`), and section 7 shows what follows. `WhatIsOwed` puts both together.

Of `RetryGuard` it proves `BudgetsHold` for any steps, messages, targets, limits and retries by hand. That a run that
goes on is within its budgets (`BudgetsAreKept`) needs nothing but that the constants are numbers. The counters say
less than what happened: a failure that is refused for its target or its streak is never counted. But the run
stops for it, so that the user has to send it on, and the counters lag behind by no more than the
retries there were (`CountersFollow`). A retry by hand does not reset them (`step_store.py:104`): at the end of its budget,
a run that is retried stops at its next failure. That a run does not go on from the `RepeatLimit`-th like failure (`GuardStopsLoops`)
assumes `RemembersAll`: there is a budget for the run, and the history, cut at 200, is as long (the default is
40, `retry_guard.py:18`). Without it enough failures of other steps push those of a loop out of the history. Its invariant, `RecentAreKnown`, says that a
failure since its task began anew is in the history under a number that is its own less those never
counted, and all after it were counted; then what the guard counts contains what the property does.

`ReviewProofs` proves both properties of `PatchReview` for any files, contents and bounds, from
the one assumption on the constants. The difficulty is that the code compares hashes that were
taken at different times, of things that have changed since, while the properties are about
contents. The invariant `IInv` therefore says of everybody who has a hash which contents it is of (a
record of partial evidence, an approval, a validation or an approval under way); that
the evidence on record is of the isolated project as it is, unless files were changed since by steps that
stopped before they validated, or whose validation failed and so was never stored (`Latest`, `unproven`: section 7);
that numbers of evidence are never used twice; and, while a selection is copied,
that every file is as the backup or as the isolated project has it. `AppliedWasReviewed`
and `EditsAreKept` follow from it. That a failed application leaves no part behind is said as long as
no controller died while it copied (`crashed`).

`ReviewProofs` also proves what a run is done by and what is delivered unattended. `DoneRunsAreTested` holds for any
contracts, builds, rollbacks, retries and overrides. A record does not name the project it is of, and
several are kept under one key in memory, in the store and in a file. The invariant gives each record
the project it was made of and says three things: a success in a record has happened, and by the unchanged script
(`RecordsAreTrue`); what the executor holds in memory is what is stored, and before the step at work all have passed
unless the user went past one (`OrderInv`); and, unless the user did, the records of steps that have
passed are of the project there is, or a rollback has removed them (`FreshInv`). `stale_evidence` shows what the exception is for.
`WhatIsAcceptedWasMeasured` holds for any plans, build files, failures, edits and retries. It assumes `Alone`: nobody
edits the build files or the profile during a validation, which the code cannot see to (between validations, and between
the creation of a run and its preflight, they may); and that `None`
is none of the values it stands beside (`NothingIsNone`). Its invariant says that a run works only from a measured
baseline, unless it was retried past the preflight, and one whose required phases passed where it may deliver
by itself (`RunInv`); and that a profile which counts as verified was seen to pass with the
build files there are or with those of the copy that a run has measured (`ProfileInv`), which a run keeps (`BaseStays`). The second
is weaker than the fingerprint promises: section 7 has the preflight of an old copy.

Of `SecurityScan` it proves what the order of steps and files comes to, for any agents, attempts, artifacts,
and repetitions from any step (`ScanSetting`: the numbers are positive, and `None` is no artifact, repaired or not). What is
combined has passed as it is on disk, unless the user went past the agents (`WhatIsCombinedPassed`): the artifacts stay
from attempt to attempt and from one start of
the step to the next, so `AgentsPassed` has to say of which agents they are to be believed. The
final report is the one that was scored unless the user went past its validation, and that of the findings there are
unless they went past its rendering (`FinalReportIsOfFindings`): a report that may be scored was then rendered
after the last combination, and one that may become final was scored as it is (`ReportIsCurrent`). What `passedBy`
has to remember is which steps were not executed again since somebody started beyond them.

`ChatProofs` proves the properties of `Chat` for any number of calls, requests, sessions and resets.
`RequestsAreAnsweredOnce` assumes `Careful`: nobody resets or deletes a session while it is
chatted in. The code does not see to that; section 7 says what happens. `AgentsKnowTheChat`
assumes in addition that, where a prompt is only the message, no recovery creates the session
again for it (`Remembers`). An agent session has been told the newest of what was answered, as many messages as a recovery
carries, and all of it unless a history was cut when it was made (`Knows`, `cut`); that a longer chat
has none of its newest messages beyond those of its beginning or new ones is `NewestOf`. Their invariant says that
a call that is at work is alone with the session, that its question is in the messages (`AnswerInv`), and what the
agent session it uses has heard: the session's own between calls (`Heard`), that of a call while it is at work (`Carries`).

`ProjectWriterProofs` proves, for any number of runs and processes, that one run of a project is executed
at a time and that its task holds the lock file (`OneWriter`, `WritersHoldTheLock`, `TheWriterHoldsTheLock`). `OneServer` is what
they assume: no command beside the server, servers one after the other, finitely many of them,
requests that wait for a task to begin, and users who resume a run only when no other is active. Each of
these is needed (section 7). The invariant relates the four places that say who
writes (status and owner of a run, the lock file, the tasks): at most one run is
active, a run somebody executes is owned by whom executes it, and a process that is gone
owns none that is not about to be recovered.

`ProjectWriterProofs` also proves the safety of `AgentProcess`, for any servers and commands, agents, runs and process
ids. `ReaperHarmsNobody` needs no assumption about the system: an agent that is up has an id nobody else has
(`PidsAre`), whoever is on a reaper's list has lost its controller (`ReapedAre`), and its id is nobody else's
unless it was given away after the reaper looked (`IdsAreTheirs`, `late`). So it is about the look and not about the
signal, which follows after waits and without another look: `ReaperSignalsItsOwn` is violated (section 7).
`ProcessesEnd` assumes `~CancelInGrace` for the calls that end, and of the orphans it says what `NoProcessIsLeft` says: that
they end before the next server works, as long as nothing has disturbed the registry. It rests on `Kept`, an
agreement of three tables: an open call is in the handles of its controller (`Handled`), an agent that is up
is on disk and in the memory of whatever server there is (`Recognised`), and what is there is an open call's
or an orphan's (`EntriesAreOurs`); so a server at work has no orphans, and one that starts has all of them on its
list (`OrphansAreReaped`). Each of the three disturbances breaks it (section 7).

`AtomicDeliveryProofs` proves `JournalIsTrue` (`JournalStaysTrue`) and that `AtomicDelivery` implements
`ProjectDelivery` (`DeliveryIsAllOrNothing`), for any number of files, controllers, crashes, restarts and edits.
Both assume `Sheltered`, which is what the instances `delivery` and `edits` have in common: one process at a
time, heartbeats in time, and no crash after one that interrupted a rollback. The first is needed for done to mean
delivered, the last for rolled back to mean clean: section 7 has what happens otherwise. That of the files of
a finished run is promised until the first edit (`DeliveryIsSound` is `IInv` as long as `edits = 0`, and edits only grow);
that of a rolled back one whoever edits.

`IInv` says of the journal on disk what whoever finds it may
conclude from its status (`JournalIsSound`: verifying or committed only over the new files, rolled back
only over the old ones, a backup as soon as there is a list of operations), and of the
controller at work at which place it is: up to which operation the files are new, or
old again (`Progress`). A rollback that was interrupted leaves a journal that calls some operations undone,
and a controller that resumes it applies them again. They are old (`StillUndone`) until then, and from then on
no crash comes that would let another rollback go by the marks (`Whole`: none of them, or no crash
left). What makes the invariant inductive is the lease: a controller whose
lease could be refused after the commit would roll a committed delivery back, so
`LeaseIsKept` has to say that the lease, its token and the token the delivery expects agree;
and the monitor writes back what it read before its rollback, so `MonitorSaw` has to say that
this was not the end of a run. Each action is shown to keep the invariant and to be a step
of `ProjectDelivery`, or none, in one lemma (`Delivered`).

Its second part, `RolledBackIsClean`, is proved under less (`RolledBackLeavesNothing`): `Orderly`, which lets leases
run out. Its invariant `EditedInv` shares only `OneActive` with `IInv`, since under edits neither the files nor
the backup are what the journal's status says. What holds instead is that what was there before never came from the agent
(`BaselineIn`); that the backup has it, or a user changed the file before the backup did (`BackedUp`);
and that a rollback marks an operation only if it could put back what was there, so that one that meets
a file it cannot put back never comes to its end (`UndoneRight`, `Undoable`). `Unbroken` says of a journal that a
delivery may go on with it: no rollback has worked on it, or one that cannot end, or one that the last crash interrupted and whose
marks are still right (`Undone`).

`StoresProofs` proves that an update of the JSON store that returned is in the file, and that one process at a time has
the lock, for any processes of which any may die (`UpdatesStay`). It assumes only that no holder is slow, and
it holds until two waiters have found the same lock stale (`FileInv`: `LockInv` and `StoreInv` as long as `~together`).
Then both unlink it by its path, and the second unlinks the lock the first has
taken since (`json_store.py:44`). It also proves what `Migrations` promises, for any number of controllers
and faults: whoever goes on to migrate has seen to the backup of what there was (`BackupInv`), and
where one at a time is at work, what it has to do is what is missing (`AloneInv`), so it neither applies a
version again nor fails the verification, nor inserts a first document beside another. Of `SqliteStore` it proves that the tables say what the
document says, for any runs, steps and limits: the checkpoints of a list that was never cut have their
places for numbers (`ListIsSound`), so that the key of `checkpoints` only ever refuses a full list; the steps
of a run do not change after its creation, so that the key of `run_steps` only refuses that; an update that is refused changes
nothing, the document no more than its tables; and a save of what
was loaded earlier finds a document that was once stored (`IsDocument` of `snap`). That the table of locks
names who has the lock (`LocksAreHeld`) assumes `OneLock`, one run of a project at a time, which is what
`ProjectWriter` is about: the row of a second holder replaces that of the first.

Of `Assets` it proves `StartedIsServed` for any manifests, contracts, texts and starts, and whatever edits, deletions,
renames and interrupted starts leave (`RunsAreOfTheirProject`). The model reads a file as the code does, root by root
and each time it needs one; the property says what a run should have seen at once, file by file. `FoundIsOverlay` says that the
two agree, and `StepIsSeen` that a step, read when the workflow is loaded and again when the run is created, has the text
and the switch of its contract: of the one of the same name if it stands for a text. For this a contract found has to be one: files hold what their category does
(`AssetTypeOK`), because a rename stays within its category and every write is of its own
(`AssetAssumptions`). The expansion of includes is recursive and nothing is proved of it; the
theorem holds for whatever references it gives, and that a cycle or a missing manifest stops it is the code's guard
in `Loading`.

Only model-checked: every liveness property; what `RunController` does with two processes at a time;
that a loop is paused only without progress, which is not so (section 7);
what the combination of `SecurityScan` computes (`NothingIsLost`); what the expansion of
includes in `Assets` comes to. Liveness is out of the prover's reach here; so is what folds over a sequence
and recursive functions compute for every input.

## 7. Where the code and its documentation part

Six disagreements are runs of their own:

* `circuit_cancelled`: a call that is cancelled while it is the probe re-raises without
  a word to the breaker (`agent_execution_service.py:85`); `half_open_in_flight` stays set and
  `allow` refuses every later call. `doc/en/OPERATIONS.md:99` promises that a probe
  resumes the queue.
* `step_skipped`: once there is a task checkpoint its id takes the place of the step checkpoint's
  in the attempt key (`executor.py:479`), so a step that is sent back without a failure of
  its own keeps the key of its completed attempt and is skipped (`run_lease.py:158`), and
  the completion gate does not object to a pending step.
* `task_checkpoint_lost`: a checkpoint's id is the length of a list that is pruned, and the task
  (`task_checkpoints.py:61`). Once pruning has begun the length stays the same, so the next
  checkpoint of that task overwrites the archive of an earlier one, and when the earlier
  one is pruned its archive, by now that of the newest, is deleted. With the
  default of 8 the 17th execution of a task is the first whose checkpoint is lost at once.
  `tests/test_system_productization_v9.py:116` expects the newest archive to exist; its tasks
  all have different names.
* `compact_prompt`: whether a retry is sent the compact prompt is decided by whether the step was called
  before (`agent_step_runner.py:429`), and not by what the session has been told: one that a recovery
  made for the failed call, or whose only prompt failed, is asked to go on with a task it never saw.
* `stale_evidence`: the gate takes the last record under a key (`completion_gate.py:22`), whatever project it
  was made of. A run that was done is rerun, its new project fails its tests, the user marks or skips the
  failed step, and the run is done by the record of the old project. `completion_gate.py:39` calls the
  contract non-bypassable.
* `catalog`: a start that cannot load the system workflow, for one of its assets was deleted, renamed or
  rewritten through the API, replaces its manifest by a minimal one for good
  (`workflow_config_service.py:519`); `:588` says that the catalog is read-only.

The others are stated as properties in the modules. TLC finds each one violated in the
instance named here: the module itself with the constants of that part of a run (they stand in the
`INSTANCE` of the `MC` module or in its configuration), and the changes given.

| Property | Instance | What the code does | What is said |
|---|---|---|---|
| `AutoResumeIsNotSkipped` | `server` | the automatic resume (`workflow_service.py:933`) meets the lease of the process that died and ends (`executor.py:114`); it passes when the process id is the same (one owner for both) | `doc/en/ARCHITECTURE.md:74` |
| `ShutdownLeavesRecoverable` | `server` | tasks are cancelled (`main.py:72`), and report it, before the runs are marked (`:88`) | comment in `main.py:85` |
| `StopIsReportedAsCancelled` | `server` | a step that fails while the run is "cancelling" ends it as failed (`executor.py:215`, `state_machine.py:15`) | `USER_GUIDE.md:82`, `OPERATIONS.md:66` |
| `OneWriter` | `server`, `PromptFinalize = FALSE` | the done callback of the old task removes the entry of the new one (`workflow_service.py:182`) | `ARCHITECTURE.md:43` |
| `OneController` | `command`, `OthersStale = TRUE` | the monitor writes back a store it read earlier (`maintenance_service.py:238`) | `OPERATIONS.md:97` |
| `RolledBackIsClean` | `delivery`, `LastInRollback = FALSE` | a resumed delivery applies again what an interrupted rollback put back; after a crash the next rollback skips what the journal calls rolled back (`delivery_journal.py:241`) | comment in `delivery_journal.py:238` |
| `FencedOnlyWhenLost` | `delivery`, no crashes | the commit checks the copy of the record from before the validation (`atomic_delivery.py:180`), whose lease has run out while the heartbeat renewed the stored one | `ARCHITECTURE.md:65` |
| `CommitNeedsTheLease` | `delivery`, no crashes, `OneAtATime` and `Punctual` FALSE | the check passes without a lease and takes the owner from the record (`atomic_delivery.py:39`) | comment in `atomic_delivery.py:184` |
| `DoneIsDelivered` | the same | a committed journal is rolled back when its note is refused (`atomic_delivery.py:186`), and the new holder has already found it committed | `USER_GUIDE.md:113` |
| `EditsSurvive` | `edits`, no crashes | a rollback puts back a file the user edited after it was applied (`delivery_journal.py:250`) | `ARCHITECTURE.md:68` |
| `DoneIsRecorded` | `delivery`, 1 crash | a delivery found committed returns without recording it (`atomic_delivery.py:123`) | `atomic_delivery.py:52` |
| `OneProbe` | `circuit`, no cancellations | the late answer of a call admitted earlier clears the probe's flag (`model_circuit_breaker.py:92`) | `OPERATIONS.md:99` |
| `OneWriterPerProject` | `writers` with 2 runs, `CarefulResume = FALSE` | resume does not look at other runs (`workflow_service.py:887`) | `ARCHITECTURE.md:43` |
| `OneWriterPerProject` | `writers` with 2 runs, none unattended, `PromptBegin = FALSE` | a retried run still names the owner that died and is taken for stale (`stores/step_store.py:96`) | `ARCHITECTURE.md:43` |
| `OneWriterPerProject` | `writers`, 2 runs, `Cli = {p2}`, `MaxUp = 2` | the lock around a creation is one process's (`workflow_service.py:373`) | `OPERATIONS.md:58` |
| `AutoResumeIsAlone` | `writers`, 2 runs, `Cli = {p2}`, `MaxUp = 1` | every interrupted unattended run is resumed (`workflow_service.py:933`) | docstring, `workflow_service.py:918` |
| `DoneIsExecutedWithoutTasks` | `steps`, `NumSteps = 3`, `MaxNumber = 5`, `MaxCheckpoints = 3`, `MaxRetries = 2`, no restart or request | checkpoint ids repeat once their list is cut (`executor.py:488`) | `executor.py:354` |
| `DoneIsExecutedWithoutTasks` | `steps`, `RetryInOrder = FALSE` | a step retried by hand completes a run whose earlier steps are pending (`completion_gate.py:108`) | |
| `OnlyTheLastIsRepeated` | `steps`, `NumSteps = 3`, `TaskSteps = {}`, any step as a target, no restart | a failure that goes forward leaves a failed step behind; the resume starts at that one and executes again what passed after it (`run_lifecycle.py:82`) | `OPERATIONS.md:98` |
| `ResumeIsNotRefused` | `steps`, no request | the open attempt of the dead controller refuses the next one (`run_lease.py:167`) | `USER_GUIDE.md:69` |
| `NothingIsRepeated` | `steps` | a resume with all steps passed executes the last again (`run_lifecycle.py:82`) | `OPERATIONS.md:98` |
| `RetryIsFresh` | `steps` | a manual retry clears the retry count and not the streak (`stores/step_store.py:108`), so a step may fail for good at its first failure | `workflow_service.py:697` |
| `EarlierTasksKept` | `tasks`, `Number = <<1, 3>>` | the number of a task is compared with the index of the current one (`task_loop_actions.py:434`): with a number left out the task just before is not checked | the check's own message, `task_loop_actions.py:464` |
| `RolledBackIsRedone` | `tasks` | a task that was set back is skipped when its artifact is there and edits that were refused left its markers in the project | `workflow_service.py:995` |
| `RolledBackCanComplete` | `tasks` | a rollback sets the repair task back, which no later list has, and the completion gate refuses the run for good (`completion_gate.py:94`) | |
| `AnsweredOnce`, `AgentKnowsTheChat` | `chats`, `Careful = FALSE` | a session is reset or deleted while a chat in it waits for the agent; the answer is written into what is there afterwards (`chat_service.py`) | |
| `AgentKnowsTheChat` | `chats`, `Recovery = {"create"}` | a session that is created again for a prompt with only the message has heard nothing of the chat (`agent_execution_service.py:97`) | |
| `CallsEndTheirAgents` | `server` of `shared`, `CancelInGrace = TRUE` | a call that is cancelled in the grace period of its process does not send the second signal (`process_supervisor.py`) | |
| `CallsEndTheirTrees` | `server` of `shared` | the end of a tree returns when its leader has ended by itself (`process_supervisor.py:89`): its children run on | docstring, `process_supervisor.py:82` |
| `ReaperSignalsItsOwn` | `server` of `shared` | after its look the reaper signals by number (`process_registry.py:107`, `:214`), with waits between: the number may be somebody else's by then | comment in `process_registry.py:91` |
| `OrphansEndFirst` | `script` of `shared` | an agent that has replaced its image is not recognised by the reaper (`process_registry.py`) | |
| `LiveAgentsAreOnDisk` | `steps` or `command` of `shared` | the second agent of a run replaces the record of the first, which runs on, and a second controller writes the file from its own records alone (`process_registry.py`) | |
| `ReadersLeaveNoTrace` | `steps` of `agents` | what an agent edited in a call that failed, or in a correction, is not put back (`agent_step_runner.py:202`) | |
| `OwnAnswers` | `outages` | a turn that ended by a limit leaves its prompt in the session, and the next turn gets that answer too (`qwen_serve.py`) | |
| `NoDaemonLeft` | `outages` | a daemon that was not healthy in time is never registered, and nobody stops it | |
| `OneTurnPerSession` | `turns` with three turns of one conversation, forgotten at any time | forgetting a conversation drops its lock, held or not, so that turns meet in its next session | |
| `OneInside` | `file` | a stale lock is removed by its path (`json_store.py:44`): a second waiter that found it stale removes the new one; with `Slow = TRUE` a holder beyond 60 s loses it as well | |
| `UpdatesCommit` | `store` | the ids of step checkpoints repeat once the list is full (`executor.py:488`), the table's key refuses them (`sqlite_store.py:230`), and with it every later update of the run; so do the steps of a manifest that is included twice (`:183`) and artifacts with one id | the class comment in `sqlite_store.py` |
| `OnlyLoopsArePaused` | `retries`, `Budget.fresh = 2`, `Rotates = {}` | every n-th failure of a class pauses the run, also when the project got better (`retry_guard.py:271`) | `failure_classifier.py`, on `RETRY_LOOP_DETECTED` |
| `VerifiedWithTheFilesOfNow` | `phases` | a preflight validates the copy made when the run was created and records the project's fingerprint of now (`project_validation_profile.py:234`, `autopilot_preflight.py:29`): build files edited in between count as verified | |
| `FinalIsScored` | `scan` | the last step takes any score that passed, whatever report it is of (`security_report.py:452`); a run that goes on past the validation has an old one | |
| `ConsensusIsOfAgents` | `scan`, 1 agent, an artifact with three candidates of one key | consensus counts candidates and not agents (`security_common.py:861`) | |

The flags that the passing runs set (`PromptFinalize`, `OneAtATime`, `CarefulResume`,
`PromptBegin`, `RetryInOrder`, `LastInRollback`, `ProbeCancels`, `Careful`, `CancelInGrace`, `Slow`,
`Alone`, and one owner or current snapshots) are therefore what has to be true of a
deployment and its users for the properties of section 4 to hold: one server on a store,
no command next to it while a delivery is open, requests that leave a finished task the time of one
turn of the event loop, users who look whether another run is active before they resume one, sessions that are not
reset while they are chatted in, build files that nobody edits during a validation.

Met while modelling, and not stated as properties, for what is odd is in one place and not in an order of
steps:

* The gate of a patch looks validation results up by the key of the validation step, and they are
  recorded under `test`, `user_validation` or the id of a phase (`patch_approval.py:107`), so that it never passes
  for the shipped workflow.
* A validation that fails is stored only if a later step of the same execution passes (`executor.py:459`). So after a rework
  whose tests fail, the gate of the patch finds the record of the tests before (`patch_approval.py:114`), and the rework can be
  approved and applied. `AppliedIsReviewed` names the exception (`unproven`).
* The combination of a scan reads every artifact there is, whatever became of its validation; a run that goes on from there
  by a retry, a resume or steps marked as passed combines what failed.
* Evidence for a whole selection is not bound to contents. Once a part was applied and the same file is
  reworked, every later application ends in `ATOMIC_APPLY_CONFLICT` (`isolated_workspace.py:235`).
* A rollback of a task clears the results and leaves `output/external-validation-result.md`, which the gate reads too.
* A run can be "ready" in its preflight and never deliverable (`project_validation_profile.py:90`,
  `autopilot_policy.py:31`). The preflight is stored before `AUTOPILOT_ENVIRONMENT_NOT_READY` is raised, so a retry
  skips it (`autopilot_preflight.py:27`); a retry from a later step skips the baseline (`executor.py:131`).
* The API accepts any YAML as a contract. One with a value no step can be made of, such as `retry: often`, raises a `ValueError`
  (`workflow_asset_service.py:859`) that a start does not catch (`workflow_config_service.py:515-521` catches `HTTPException`),
  so that no start succeeds until the file is corrected.
* A step that stands for a text gets the settings of the contract with the text's name, or the creation of the run ends in a
  404 (`workflow_asset_service.py:557`, `:840`, called at `workflow_service.py:372`).
* The score of a report counts how the confidence of its findings goes with their evidence
  (`security_common.py:662`), and that confidence was computed by the program: where the findings score below the threshold,
  as one grave finding with good evidence and low confidence does, no attempt at the report can pass.
* A run's step takes some flags of its contract and drops others (`compactPrompt`, `enableTaskLoop`); a manifest that
  includes another one twice gets its step keys twice; a text that is missing is read as empty
  (`workflow_asset_service.py:262`).
* Of two controllers that migrate at once one fails on the primary key of the version table, and has to be started again.

## 8. Not modelled

* *Adaptive and review actions*: the manifest they write is a constant of `TaskLoop` (any tasks, any
  files), their calls are those of `AgentStep`. What they say is text.
* *Event bus and event log*: read by people and the user interface; no decision depends on them.
  The log's rows in the tables are in `SqliteStore`.
* *Agent providers*: wrappers of external commands; their outcome is a choice in `ModelCircuit`,
  `AgentStep` and `Chat`. The Qwen daemon is external, too, and is modelled as the code uses it.
* *Pure input and output*: HTTP routes, the command line's parser, the web UI, reports, traces, analytics,
  test doubles.
* *Texts computed from texts*: prompts (what they tell is kept), parsing of test output and of agents'
  artifacts (their result is a choice), lint, diffs, previews.
* Inside the modelled parts: preflight is a wait that ends or fails in `RunController`; paths of
  workspaces; `submit_guidance` as a request of `StepLoop`; `snapshots` and `reset` of the breaker; a
  provider limit that changes while calls hold slots; queries, vacuum and integrity checks of the
  database; attachments of a chat; permissions the daemon asks for; import and history of assets; in
  `TaskLoop` tests written by Build (they are put back before anything looks at them, but for those it
  deletes), the cut of a feedback at 2000 characters, and projects too large for a checkpoint.
* The models are of the parts, not of their product: what one part needs of another is a choice
  in its module (any retry target in `StepLoop`, any outcome of a call in `Chat`), or a flag.
