------------------------------- MODULE TaskLoop --------------------------------
(***************************************************************************)
(* The task loop of the build step: which tasks of the manifest an agent   *)
(* works on again, what becomes of its edits, the state files that keep a  *)
(* later task from undoing an earlier one, and the task checkpoints with   *)
(* their rollback.                                                         *)
(*                                                                         *)
(*   app/workflow_runtime/general_actions.py    build_step, its task loop  *)
(*   app/workflow_runtime/task_loop_actions.py  task state files           *)
(*   app/workflow_runtime/base_actions.py       failed attempts            *)
(*   app/workflow_runtime/repair_task_policy.py feedback, the repair task  *)
(*   app/workflow_runtime/task_checkpoints.py   checkpoints                *)
(*   app/services/workflow_service.py           rollback_task              *)
(*                                                                         *)
(* A file is the set of the tasks whose edits it has; the edits of the     *)
(* Marked tasks define something by name, which is all a state file keeps  *)
(* of them. The files are those Build owns: what an agent writes to tests  *)
(* is put back before anything looks at it.                                *)
(*                                                                         *)
(* The loop waits for its agent and for validations. It does not wait from *)
(* the end of the agent's work to the artifact of the task.                *)
(***************************************************************************)
EXTENDS Integers, Sequences

CONSTANTS
  NumTasks,     \* the build tasks of the manifest, in its order
  Number,       \* of each task, the number in its TASK-nnn
  File,         \* the files
  Marked,       \* the tasks whose edits leave a definition with a name
  Keep,         \* AIWF_TASK_CHECKPOINT_KEEP, 8 by default
  HasScript,    \* does the run have a validation script?
  MaxWork,      \* bound: tasks an agent works on
  MaxCrashes,   \* bound: crashes of the controller
  MaxRollbacks  \* bound: rollback_task requests

Task   == 1..NumTasks
Repair == NumTasks + 1 \* TASK-999, in the list when the feedback is generic
AnyTask == Task \cup {Repair}

ASSUME TasksAssumption ==
  /\ NumTasks \in Nat \ {0}
  /\ Number \in [Task -> 1..998]
  /\ Marked \subseteq AnyTask
ASSUME LimitsAssumption ==
  /\ Keep \in Nat /\ Keep >= 2
  /\ HasScript \in BOOLEAN
  /\ {MaxWork, MaxCrashes, MaxRollbacks} \subseteq Nat

VARIABLES
  project,  \* the project: what each file holds
  before,   \* the same when the agent began with the task: attempt_snapshot
  direct,   \* direct_files: what it wrote since. What it deleted is not there
  artifact, \* the tasks with a build-result.md
  state,    \* of each task, the files and markers of its build-state.json
  feedback, \* the latest retry feedback for build
  error,    \* what the feedback will be if the step is retried
  mem,      \* the checkpoints and tasks of the run in the controller's memory
  saved,    \* the same in the store
  archive,  \* the zip files: from checkpoint id to the project it holds
  at, index,
  results,  \* the tasks whose result goes into build-result.md
  early,    \* the loop ended because the external validation passed
  work, crashes, rollbacks

files    == <<artifact, state, archive>>
talk     == <<feedback, error>>
taskLoop == <<at, index, results, early>>
counts   == <<work, crashes, rollbacks>>
taskVars == <<project, before, direct, files, talk, mem, saved, taskLoop, counts>>

Absent   == {0} \* what a file holds that does not exist: no set of tasks
Content  == (SUBSET AnyTask) \cup {Absent}
Project  == [File -> Content]
NoProject == [f \in File |-> Absent]
Feedback == [generic : BOOLEAN, tasks : SUBSET AnyTask]
NoFeedback == [generic |-> FALSE, tasks |-> {}]
Status   == {"unknown", "passed", "pending"}

-----------------------------------------------------------------------------
(* The state files.                                                        *)

\* _content_markers
Markers(content) == content \cap Marked

\* _write_task_direct_state
NewState ==
  [state EXCEPT ![index] = {<<f, Markers(project[f])>> : f \in direct}]

Holds(e) == project[e[1]] # Absent /\ e[2] \subseteq project[e[1]]

\* _task_direct_state_is_satisfied
Satisfied(t) == state[t] # {} /\ \A e \in state[t] : Holds(e)

\* Mutant: the check looks only at the task just before.
MutLost(st) ==
  {t \in Task : /\ Number[t] = index - 1
                /\ \E e \in st[t] : e[2] # {} /\ ~Holds(e)}

\* _validate_previous_direct_task_states_preserved: the tasks whose markers
\* are gone, of those whose number is below the index of the current one.
Lost(st) ==
  {t \in Task : /\ Number[t] < index
                /\ \E e \in st[t] : e[2] # {} /\ ~Holds(e)}

-----------------------------------------------------------------------------
(* The loop.                                                               *)

Last == IF feedback.generic THEN Repair ELSE NumTasks

NeedsWork(t) ==
  t = Repair \/ t \in feedback.tasks \/ t \notin artifact \/ ~Satisfied(t)

Skip ==
  /\ at = "loop" /\ index <= Last /\ ~NeedsWork(index)
  /\ results' = results \cup {index}
  /\ index' = index + 1
  /\ UNCHANGED <<project, before, direct, files, talk, mem, saved, at, early,
                 counts>>

\* The snapshot of an attempt ends with it.
Forget == before' = NoProject /\ direct' = {}

\* The agent of task t leaves a file alone, deletes it, or writes it; of what
\* others wrote there it may drop something.
Edit(t) ==
  \E w \in SUBSET File, p \in Project :
    /\ \A f \in w :
         /\ p[f] # Absent /\ t \in p[f]
         /\ p[f] \ {t} \subseteq project[f]
    /\ \A f \in File \ w : p[f] \in {project[f], Absent}
    /\ project' = p /\ direct' = w

\* The snapshots, and _run_task_agent_step: whether it returns, fails or runs
\* into its timeout makes no difference to what it has done by then.
Work ==
  /\ at = "loop" /\ index <= Last /\ NeedsWork(index)
  /\ work < MaxWork /\ work' = work + 1
  /\ before' = project
  /\ Edit(index)
  /\ at' = "edited"
  /\ UNCHANGED <<files, talk, mem, saved, index, results, early, crashes,
                 rollbacks>>

\* The edits are valid and undo nothing: the task's result is written. It does
\* not matter whether the agent's step succeeded, for after a failure of any
\* kind the files it wrote are candidates that pass the same checks.
Accept ==
  /\ at = "edited" /\ direct # {}
  /\ Lost(NewState) = {}
  /\ state' = NewState
  /\ artifact' = artifact \cup {index}
  /\ results' = results \cup {index}
  /\ at' = "accepted"
  /\ Forget
  /\ UNCHANGED <<project, archive, talk, mem, saved, index, early, counts>>

Raise(generic, tasks) ==
  /\ error' = [generic |-> generic, tasks |-> tasks]
  /\ at' = "failed"
  /\ Forget
  /\ UNCHANGED <<artifact, archive, feedback, mem, saved, index, results, early,
                 counts>>

\* The edits undo an earlier task. The state file is written by then, and as
\* the check fails for the candidate files too, nothing restores the project.
RejectLost ==
  /\ at = "edited" /\ direct # {}
  /\ Lost(NewState) # {}
  /\ state' = NewState
  /\ Raise(FALSE, {index} \cup Lost(NewState))
  /\ UNCHANGED project

\* Another check fails: before the state file is written or, for the paths of
\* its contract, after it. No message of theirs names a task.
RejectInvalid ==
  /\ at = "edited" /\ direct # {}
  /\ \/ UNCHANGED state
     \/ Lost(NewState) = {} /\ state' = NewState
  /\ \E generic \in BOOLEAN : Raise(generic, {})
  /\ UNCHANGED project

\* The agent failed or wrote nothing. What it deleted comes back if the failure
\* is of one of four classes.
RejectEmpty ==
  /\ at = "edited" /\ direct = {}
  /\ Raise(FALSE, {index})
  /\ project' \in {project, before}
  /\ UNCHANGED state

\* The execution of the run ends, and what it remembers is gone.
Leave ==
  /\ at' = "down" /\ index' = 1 /\ results' = {} /\ early' = FALSE
  /\ error' = NoFeedback
  /\ mem' = saved
  /\ Forget
  /\ UNCHANGED <<files, feedback, saved>>

\* UserInputRequired: what the agent wrote so far stays, or what it deleted
\* comes back, as for any other failure.
Ask ==
  /\ at = "edited"
  /\ project' \in {project, before}
  /\ Leave
  /\ UNCHANGED counts

-----------------------------------------------------------------------------
(* Checkpoints.                                                            *)

\* Mutant: the ids go on from the list in the store.
MutNextId == <<Len(saved.ckpts) + 1, index>>

NextId == <<Len(mem.ckpts) + 1, index>>

\* The last Keep of the checkpoints.
Kept(ckpts) == SubSeq(ckpts, Len(ckpts) - Keep + 1, Len(ckpts))
Pruned(ckpts) ==
  {ckpts[i].id : i \in 1..(Len(ckpts) - Keep)}

\* create_task_checkpoint; then the loop goes on unless the validation script
\* passes already.
Checkpoint ==
  LET rec == [id |-> NextId, task |-> index, holds |-> project]
      all == Append(mem.ckpts, rec) IN
  /\ at = "accepted"
  /\ archive' = [c \in (DOMAIN archive \cup {NextId}) \ Pruned(all) |->
                   IF c = NextId THEN project ELSE archive[c]]
  /\ mem' = [ckpts |-> IF Len(all) > Keep THEN Kept(all) ELSE all,
             tasks |-> [mem.tasks EXCEPT ![index] = "passed"]]
  /\ index' = index + 1
  /\ early' \in IF HasScript THEN BOOLEAN ELSE {FALSE}
  /\ at' = "loop"
  /\ UNCHANGED <<project, before, direct, artifact, state, talk, saved, results,
                 counts>>

-----------------------------------------------------------------------------
(* The step and the run around the loop.                                   *)

\* build-result.md is written, and clear_guard saves what the action did.
Pass ==
  /\ at = "loop" /\ (early \/ index > Last)
  /\ saved' = mem
  /\ at' = "passed"
  /\ UNCHANGED <<project, before, direct, files, talk, mem, index, results, early,
                 counts>>

Begin ==
  /\ at' = "loop" /\ index' = 1 /\ results' = {} /\ early' = FALSE

\* append_failure_feedback, for a failure of the step ...
RetryBuild ==
  /\ at = "failed"
  /\ feedback' = error /\ error' = NoFeedback
  /\ Begin
  /\ UNCHANGED <<project, before, direct, files, mem, saved, counts>>

\* ... or of a later one that goes back to it.
SentBack ==
  /\ at = "passed" /\ work < MaxWork
  /\ feedback' \in {f \in Feedback : f.generic => f.tasks = {}}
  /\ Begin
  /\ UNCHANGED <<project, before, direct, files, error, mem, saved, counts>>

\* The run fails, is cancelled, or is done.
End ==
  /\ at \in {"passed", "failed"}
  /\ Leave
  /\ UNCHANGED <<project, counts>>

Crash ==
  /\ crashes < MaxCrashes /\ at # "down"
  /\ crashes' = crashes + 1
  /\ Leave
  /\ UNCHANGED <<project, work, rollbacks>>

\* A retry, a resume or an answer executes build again, from the record.
StartAgain ==
  /\ at = "down"
  /\ Begin
  /\ UNCHANGED <<project, before, direct, files, talk, mem, saved, counts>>

UpTo(i) == SubSeq(saved.ckpts, 1, i)

\* restore_task_checkpoint and apply_restore_state, for the first checkpoint of
\* the record with the given id.
RollbackTask ==
  /\ at = "down" /\ rollbacks < MaxRollbacks
  /\ \E i \in 1..Len(saved.ckpts) :
       LET id == saved.ckpts[i].id
           accepted == {saved.ckpts[j].task : j \in 1..i} IN
       /\ \A j \in 1..(i - 1) : saved.ckpts[j].id # id
       /\ id \in DOMAIN archive
       /\ project' = archive[id]
       /\ saved' = [ckpts |-> UpTo(i),
                    tasks |-> [t \in AnyTask |->
                                 IF saved.tasks[t] = "unknown" THEN "unknown"
                                 ELSE IF t \in accepted THEN "passed"
                                 ELSE "pending"]]
  /\ mem' = saved'
  /\ rollbacks' = rollbacks + 1
  /\ UNCHANGED <<before, direct, files, talk, taskLoop, work, crashes>>

-----------------------------------------------------------------------------

NoRecord == [ckpts |-> <<>>, tasks |-> [t \in AnyTask |-> "unknown"]]

TaskInit ==
  /\ project = NoProject /\ before = NoProject /\ direct = {}
  /\ artifact = {} /\ state = [t \in AnyTask |-> {}]
  /\ feedback = NoFeedback /\ error = NoFeedback
  /\ mem = NoRecord /\ saved = NoRecord
  /\ archive = [c \in {} |-> NoProject]
  /\ at = "loop" /\ index = 1 /\ results = {} /\ early = FALSE
  /\ work = 0 /\ crashes = 0 /\ rollbacks = 0

TaskNext ==
  \/ Skip \/ Work \/ Accept \/ RejectLost \/ RejectInvalid \/ RejectEmpty \/ Ask
  \/ Checkpoint \/ Pass \/ RetryBuild \/ SentBack \/ End
  \/ Crash \/ StartAgain \/ RollbackTask

TaskSpec == TaskInit /\ [][TaskNext]_taskVars

-----------------------------------------------------------------------------
(* Properties.                                                             *)

Record == [ckpts : Seq([id : (Nat \ {0}) \X AnyTask, task : AnyTask,
                        holds : Project]),
           tasks : [AnyTask -> Status]]

TaskTypeOK ==
  /\ project \in Project /\ before \in Project /\ direct \subseteq File
  /\ artifact \subseteq AnyTask
  /\ state \in [AnyTask -> SUBSET (File \X SUBSET Marked)]
  /\ feedback \in Feedback /\ error \in Feedback
  /\ mem \in Record /\ saved \in Record
  /\ \A c \in DOMAIN archive : archive[c] \in Project
  /\ at \in {"loop", "edited", "accepted", "passed", "failed", "down"}
  /\ index \in 1..(Repair + 1) /\ results \subseteq AnyTask /\ early \in BOOLEAN
  /\ work \in 0..MaxWork /\ crashes \in 0..MaxCrashes
  /\ rollbacks \in 0..MaxRollbacks

\* When build passes, every definition that a task of its result recorded is
\* still in the project: no later task, retry or repair has undone it.
EarlierTasksKept ==
  at = "passed" =>
    \A t \in results : \A e \in state[t] : e[2] # {} => Holds(e)

\* Every checkpoint the record lists can be restored, to the project as it was
\* when its task was accepted, through crashes, retries and rollbacks.
Restorable(r) ==
  \A i \in 1..Len(r.ckpts) :
    LET c == r.ckpts[i] IN c.id \in DOMAIN archive /\ archive[c.id] = c.holds
CheckpointsRestorable == Restorable(saved)

\* A task of the manifest that a rollback has set back is worked on again by
\* the next build that goes through the whole list.
RolledBackIsRedone ==
  at = "passed" /\ ~early => \A t \in Task : saved.tasks[t] # "pending"

\* The same for every task of the record: else the completion gate refuses the
\* run for good.
RolledBackCanComplete ==
  at = "passed" => \A t \in AnyTask : saved.tasks[t] # "pending"
==============================================================================
