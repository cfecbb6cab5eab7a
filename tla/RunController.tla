--------------------------- MODULE RunController ----------------------------
(***************************************************************************)
(* The controllers of one workflow run: the server incarnations and aiwf   *)
(* command-line processes that share one store, the asyncio tasks in which *)
(* they execute the run, and everything that starts, stops, interrupts and *)
(* repairs those tasks.                                                    *)
(*                                                                         *)
(*   app/workflow_runtime/executor.py       the execution of a run         *)
(*   app/services/workflow_service.py       start, resume, terminate       *)
(*   app/workflow_runtime/run_lifecycle.py  what a restart does to a run   *)
(*   app/main.py                            startup and shutdown           *)
(*   app/services/maintenance_service.py    the invariant monitor          *)
(*                                                                         *)
(* Grain. A store mutation is one transaction, so two processes interleave *)
(* between any two of them. Inside one process coroutines interleave only  *)
(* where one really waits: for an agent, a subprocess, a timer or a        *)
(* thread. A process whose coroutine is between two waits is not Quiet and *)
(* runs nothing else. The monitor and the startup and shutdown recovery    *)
(* are not transactions: they read the store, and later write it back      *)
(* whole; snap[p] is what process p has read.                              *)
(***************************************************************************)
EXTENDS Integers, FiniteSets

CONSTANTS
  Process,       \* process incarnations; none comes back after it ended
  Cli,           \* those that are aiwf commands: no monitor, no auto-resume
  Creator,       \* the process that created the run
  Owner, Nobody, \* see RunLease
  OwnerOf,       \* the "host:pid" of a process; an ended pid may be reused
  Task,          \* bound: the asyncio tasks that may ever execute the run
  MaxUp,         \* bound: processes alive at a time
  TTL, MaxToken, \* see RunLease
  OthersStale,   \* may another run make the whole store be written back?
  Punctual,      \* do heartbeats arrive before the lease runs out?
  PromptFinalize \* is a finished task finalized before the next request?

VARIABLES
  run,       \* the run record in the store
  grants,    \* history: every [owner, token] acquire_run_lease returned
  task,      \* the tasks: where each is and which token it was given
  reg,       \* runtime.running_tasks[run_id] of each process, 0 if absent
  phase,     \* the life of each process
  snap,      \* the store copy a process holds between its read and its write
  term,      \* the task terminate_run is about to cancel, -1 if none
  toRecover  \* history: the processes that began to shut down on a live run

vars == <<run, grants, task, reg, phase, snap, term, toRecover>>

L == INSTANCE RunLease
       WITH lease <- run.lease, last <- run.last, epoch <- run.epoch

Assumptions ==
  /\ Cli \subseteq Process /\ Creator \in Process
  /\ OwnerOf \in [Process -> Owner]
  /\ Task \subseteq Nat \ {0} /\ Task # {}
  /\ {OthersStale, Punctual, PromptFinalize} \subseteq BOOLEAN
  /\ L!Assumptions

-----------------------------------------------------------------------------
(* The run record.                                                         *)

RunStatus == {"queued", "running", "waiting_input", "cancelling",
              "failed", "cancelled", "done"}
ActiveStatus   == {"queued", "running", "waiting_input", "cancelling"}
TerminalStatus == {"done", "failed", "cancelled"}
ErrorCode == {"none", "INTERRUPTED", "RUN_LEASE_EXPIRED", "other"}

RunTransitions ==
  [queued        |-> RunStatus,
   running       |-> RunStatus,
   waiting_input |-> RunStatus,
   cancelling    |-> {"cancelling", "cancelled", "failed"},
   failed        |-> {"failed", "queued", "running", "cancelled"},
   cancelled     |-> {"cancelled", "queued", "running"},
   done          |-> {"done", "queued", "running"}]

RunRec ==
  [status : RunStatus, owner : Owner, code : ErrorCode,
   recoverable : BOOLEAN,      \* restart_recoverable
   cancel : BOOLEAN,           \* cancel_requested
   lease : L!LeaseRec, last : 0..MaxToken, epoch : 0..MaxToken]

\* cancel_requested(run)
CancelRequested == run.cancel \/ run.status = "cancelling"

-----------------------------------------------------------------------------
(* Processes and tasks.                                                    *)

Phase == {"off", "boot", "recover", "up", "closing", "stopped", "crashed"}
Alive == {"boot", "recover", "up", "closing"}

TaskPc == {"idle", "created", "acquire", "preflight", "ready", "working",
           "delivering", "mark", "release", "overtime", "ended", "over"}
Outcome == {"none", "done", "failed", "waiting_input", "cancelled", "timeout"}

TaskRec == [pc : TaskPc, proc : Process, token : 0..MaxToken,
            out : Outcome, auto : BOOLEAN]

\* Where a task waits for something outside its coroutine ...
Waiting == {"created", "preflight", "working", "delivering"}
\* ... and where it does so with its heartbeat running.
Beating == {"preflight", "working", "delivering"}
\* Where it is between two waits and keeps its process busy.
Busy == {"acquire", "ready", "mark", "release", "overtime"}

NoSnap == [of |-> "nothing"]
NoTerm == -1

TasksOf(p) == {t \in Task : task[t].pc # "idle" /\ task[t].proc = p}
Me(t) == OwnerOf[task[t].proc]
IsUp(p) == phase[p] = "up"
Runs(p) == phase[p] \in {"up", "closing"}

\* The event loop of p is free to run another coroutine.
Quiet(p) ==
  /\ snap[p] = NoSnap
  /\ \A t \in TasksOf(p) : task[t].pc \notin Busy
  /\ PromptFinalize => \A t \in TasksOf(p) : task[t].pc # "ended"

\* task and not task.done()
LiveTask(t) == t \in Task /\ task[t].pc \notin {"idle", "ended", "over"}

\* owner_process_is_alive
OwnerIsAlive(o) == \E p \in Process : phase[p] \in Alive /\ OwnerOf[p] = o

Goto(t, pc) == task' = [task EXCEPT ![t].pc = pc]
GotoMark(t, out) == task' = [task EXCEPT ![t].pc = "mark", ![t].out = out]

-----------------------------------------------------------------------------
(* executor.execute, one action for each stretch that is atomic.           *)

\* transition_run_status(run_id, "running", run_owner=...). An invalid
\* transition is an exception like any other and ends in _mark_failed.
Begin(t) ==
  /\ task[t].pc = "created"
  /\ Runs(task[t].proc) /\ Quiet(task[t].proc)
  /\ IF "running" \in RunTransitions[run.status]
     THEN /\ run' = [run EXCEPT !.status = "running", !.owner = Me(t),
                                !.code = "none"]
          /\ Goto(t, "acquire")
     ELSE GotoMark(t, "failed") /\ UNCHANGED run
  /\ UNCHANGED <<grants, reg, phase, snap, term, toRecover>>

\* acquire_run_lease. On a conflict execute returns: "execution skipped
\* because another live controller owns the Run".
AcquireLease(t) ==
  /\ task[t].pc = "acquire"
  /\ IF L!HeldByOther(run.lease, Me(t))
     THEN Goto(t, "ended") /\ UNCHANGED <<run, grants>>
     ELSE LET l == L!Acquired(run.lease, run.last, run.epoch, Me(t)) IN
          /\ l.token <= MaxToken
          /\ run' = [run EXCEPT !.lease = l, !.epoch = l.token]
          /\ grants' = grants \cup {[owner |-> Me(t), token |-> l.token]}
          /\ task' = [task EXCEPT ![t].pc = "preflight", ![t].token = l.token]
  /\ UNCHANGED <<reg, phase, snap, term, toRecover>>

\* ensure_autopilot_preflight returns.
PreflightEnds(t) ==
  /\ task[t].pc = "preflight"
  /\ Runs(task[t].proc) /\ Quiet(task[t].proc)
  /\ Goto(t, "ready")
  /\ UNCHANGED <<run, grants, reg, phase, snap, term, toRecover>>

\* Mutant: the cancellation check is missing.
MutStartAttemptUnchecked(t) ==
  /\ task[t].pc = "ready"
  /\ IF L!Asserts(run.lease, Me(t), task[t].token)
     THEN run' = [run EXCEPT !.lease.left = TTL] /\ Goto(t, "working")
     ELSE Goto(t, "ended") /\ UNCHANGED run
  /\ UNCHANGED <<grants, reg, phase, snap, term, toRecover>>

\* A controller with another owner id died here and may have left an attempt
\* open. Whether its key is the one of the step at hand is StepLoop's matter.
MayBeDuplicate(t) ==
  \E p \in Process : /\ phase[p] = "crashed" /\ OwnerOf[p] # Me(t)
                     /\ \E g \in grants : g.owner = OwnerOf[p]

\* One round of the loop up to the step's action: the cancellation check,
\* then renew_run_lease and begin_attempt in one mutation. When either of the
\* two refuses execute returns: "duplicate execution prevented".
StartAttempt(t) ==
  /\ task[t].pc = "ready"
  /\ IF CancelRequested
     THEN GotoMark(t, "cancelled") /\ UNCHANGED run
     ELSE IF L!Asserts(run.lease, Me(t), task[t].token)
          THEN \/ run' = [run EXCEPT !.lease.left = TTL] /\ Goto(t, "working")
               \/ MayBeDuplicate(t) /\ Goto(t, "ended") /\ UNCHANGED run
          ELSE Goto(t, "ended") /\ UNCHANGED run
  /\ UNCHANGED <<grants, reg, phase, snap, term, toRecover>>

\* The step passes. After a cancellation check the loop goes on, or, after
\* the last step, to the completion gate and the delivery of the result.
StepPasses(t) ==
  /\ task[t].pc = "working"
  /\ Runs(task[t].proc) /\ Quiet(task[t].proc)
  /\ IF CancelRequested THEN GotoMark(t, "cancelled")
     ELSE Goto(t, "ready") \/ Goto(t, "delivering")
  /\ UNCHANGED <<run, grants, reg, phase, snap, term, toRecover>>

\* The step fails and _recover_failed_step retries: reset_steps_from puts the
\* run back to "queued" whatever its status was.
StepRetries(t) ==
  /\ task[t].pc = "working"
  /\ Runs(task[t].proc) /\ Quiet(task[t].proc)
  /\ run' = [run EXCEPT !.status = "queued", !.code = "none"]
  /\ Goto(t, "ready")
  /\ UNCHANGED <<grants, reg, phase, snap, term, toRecover>>

\* The step, the preflight or the delivery fails for good, or the step asks
\* the user (UserInputRequired).
StepStops(t) ==
  /\ task[t].pc \in Beating
  /\ Runs(task[t].proc) /\ Quiet(task[t].proc)
  /\ \/ GotoMark(t, "failed")
     \/ task[t].pc = "working" /\ GotoMark(t, "waiting_input")
  /\ UNCHANGED <<run, grants, reg, phase, snap, term, toRecover>>

Delivered(t) ==
  /\ task[t].pc = "delivering"
  /\ Runs(task[t].proc) /\ Quiet(task[t].proc)
  /\ GotoMark(t, "done")
  /\ UNCHANGED <<run, grants, reg, phase, snap, term, toRecover>>

\* _heartbeat_run_lease. It renews while the run is queued, running or
\* cancelling. When the renewal is refused it cancels the execution, which
\* reports RUN_LEASE_LOST through _mark_failed.
HeartbeatStatus == {"queued", "running", "cancelling"}

\* Mutant: the new expiry is counted from the old one.
MutHeartbeat(t) ==
  /\ task[t].pc \in Beating
  /\ Runs(task[t].proc) /\ Quiet(task[t].proc)
  /\ run.status \in HeartbeatStatus
  /\ IF L!Asserts(run.lease, Me(t), task[t].token)
     THEN run' = [run EXCEPT !.lease.left = @ + TTL] /\ UNCHANGED task
     ELSE GotoMark(t, "failed") /\ UNCHANGED run
  /\ UNCHANGED <<grants, reg, phase, snap, term, toRecover>>

Heartbeat(t) ==
  /\ task[t].pc \in Beating
  /\ Runs(task[t].proc) /\ Quiet(task[t].proc)
  /\ run.status \in HeartbeatStatus
  /\ IF L!Asserts(run.lease, Me(t), task[t].token)
     THEN run' = [run EXCEPT !.lease.left = TTL] /\ UNCHANGED task
     ELSE GotoMark(t, "failed") /\ UNCHANGED run
  /\ UNCHANGED <<grants, reg, phase, snap, term, toRecover>>

\* run_timeout_sec runs out: asyncio.wait_for cancels execute.
RunTimeout(t) ==
  /\ task[t].pc \in Beating
  /\ Runs(task[t].proc) /\ Quiet(task[t].proc)
  /\ GotoMark(t, "timeout")
  /\ UNCHANGED <<run, grants, reg, phase, snap, term, toRecover>>

MarkTarget(out) == IF out = "timeout" THEN "cancelled" ELSE out

\* _mark_done, _mark_waiting_input, _mark_cancelled, _mark_failed: the status
\* transition. One that is refused in _mark_done becomes a failure; one that
\* is refused in the others escapes from execute, which then never reaches
\* _release_run_lease.
Mark(t) ==
  /\ task[t].pc = "mark"
  /\ LET target == MarkTarget(task[t].out) IN
     IF target \in RunTransitions[run.status]
     THEN /\ run' = [run EXCEPT !.status = target,
                       !.code = IF target = "done" THEN "none" ELSE "other"]
          /\ Goto(t, "release")
     ELSE /\ IF target = "done" THEN GotoMark(t, "failed")
                                ELSE Goto(t, "ended")
          /\ UNCHANGED run
  /\ UNCHANGED <<grants, reg, phase, snap, term, toRecover>>

\* Mutant: the released lease's token is forgotten.
MutRetiredForgets(r) == [r EXCEPT !.lease = L!NoLease]

Retired(r) == [r EXCEPT !.last = r.lease.token, !.lease = L!NoLease]

\* _release_run_lease: by owner id, without the fencing token.
ReleaseLease(t) ==
  /\ task[t].pc = "release"
  /\ run' = IF run.lease # L!NoLease /\ run.lease.owner = Me(t)
            THEN Retired(run) ELSE run
  /\ Goto(t, IF task[t].out = "timeout" THEN "overtime" ELSE "ended")
  /\ UNCHANGED <<grants, reg, phase, snap, term, toRecover>>

\* _execute_with_run_timeout reports the timeout, past the transition table.
Overtime(t) ==
  /\ task[t].pc = "overtime"
  /\ run' = [run EXCEPT !.status = "failed", !.code = "other"]
  /\ Goto(t, "ended")
  /\ UNCHANGED <<grants, reg, phase, snap, term, toRecover>>

\* _finalize_workflow_task: the done callback empties the registry entry of
\* the run, whichever task is in it by now.
Finalize(t) ==
  /\ task[t].pc = "ended"
  /\ Runs(task[t].proc)
  /\ snap[task[t].proc] = NoSnap
  /\ \A u \in TasksOf(task[t].proc) : task[u].pc \notin Busy
  /\ Goto(t, "over")
  /\ reg' = [reg EXCEPT ![task[t].proc] = 0]
  /\ UNCHANGED <<run, grants, phase, snap, term, toRecover>>

-----------------------------------------------------------------------------
(* Requests to a server.                                                   *)

\* Mutant: a task is started without looking for one that is still running.
MutStartAnyway(p, r, auto) ==
  /\ \E t \in Task :
       /\ task[t].pc = "idle"
       /\ \A u \in Task : task[u].pc = "idle" => t <= u
       /\ task' = [task EXCEPT ![t] = [pc |-> "created", proc |-> p,
                                       token |-> 0, out |-> "none",
                                       auto |-> auto]]
       /\ reg' = [reg EXCEPT ![p] = t]
  /\ run' = r

\* start_workflow_task, for the run record r that is left in the store.
StartWorkflowTask(p, r, auto) ==
  /\ ~LiveTask(reg[p])
  /\ \E t \in Task :
       /\ task[t].pc = "idle"
       /\ \A u \in Task : task[u].pc = "idle" => t <= u
       /\ task' = [task EXCEPT ![t] = [pc |-> "created", proc |-> p,
                                       token |-> 0, out |-> "none",
                                       auto |-> auto]]
       /\ reg' = [reg EXCEPT ![p] = t]
  /\ run' = r

Reset(r) == [r EXCEPT !.status = "queued", !.code = "none"]

\* retry_run, submit_guidance and, when it waits for input, submit_answers.
\* None of them touches restart_recoverable or cancel_requested.
RetryRun(p) ==
  /\ IsUp(p) /\ p \notin Cli /\ Quiet(p)
  /\ StartWorkflowTask(p, Reset(run), FALSE)
  /\ UNCHANGED <<grants, phase, snap, term, toRecover>>

\* resume_run.
Resumed(r) == [Reset(r) EXCEPT !.recoverable = FALSE]

ResumeRun(p) ==
  /\ IsUp(p) /\ p \notin Cli /\ Quiet(p)
  /\ StartWorkflowTask(p, Resumed(run), FALSE)
  /\ UNCHANGED <<grants, phase, snap, term, toRecover>>

\* task.cancel(): a task that has not run yet never runs its handlers.
CancelTask(t) ==
  IF task[t].pc = "created" THEN Goto(t, "ended") ELSE GotoMark(t, "cancelled")

CancelledDirectly(r) == [r EXCEPT !.status = "cancelled"]
CancelMarked(r) == [r EXCEPT !.status = "cancelling", !.cancel = TRUE]

\* terminate_run when it does not have to wait for an agent process to die.
TerminateRun(p) ==
  /\ IsUp(p) /\ p \notin Cli /\ Quiet(p) /\ term[p] = NoTerm
  /\ IF LiveTask(reg[p])
     THEN CancelTask(reg[p]) /\ run' = CancelMarked(run)
     ELSE run' = CancelledDirectly(CancelMarked(run)) /\ UNCHANGED task
  /\ UNCHANGED <<grants, reg, phase, snap, term, toRecover>>

\* terminate_run when an agent process is running: it marks the run, looks
\* the task up, and waits for the process tree to die ...
TerminateBegins(p) ==
  /\ IsUp(p) /\ p \notin Cli /\ Quiet(p) /\ term[p] = NoTerm
  /\ LiveTask(reg[p]) /\ task[reg[p]].pc \in Beating
  /\ run' = CancelMarked(run)
  /\ term' = [term EXCEPT ![p] = reg[p]]
  /\ UNCHANGED <<grants, task, reg, phase, snap, toRecover>>

\* ... and then cancels the task it has looked up, if that is still running.
TerminateEnds(p) ==
  /\ IsUp(p) /\ Quiet(p) /\ term[p] # NoTerm
  /\ IF LiveTask(term[p])
     THEN CancelTask(term[p]) /\ UNCHANGED run
     ELSE run' = CancelledDirectly(run) /\ UNCHANGED task
  /\ term' = [term EXCEPT ![p] = NoTerm]
  /\ UNCHANGED <<grants, reg, phase, snap, toRecover>>

-----------------------------------------------------------------------------
(* The invariant monitor, and the recovery at startup and shutdown: a read  *)
(* of the store and a later write of what was read.                        *)

TakeSnapshot(p) == snap' = [snap EXCEPT ![p] = [of |-> "store", run |-> run]]
DropSnapshot(p) == snap' = [snap EXCEPT ![p] = NoSnap]

\* Mutant: only the leases of finished runs are repaired.
MutRepairedTerminalOnly(p, r) ==
  IF r.status \notin ActiveStatus /\ r.lease # L!NoLease THEN Retired(r) ELSE r

\* inspect_runtime_invariants(repair=True) on one run record.
MonitorRepaired(p, r) ==
  IF r.status \notin ActiveStatus /\ r.lease # L!NoLease
  THEN Retired(r)
  ELSE IF /\ r.status \in ActiveStatus
          /\ r.lease # L!NoLease /\ L!Expired(r.lease)
          /\ ~LiveTask(reg[p])
       THEN [Retired(r) EXCEPT !.status = "failed", !.recoverable = TRUE,
                               !.code = "RUN_LEASE_EXPIRED"]
       ELSE r

MonitorReads(p) ==
  /\ IsUp(p) /\ p \notin Cli /\ Quiet(p)
  /\ OthersStale \/ MonitorRepaired(p, run) # run
  /\ TakeSnapshot(p)
  /\ UNCHANGED <<run, grants, task, reg, phase, term, toRecover>>

\* store.update(data): written when any run of the store was repaired.
MonitorWrites(p) ==
  /\ IsUp(p) /\ snap[p] # NoSnap
  /\ run' = MonitorRepaired(p, snap[p].run)
  /\ DropSnapshot(p)
  /\ UNCHANGED <<grants, task, reg, phase, term, toRecover>>

\* mark_interrupted_store_runs on one run record.
Interrupted(p, r) ==
  IF /\ r.status \in ActiveStatus
     /\ r.owner = OwnerOf[p] \/ ~OwnerIsAlive(r.owner)
  THEN [r EXCEPT !.status = "failed", !.code = "INTERRUPTED",
                 !.recoverable = TRUE]
  ELSE r

\* mark_interrupted_runs: load_sync, and save_sync if any run changed.
SaveInterrupted(p) ==
  /\ snap[p] # NoSnap
  /\ LET next == Interrupted(p, snap[p].run) IN
     \/ (next # snap[p].run \/ OthersStale) /\ run' = next
     \/ next = snap[p].run /\ UNCHANGED run
  /\ DropSnapshot(p)
  /\ UNCHANGED <<grants, reg, term, toRecover>>

Boot(p) ==
  /\ phase[p] = "off"
  /\ Cardinality({q \in Process : phase[q] \in Alive}) < MaxUp
  /\ \A q \in Process : phase[q] \in Alive => OwnerOf[q] # OwnerOf[p]
  /\ phase' = [phase EXCEPT ![p] = "boot"]
  /\ TakeSnapshot(p)
  /\ UNCHANGED <<run, grants, task, reg, term, toRecover>>

BootSaves(p) ==
  /\ phase[p] = "boot"
  /\ SaveInterrupted(p)
  /\ phase' = [phase EXCEPT ![p] = IF p \in Cli THEN "up" ELSE "recover"]
  /\ UNCHANGED task

\* auto_resume_unattended_runs, on a run that is unattended.
AutoResumable(r) ==
  r.recoverable /\ r.code = "INTERRUPTED" /\ r.status = "failed"

AutoResume(p) ==
  /\ phase[p] = "recover"
  /\ IF AutoResumable(run)
     THEN StartWorkflowTask(p, Resumed(run), TRUE)
     ELSE UNCHANGED <<run, task, reg>>
  /\ phase' = [phase EXCEPT ![p] = "up"]
  /\ UNCHANGED <<grants, snap, term, toRecover>>

KillTasks(p) ==
  task' = [t \in Task |-> IF t \in TasksOf(p) THEN [task[t] EXCEPT !.pc = "over"]
                                              ELSE task[t]]

\* shutdown(): cancel the registered task ...
Shutdown(p) ==
  /\ IsUp(p) /\ p \notin Cli /\ Quiet(p)
  /\ phase' = [phase EXCEPT ![p] = "closing"]
  /\ term' = [term EXCEPT ![p] = NoTerm]
  /\ IF LiveTask(reg[p])
     THEN /\ CancelTask(reg[p])
          /\ toRecover' = IF run.status \in {"queued", "running"} /\ ~run.cancel
                          THEN toRecover \cup {p} ELSE toRecover
     ELSE UNCHANGED <<task, toRecover>>
  /\ UNCHANGED <<run, grants, reg, snap>>

\* ... wait for it, and mark what is still active as interrupted.
CloseReads(p) ==
  /\ phase[p] = "closing" /\ Quiet(p)
  /\ ~LiveTask(reg[p])
  /\ TakeSnapshot(p)
  /\ reg' = [reg EXCEPT ![p] = 0]
  /\ UNCHANGED <<run, grants, task, phase, term, toRecover>>

CloseSaves(p) ==
  /\ phase[p] = "closing"
  /\ SaveInterrupted(p)
  /\ phase' = [phase EXCEPT ![p] = "stopped"]
  /\ KillTasks(p)

\* The process dies. The last incarnation is spared, or nothing would be left
\* to recover the run.
Crash(p) ==
  /\ phase[p] \in Alive
  /\ \E q \in Process \ {p} : phase[q] \in {"off"} \cup Alive
  /\ phase' = [phase EXCEPT ![p] = "crashed"]
  /\ KillTasks(p)
  /\ reg' = [reg EXCEPT ![p] = 0]
  /\ DropSnapshot(p)
  /\ term' = [term EXCEPT ![p] = NoTerm]
  /\ UNCHANGED <<run, grants, toRecover>>

\* Time passes, for the store and for what has been read from it. Punctual
\* heartbeats arrive before the lease runs out.
Aged(r) == [r EXCEPT !.lease.left = IF @ > 0 THEN @ - 1 ELSE 0]

AgedSnap(s) == IF s = NoSnap THEN s ELSE [s EXCEPT !.run = Aged(@)]

DueHeartbeat ==
  /\ run.lease.left = 1
  /\ run.status \in HeartbeatStatus
  /\ \E t \in Task : /\ task[t].pc \in Beating \cup Busy
                     /\ L!Asserts(run.lease, Me(t), task[t].token)

Tick ==
  /\ run.lease.left > 0 \/ \E p \in Process : AgedSnap(snap[p]) # snap[p]
  /\ Punctual => ~DueHeartbeat
  /\ run' = Aged(run)
  /\ snap' = [p \in Process |-> AgedSnap(snap[p])]
  /\ UNCHANGED <<grants, task, reg, phase, term, toRecover>>

-----------------------------------------------------------------------------
\* create_workflow_run has written the run and started its first task.
FirstTask == CHOOSE t \in Task : \A u \in Task : t <= u

Init ==
  /\ run = [status |-> "queued", owner |-> OwnerOf[Creator], code |-> "none",
            recoverable |-> FALSE, cancel |-> FALSE,
            lease |-> L!NoLease, last |-> 0, epoch |-> 0]
  /\ grants = {}
  /\ task = [t \in Task |->
               [pc |-> IF t = FirstTask THEN "created" ELSE "idle",
                proc |-> Creator, token |-> 0, out |-> "none", auto |-> FALSE]]
  /\ reg = [p \in Process |-> IF p = Creator THEN FirstTask ELSE 0]
  /\ phase = [p \in Process |-> IF p = Creator THEN "up" ELSE "off"]
  /\ snap = [p \in Process |-> NoSnap]
  /\ term = [p \in Process |-> NoTerm]
  /\ toRecover = {}

TaskStep(t) ==
  \/ Begin(t) \/ AcquireLease(t) \/ PreflightEnds(t) \/ StartAttempt(t)
  \/ StepPasses(t) \/ StepRetries(t) \/ StepStops(t) \/ Delivered(t)
  \/ Mark(t) \/ ReleaseLease(t) \/ Overtime(t) \/ Finalize(t)

Recovery(p) ==
  \/ MonitorReads(p) \/ MonitorWrites(p)
  \/ Boot(p) \/ BootSaves(p) \/ AutoResume(p)
  \/ CloseReads(p) \/ CloseSaves(p)

Next ==
  \/ \E t \in Task : TaskStep(t) \/ Heartbeat(t) \/ RunTimeout(t)
  \/ \E p \in Process :
       \/ RetryRun(p) \/ ResumeRun(p)
       \/ TerminateRun(p) \/ TerminateBegins(p) \/ TerminateEnds(p)
       \/ Recovery(p) \/ Shutdown(p) \/ Crash(p)
  \/ Tick

Spec == Init /\ [][Next]_vars

-----------------------------------------------------------------------------
(* Properties.                                                             *)

TypeOK ==
  /\ run \in RunRec
  /\ grants \subseteq L!Grant
  /\ task \in [Task -> TaskRec]
  /\ reg \in [Process -> Task \cup {0}]
  /\ phase \in [Process -> Phase]
  /\ \A p \in Process : snap[p] = NoSnap \/ snap[p].run \in RunRec
  /\ term \in [Process -> Task \cup {NoTerm}]
  /\ toRecover \subseteq Process

\* The tasks that may be writing to the project.
Writing == {t \in Task : task[t].pc \in {"working", "delivering"}}

\* The run is executed by at most one task, which holds the newest lease of
\* the run, through restarts, resumes and stops that overlap the end of a task,
\* and although release, the monitor and the recovery work without its token.
OneWriter ==
  /\ Cardinality(Writing) <= 1
  /\ \A t \in Writing : L!Asserts(run.lease, Me(t), task[t].token)

\* No step makes a second controller execute the run.
OneController == [][(\A t, u \in Writing : Me(t) = Me(u))']_vars

\* Seen from its lease alone, the controllers of a run do what RunLease says:
\* no write-back of a stale record, no repair and no release ever takes a
\* token back or revives a lease.
LeaseSpec == L!Spec

\* A token that was fenced out stays fenced out, through everything that starts,
\* stops and repairs the executions: no controller is let back in with it.
FencedForever == L!FencedForever

\* An execution that startup resumed by itself is not skipped because of the
\* lease the process before it left behind.
AutoResumeIsNotSkipped ==
  [][\A t \in Task : task[t].pc = "acquire" /\ task[t].auto =>
                       task'[t].pc # "ended"]_vars

\* A process that ends orderly leaves the run it was executing recoverable.
ShutdownLeavesRecoverable ==
  [][\A p \in toRecover : phase[p] = "closing" /\ phase'[p] = "stopped" =>
                            run'.recoverable]_vars

\* A task that ends a run the user has just stopped reports a cancellation.
StopIsReportedAsCancelled ==
  [][\A t \in Task :
       /\ task[t].pc = "mark" /\ task'[t].pc = "release"
       /\ run.status = "cancelling"
       => run'.status = "cancelled"]_vars

-----------------------------------------------------------------------------
(* Liveness. Steps end (an agent has a timeout), timers fire, requests that *)
(* were begun go on, the monitor keeps running, and a server that died is   *)
(* started again.                                                          *)

Fairness ==
  /\ \A t \in Task : WF_vars(TaskStep(t)) /\ WF_vars(Heartbeat(t))
  /\ \A p \in Process : WF_vars(Recovery(p)) /\ WF_vars(TerminateEnds(p))
  /\ WF_vars(Tick)

FairSpec == Spec /\ Fairness

Executed == \E t \in Task : LiveTask(t)

\* A run is never left queued or running with nobody executing it: a restart
\* or the monitor finds it.
NotAbandoned ==
  run.status \in {"queued", "running"} /\ ~Executed ~>
    run.status \notin {"queued", "running"} \/ Executed

\* Once the user has stopped the run no step is executed for ever after,
\* though retries, resumes and restarts start tasks on it.
StopIsFinal == run.cancel ~> [](Writing = {})

=============================================================================
