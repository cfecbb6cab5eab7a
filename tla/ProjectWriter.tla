----------------------------- MODULE ProjectWriter -----------------------------
(***************************************************************************)
(* One original project and all its runs: which of them may write to it.   *)
(*                                                                         *)
(*   app/workflow_runtime/run_lifecycle.py  the project lock, stale runs   *)
(*   app/services/workflow_service.py       create, retry, resume, stop    *)
(*   app/main.py, app/cli/aiwf.py           what a start of a process does *)
(*                                                                         *)
(* RunController looks at one run in detail; here a run is reduced to what *)
(* the other runs of its project see of it. Its status is "active" for     *)
(* queued, running and cancelling, "interrupted" for failed with the code  *)
(* INTERRUPTED (always restart_recoverable), and "ended" for every other   *)
(* end. The lease is reduced to its two effects: a second task of a run    *)
(* ends at once, and the monitor repairs a run no task executes.           *)
(*                                                                         *)
(* Grain. The handlers of one process do not interleave: they never really *)
(* wait. create_workflow_run and retry_run still take two steps, since a   *)
(* second process can act on the store between their check and their       *)
(* write: project_run_creation_lock is an asyncio.Lock.                    *)
(***************************************************************************)
EXTENDS Integers, FiniteSets

CONSTANTS
  Process,      \* process incarnations, none comes back (OwnerOf is identity)
  Cli,          \* those that are aiwf commands: they create runs, and no more
  Run,          \* the runs the project may ever have
  Unattended,   \* the runs created in unattended mode
  None,         \* no process, no run
  MaxUp,        \* bound: processes alive at a time
  CarefulResume,\* is a run resumed by hand only while no other one is active?
  PromptBegin   \* does a new task take its first step before the next request?

WriterAssumptions ==
  /\ Cli \subseteq Process /\ None \notin Process
  /\ Unattended \subseteq Run /\ None \notin Run
  /\ {CarefulResume, PromptBegin} \subseteq BOOLEAN

VARIABLES
  status,  \* of each run, in the store; "none" before it is created
  owner,   \* run_owner of each run
  lock,    \* project-run-lock.json: the run and the process it names
  task,    \* running_tasks of each process
  admitted,\* the run a process has checked and is about to start
  phase    \* the life of each process

writerVars == <<status, owner, lock, task, admitted, phase>>

Status == {"none", "active", "waiting_input", "interrupted", "ended"}
ActiveRunStatuses   == {"active", "waiting_input"}
TerminalRunStatuses == {"interrupted", "ended"}
NoLock == [run |-> None, owner |-> None]

Up(p) == phase[p] = "up"
IsActive(r) == status[r] \in ActiveRunStatuses
LiveTask(p, r) == task[p][r] \in {"created", "running"}

\* active_run_owner_is_live
OwnerIsLive(r) == IsActive(r) /\ Up(owner[r])

\* The event loop of p is free to serve a request.
Quiet(p) ==
  /\ Up(p) /\ admitted[p] = None
  /\ PromptBegin => \A r \in Run : task[p][r] # "created"

Interrupting(R) == [r \in Run |-> IF r \in R THEN "interrupted" ELSE status[r]]

\* Mutant: the lock is cleared whatever run it names.
MutClearProjectLock(r, l) == NoLock

\* clear_project_lock(run): only when the lock names that run.
ClearProjectLock(r, l) == IF l.run = r THEN NoLock ELSE l

\* start_workflow_task after _persist_project_lock
StartTask(p, r) ==
  /\ lock' = [run |-> r, owner |-> p]
  /\ task' = [task EXCEPT ![p][r] = "created"]

-----------------------------------------------------------------------------
(* Requests.                                                               *)

\* recover_stale_active_runs_for_project
StaleRuns == {r \in Run : IsActive(r) /\ ~OwnerIsLive(r)}

\* clear_project_lock for each stale run, then cleanup_stale_project_lock:
\* the lock stays while its run is active, or while its owner lives elsewhere.
CleanedLock(p) ==
  IF \/ lock.run = None
     \/ OwnerIsLive(lock.run)
     \/ lock.run \notin StaleRuns /\ lock.owner # p /\ Up(lock.owner)
  THEN lock ELSE NoLock

\* find_active_run_for_project(exclude_run_id=r)
Blocker(x, r) == x # r /\ OwnerIsLive(x)

\* The check of create_workflow_run (r is a new run) and of retry_run. When
\* another run is active, create returns that run and retry answers 409.
\* The lock file itself is never a reason to refuse.
Admit(p, r) ==
  /\ Quiet(p)
  /\ task[p][r] = "none"
  /\ p \in Cli => status[r] = "none"
  /\ status' = Interrupting(StaleRuns)
  /\ lock' = CleanedLock(p)
  /\ admitted' = IF \E x \in Run : Blocker(x, r) THEN admitted
                 ELSE [admitted EXCEPT ![p] = r]
  /\ UNCHANGED <<owner, task, phase>>

\* The rest of the handler: the lock, the record, the task. A new run gets
\* its owner here, a retried one keeps the owner of its last execution.
Launch(p) ==
  LET r == admitted[p] IN
  /\ Up(p) /\ r # None
  /\ status' = [status EXCEPT ![r] = "active"]
  /\ owner' = IF status[r] = "none" THEN [owner EXCEPT ![r] = p] ELSE owner
  /\ StartTask(p, r)
  /\ admitted' = [admitted EXCEPT ![p] = None]
  /\ UNCHANGED phase

\* resume_run, submit_guidance, and submit_answers for a run that waits: no
\* look at the other runs of the project.
Resume(p, r) ==
  /\ Quiet(p) /\ p \notin Cli
  /\ status[r] # "none" /\ task[p][r] = "none"
  /\ CarefulResume => \A x \in Run \ {r} : ~IsActive(x)
  /\ status' = [status EXCEPT ![r] = "active"]
  /\ StartTask(p, r)
  /\ UNCHANGED <<owner, admitted, phase>>

\* terminate_run. A task that has not begun never runs a handler, so the run
\* stays active ("cancelling"); without a task the run is cancelled here.
Terminate(p, r) ==
  /\ Quiet(p) /\ p \notin Cli /\ status[r] # "none"
  /\ IF LiveTask(p, r)
     THEN /\ task' = [task EXCEPT ![p][r] = "ended"]
          /\ status' = [status EXCEPT ![r] =
               IF task[p][r] = "running" THEN "ended" ELSE "active"]
          /\ UNCHANGED lock
     ELSE /\ status' = [status EXCEPT ![r] = "ended"]
          /\ lock' = ClearProjectLock(r, lock)
          /\ UNCHANGED task
  /\ UNCHANGED <<owner, admitted, phase>>

-----------------------------------------------------------------------------
(* The task of a run.                                                      *)

\* acquire_run_lease is refused while another process executes the run, and
\* may be refused after a crash, until the lease of the dead owner runs out.
LeaseAnswer(p, r) ==
  IF \E q \in Process \ {p} : task[q][r] = "running" THEN {"ended"}
  ELSE IF \E q \in Process : phase[q] = "gone" THEN {"running", "ended"}
  ELSE {"running"}

\* execute up to the lease: status, owner, lock, and only then the lease.
Begin(p, r) ==
  /\ Up(p) /\ admitted[p] = None
  /\ task[p][r] = "created"
  /\ status' = [status EXCEPT ![r] = "active"]
  /\ owner' = [owner EXCEPT ![r] = p]
  /\ lock' = [run |-> r, owner |-> p]
  /\ \E pc \in LeaseAnswer(p, r) : task' = [task EXCEPT ![p][r] = pc]
  /\ UNCHANGED <<admitted, phase>>

\* The task ends, or stops to ask the user. From "failed" the transition to
\* waiting_input is refused and leaves the record as it is.
TaskEnds(p, r) ==
  /\ Up(p) /\ admitted[p] = None
  /\ task[p][r] = "running"
  /\ task' = [task EXCEPT ![p][r] = "ended"]
  /\ \/ status' = [status EXCEPT ![r] = "ended"]
     \/ status' = [status EXCEPT ![r] = IF IsActive(r) THEN "waiting_input" ELSE @]
  /\ UNCHANGED <<owner, lock, admitted, phase>>

\* _finalize_workflow_task
Finalize(p, r) ==
  /\ Up(p) /\ admitted[p] = None
  /\ task[p][r] = "ended"
  /\ task' = [task EXCEPT ![p][r] = "none"]
  /\ lock' = IF status[r] \in TerminalRunStatuses THEN ClearProjectLock(r, lock)
             ELSE lock
  /\ UNCHANGED <<status, owner, admitted, phase>>

-----------------------------------------------------------------------------
(* Processes.                                                              *)

\* inspect_runtime_invariants: ACTIVE_RUN_LEASE_EXPIRED
MonitorEnds(p, r) ==
  /\ Quiet(p) /\ p \notin Cli
  /\ status[r] = "active"
  /\ \A q \in Process : ~LiveTask(q, r)
  /\ status' = [status EXCEPT ![r] = "ended"]
  /\ lock' = ClearProjectLock(r, lock)
  /\ UNCHANGED <<owner, task, admitted, phase>>

\* The process ends, at any moment and without a word.
ProcessDies(p) ==
  /\ Up(p)
  /\ phase' = [phase EXCEPT ![p] = "gone"]
  /\ task' = [task EXCEPT ![p] = [r \in Run |-> "none"]]
  /\ admitted' = [admitted EXCEPT ![p] = None]
  /\ UNCHANGED <<status, owner, lock>>

\* mark_interrupted_store_runs
Interrupted == StaleRuns

\* auto_resume_unattended_runs: every candidate, without a look at the others.
ToResume(p) ==
  IF p \in Cli THEN {}
  ELSE {r \in Unattended : r \in Interrupted \/ status[r] = "interrupted"}

\* startup of a server, _init_runtime of a command
Boot(p) ==
  LET resumed == ToResume(p)
      kept == IF lock.run \in Interrupted THEN NoLock ELSE lock IN
  /\ phase[p] = "off"
  /\ Cardinality({q \in Process : Up(q)}) < MaxUp
  /\ phase' = [phase EXCEPT ![p] = "up"]
  /\ status' = [r \in Run |-> IF r \in resumed THEN "active"
                              ELSE Interrupting(Interrupted)[r]]
  /\ task' = [task EXCEPT ![p] =
                [r \in Run |-> IF r \in resumed THEN "created" ELSE "none"]]
  /\ \/ resumed = {} /\ lock' = kept
     \/ \E r \in resumed : lock' = [run |-> r, owner |-> p]
  /\ UNCHANGED <<owner, admitted>>

-----------------------------------------------------------------------------

WriterInit ==
  /\ status = [r \in Run |-> "none"]
  /\ owner = [r \in Run |-> None]
  /\ lock = NoLock
  /\ task = [p \in Process |-> [r \in Run |-> "none"]]
  /\ admitted = [p \in Process |-> None]
  /\ phase = [p \in Process |-> "off"]

WriterNext ==
  \/ \E p \in Process : Launch(p) \/ ProcessDies(p) \/ Boot(p)
  \/ \E p \in Process, r \in Run :
       \/ Admit(p, r) \/ Resume(p, r) \/ Terminate(p, r)
       \/ Begin(p, r) \/ TaskEnds(p, r) \/ Finalize(p, r)
       \/ MonitorEnds(p, r)

WriterSpec == WriterInit /\ [][WriterNext]_writerVars

-----------------------------------------------------------------------------
(* Properties.                                                             *)

(* Every variable has its type.                                            *)
WriterTypeOK ==
  /\ status \in [Run -> Status]
  /\ owner \in [Run -> Process \cup {None}]
  /\ lock \in [run : Run \cup {None}, owner : Process \cup {None}]
  /\ task \in [Process -> [Run -> {"none", "created", "running", "ended"}]]
  /\ admitted \in [Process -> Run \cup {None}]
  /\ phase \in [Process -> {"off", "up", "gone"}]
  /\ \A r \in Run : status[r] # "none" => owner[r] # None

Writers == {w \in Process \X Run : task[w[1]][w[2]] = "running"}

\* One active writer is allowed per original project: no two tasks, of one
\* process or of two, execute runs of the project at the same time.
OneWriterPerProject == \A v, w \in Writers : v = w

\* While a task executes a run, the project lock names that run and that
\* process, and the record says so too: nobody's cleanup, whichever run it
\* serves, takes the lock away from a writer.
WriterHoldsLock ==
  \A w \in Writers : /\ lock = [run |-> w[2], owner |-> w[1]]
                     /\ status[w[2]] = "active" /\ owner[w[2]] = w[1]

\* One run of the project is executed at a time, and whoever executes it is whom
\* the project's lock names, over crashes, restarts, automatic resumes, stops and
\* retries of servers that follow one another (MaxUp = 1). With CarefulResume and
\* PromptBegin: a run that is resumed by hand while another one is active, and a
\* request between the creation of a task and its first step, break it, and so
\* does a second process.
OneWriterHoldsLock == OneWriterPerProject /\ WriterHoldsLock

\* A server start resumes at most one run of the project, and none while a
\* run of it is executed elsewhere.
AutoResumeIsAlone ==
  [][\A p \in Process \ Cli : phase[p] = "off" /\ phase'[p] = "up" =>
       Cardinality({r \in Run : task'[p][r] = "created"}) <= 1]_writerVars
==============================================================================
