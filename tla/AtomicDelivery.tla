--------------------------- MODULE AtomicDelivery ---------------------------
(***************************************************************************)
(* The delivery of the files an agent changed in an isolated copy to the   *)
(* original project, through a write-ahead journal:                        *)
(* app/workflow_runtime/atomic_delivery.py and delivery_journal.py, with   *)
(* the lease that fences it and the monitor that rolls back what a dead    *)
(* controller left.                                                        *)
(*                                                                         *)
(* Grain. A crash, the user's editor and another process get in between    *)
(* any two writes: of a project file, of the journal on disk, of the run   *)
(* record in the store. The controller's journal and its copy of the run   *)
(* record live in its memory and are lost in a crash.                      *)
(***************************************************************************)
EXTENDS Integers, FiniteSets

CONSTANTS
  Controller,    \* processes; their owner ids differ
  Nobody,
  NumFiles,      \* the files the agent changed, in the order of the journal
  Old, New,      \* their content before and after, "none" if there is no file
  TTL, MaxToken, \* see RunLease
  MaxCrashes,    \* bound on the crashes
  MaxEdits,      \* bound on the edits of the user
  OneAtATime,    \* is there a single process at a time (no aiwf command)?
  Punctual,      \* do heartbeats arrive before the lease runs out?
  LastInRollback \* is a crash that interrupts a rollback the last one?

File == 1..NumFiles
Content == {"none", "old", "new", "edited"}

Assumptions ==
  /\ NumFiles \in Nat \ {0}
  /\ Old \in [File -> {"none", "old"}] /\ New \in [File -> {"none", "new"}]
  /\ \A f \in File : Old[f] # New[f]
  /\ {MaxCrashes, MaxEdits} \subseteq Nat
  /\ {OneAtATime, Punctual, LastInRollback} \subseteq BOOLEAN

VARIABLES
  file,    \* the original project
  backup,  \* .workflow/atomic-backup
  disk,    \* .workflow/atomic-delivery-transaction.json
  run,     \* the run record in the store
  act,     \* what each controller is doing, and what it remembers
  crashes, edits

vars == <<file, backup, disk, run, act, crashes, edits>>

L == INSTANCE RunLease
       WITH Owner <- Controller, lease <- run.lease, last <- run.last,
            epoch <- run.epoch, grants <- {}

-----------------------------------------------------------------------------
(* The journal.                                                            *)

JournalStatus == {"none", "prepared", "applying", "verifying",
                  "rolling_back", "committed", "rolled_back"}
OpStatus == {"prepared", "applied", "rolled_back", "committed"}

\* before is target_before_sha256 of each operation (and existed).
Journal == [status : JournalStatus, op : [File -> OpStatus],
            before : [File -> Content]]

NoJournal == [status |-> "none", op |-> [f \in File |-> "prepared"],
              before |-> Old]

Settled == {"committed", "rolled_back"}
Unsettled == JournalStatus \ (Settled \cup {"none"})

IsApplied(f) == file[f] = New[f]
IsBaseline(j, f) == file[f] = j.before[f]

-----------------------------------------------------------------------------
RunRec ==
  [status : {"active", "failed", "done"},
   delivery : BOOLEAN,         \* atomic_delivery and patch_status "applied"
   txn : JournalStatus,        \* atomic_delivery_transaction
   lease : L!LeaseRec, last : 0..MaxToken, epoch : 0..MaxToken]

Pc == {"idle", "running", "check", "hash", "backup", "prepare", "note_prepared",
       "begin_apply", "apply", "persist_op", "end_apply", "note_applied",
       "verify", "commit", "note_committed", "record",
       "begin_rollback", "rollback", "persist_rollback", "end_rollback",
       "note_rolled_back", "failing", "finishing"}

ActRec ==
  [pc : Pc, j : Journal, pos : 0..NumFiles + 1,
   token : 0..MaxToken,        \* of the lease the execution acquired
   fence : 0..MaxToken,        \* fencing_token of the delivery, 0 for None
   lease : L!LeaseRec,         \* run_lease in the copy of the run record
   seen : RunRec,              \* the store the monitor read
   why : {"none", "rejected", "fenced", "monitor"}]

NewRun == [status |-> "active", delivery |-> FALSE, txn |-> "none",
           lease |-> L!NoLease, last |-> 0, epoch |-> 0]

Idle == [pc |-> "idle", j |-> NoJournal, pos |-> 0, token |-> 0, fence |-> 0,
         lease |-> L!NoLease, seen |-> NewRun, why |-> "none"]

At(c, pc) == act[c].pc = pc
Set(c, rec) == act' = [act EXCEPT ![c] = rec]
Goto(c, pc) == Set(c, [act[c] EXCEPT !.pc = pc])

\* Write j to disk and remember it.
Persist(c, j, pc) ==
  /\ disk' = j
  /\ Set(c, [act[c] EXCEPT !.j = j, !.pc = pc])

\* _assert_delivery_lease on the run record that has lease l. It takes the
\* owner from the record, and the token too if it has none to expect.
DeliveryAsserts(l, fence) ==
  l = L!NoLease \/ L!Asserts(l, l.owner, IF fence = 0 THEN l.token ELSE fence)

Alone(c) == OneAtATime => \A d \in Controller \ {c} : At(d, "idle")

-----------------------------------------------------------------------------
(* deliver_isolated_changes.                                               *)

\* A controller takes the run, for the first time, after a restart or for a
\* retry, and works its way to the end of the last step.
Start(c) ==
  /\ At(c, "idle") /\ Alone(c)
  /\ run.status # "done"
  /\ ~L!HeldByOther(run.lease, c)
  /\ LET l == L!Acquired(run.lease, run.last, run.epoch, c) IN
     /\ l.token <= MaxToken
     /\ run' = [run EXCEPT !.status = "active", !.lease = l, !.epoch = l.token]
     /\ Set(c, [Idle EXCEPT !.pc = "running", !.token = l.token])
  /\ UNCHANGED <<file, backup, disk, crashes, edits>>

MutResumeAt(status) ==
  CASE status = "none" -> "check"
    [] status \in Settled -> "finishing"
    [] OTHER -> "begin_apply"

\* Where a delivery goes on that has found a journal in this status.
ResumeAt(status) ==
  CASE status = "none"        -> "check"
    [] status = "committed"   -> "finishing"
    [] status = "rolled_back" -> "failing"
    [] OTHER                  -> "begin_apply"

\* The entry of deliver_isolated_changes: _mark_done has just read the run
\* record again, and the token to expect from now on is the one found there.
Deliver(c) ==
  /\ At(c, "running")
  /\ Set(c, [act[c] EXCEPT
       !.j = disk, !.lease = run.lease, !.fence = run.lease.token,
       !.pc = IF run.delivery THEN "finishing"
              ELSE IF ~DeliveryAsserts(run.lease, run.lease.token) THEN "failing"
              ELSE ResumeAt(disk.status)])
  /\ UNCHANGED <<file, backup, disk, run, crashes, edits>>

\* prepare_delivery_journal: compare with the hashes taken when the run was
\* created, ...
CheckBaseline(c) ==
  /\ At(c, "check")
  /\ Goto(c, IF file = Old THEN "hash" ELSE "failing")
  /\ UNCHANGED <<file, backup, disk, run, crashes, edits>>

\* ... hash the files again and copy them, ...
HashTargets(c) ==
  /\ At(c, "hash")
  /\ Set(c, [act[c] EXCEPT !.pc = "backup", !.j.before = file])
  /\ UNCHANGED <<file, backup, disk, run, crashes, edits>>

BackUp(c) ==
  /\ At(c, "backup")
  /\ backup' = file
  /\ Goto(c, "prepare")
  /\ UNCHANGED <<file, disk, run, crashes, edits>>

\* ... and persist the list of operations.
Prepare(c) ==
  /\ At(c, "prepare")
  /\ Persist(c, [act[c].j EXCEPT !.status = "prepared"], "note_prepared")
  /\ UNCHANGED <<file, backup, run, crashes, edits>>

\* persist_journal_state: the journal's status goes to the run record if the
\* lease there is still ours, and the record comes back into memory.
Note(c, next, refused) ==
  IF DeliveryAsserts(run.lease, act[c].fence)
  THEN /\ run' = [run EXCEPT !.txn = act[c].j.status]
       /\ Set(c, [act[c] EXCEPT !.pc = next, !.lease = run.lease])
  ELSE UNCHANGED run /\ Set(c, [act[c] EXCEPT !.pc = refused,
                                   !.why = IF refused = "begin_rollback"
                                           THEN "fenced" ELSE @])

NotePrepared(c) ==
  /\ At(c, "note_prepared")
  /\ Note(c, "begin_apply", "failing")
  /\ UNCHANGED <<file, backup, disk, crashes, edits>>

\* apply_delivery_journal.
ApplyBegins(c) ==
  /\ At(c, "begin_apply")
  /\ disk' = [act[c].j EXCEPT !.status = "applying"]
  /\ Set(c, [act[c] EXCEPT !.j = disk', !.pc = "apply", !.pos = 1])
  /\ UNCHANGED <<file, backup, run, crashes, edits>>

\* One operation: it is done already, or its target is as it was prepared,
\* or the delivery fails as it stands (ATOMIC_APPLY_CONFLICT_DURING_RESUME).
ApplyOp(c) ==
  /\ At(c, "apply")
  /\ LET f == act[c].pos IN
     IF IsApplied(f) \/ IsBaseline(act[c].j, f)
     THEN /\ file' = [file EXCEPT ![f] = New[f]]
          /\ Set(c, [act[c] EXCEPT !.pc = "persist_op", !.j.op[f] = "applied"])
     ELSE Goto(c, "failing") /\ UNCHANGED file
  /\ UNCHANGED <<backup, disk, run, crashes, edits>>

PersistOp(c) ==
  /\ At(c, "persist_op")
  /\ disk' = act[c].j
  /\ Set(c, [act[c] EXCEPT !.pos = @ + 1,
               !.pc = IF act[c].pos = NumFiles THEN "end_apply" ELSE "apply"])
  /\ UNCHANGED <<file, backup, run, crashes, edits>>

ApplyEnds(c) ==
  /\ At(c, "end_apply")
  /\ Persist(c, [act[c].j EXCEPT !.status = "verifying"], "note_applied")
  /\ UNCHANGED <<file, backup, run, crashes, edits>>

NoteApplied(c) ==
  /\ At(c, "note_applied")
  /\ Note(c, "verify", "failing")
  /\ UNCHANGED <<file, backup, disk, crashes, edits>>

\* execute_validation_plan answers, after any time; evaluate_delivery_validation
\* accepts or rejects.
Verify(c) ==
  /\ At(c, "verify")
  /\ \/ Goto(c, "commit")
     \/ Set(c, [act[c] EXCEPT !.pc = "begin_rollback", !.why = "rejected"])
  /\ UNCHANGED <<file, backup, disk, run, crashes, edits>>

\* commit_delivery_journal, if the lease in the controller's own copy of the
\* run record still stands. That copy dates from NoteApplied.
Commit(c) ==
  /\ At(c, "commit")
  /\ IF DeliveryAsserts(act[c].lease, act[c].fence)
     THEN Persist(c, [act[c].j EXCEPT !.status = "committed",
                        !.op = [f \in File |-> IF @[f] = "applied"
                                               THEN "committed" ELSE @[f]]],
                  "note_committed")
     ELSE /\ Set(c, [act[c] EXCEPT !.pc = "begin_rollback", !.why = "fenced"])
          /\ UNCHANGED disk
  /\ UNCHANGED <<file, backup, run, crashes, edits>>

NoteCommitted(c) ==
  /\ At(c, "note_committed")
  /\ Note(c, "record", "begin_rollback")
  /\ UNCHANGED <<file, backup, disk, crashes, edits>>

\* The evidence goes to the run record.
Record(c) ==
  /\ At(c, "record")
  /\ IF DeliveryAsserts(run.lease, act[c].fence)
     THEN run' = [run EXCEPT !.delivery = TRUE, !.txn = "committed"]
          /\ Goto(c, "finishing")
     ELSE UNCHANGED run /\ Goto(c, "failing")
  /\ UNCHANGED <<file, backup, disk, crashes, edits>>

-----------------------------------------------------------------------------
(* rollback_delivery_journal, for a rejected or fenced delivery and for the *)
(* monitor.                                                                *)

RollbackBegins(c) ==
  /\ At(c, "begin_rollback")
  /\ disk' = [act[c].j EXCEPT !.status = "rolling_back"]
  /\ Set(c, [act[c] EXCEPT !.j = disk', !.pc = "rollback", !.pos = NumFiles])
  /\ UNCHANGED <<file, backup, run, crashes, edits>>

\* One operation, from the last to the first. What was never applied and is
\* as it was prepared is left alone; everything else is put back.
MutNeedsNoRestore(j, f) == j.op[f] # "applied"

NeedsNoRestore(j, f) ==
  j.op[f] # "applied" /\ ~IsApplied(f) /\ IsBaseline(j, f)

RollbackOp(c) ==
  /\ At(c, "rollback") /\ act[c].pos > 0
  /\ LET f == act[c].pos
         j == act[c].j
         marked == [act[c] EXCEPT !.pc = "persist_rollback",
                                  !.j.op[f] = "rolled_back"]
     IN
     \/ /\ j.op[f] = "rolled_back"
        /\ Set(c, [act[c] EXCEPT !.pos = @ - 1])
        /\ UNCHANGED file
     \/ /\ j.op[f] # "rolled_back" /\ NeedsNoRestore(j, f)
        /\ Set(c, marked) /\ UNCHANGED file
     \/ /\ j.op[f] # "rolled_back" /\ ~NeedsNoRestore(j, f)
        /\ IF j.before[f] = "none" \/ backup[f] = j.before[f]
           THEN file' = [file EXCEPT ![f] = j.before[f]] /\ Set(c, marked)
           ELSE Goto(c, "failing") /\ UNCHANGED file
  /\ UNCHANGED <<backup, disk, run, crashes, edits>>

PersistRollback(c) ==
  /\ At(c, "persist_rollback")
  /\ disk' = act[c].j
  /\ Set(c, [act[c] EXCEPT !.pos = @ - 1, !.pc = "rollback"])
  /\ UNCHANGED <<file, backup, run, crashes, edits>>

RollbackEnds(c) ==
  /\ At(c, "rollback") /\ act[c].pos = 0
  /\ Persist(c, [act[c].j EXCEPT !.status = "rolled_back"], "note_rolled_back")
  /\ UNCHANGED <<file, backup, run, crashes, edits>>

\* A controller notes the rollback and fails, whether or not the lease let it
\* note it.
NoteRolledBack(c) ==
  /\ At(c, "note_rolled_back") /\ act[c].why # "monitor"
  /\ Note(c, "failing", "failing")
  /\ UNCHANGED <<file, backup, disk, crashes, edits>>

-----------------------------------------------------------------------------
(* inspect_runtime_invariants, in a process that has no task for the run.  *)

Retired(r) == [r EXCEPT !.last = r.lease.token, !.lease = L!NoLease]

\* A lease that outlived its run, or that nobody renews.
StaleLease(r) ==
  r.lease # L!NoLease /\ (r.status # "active" \/ L!Expired(r.lease))

MutAbandonedByLease(r) == StaleLease(r)

Abandoned(r) == r.status # "active" \/ StaleLease(r)

Repaired(r) ==
  IF StaleLease(r) THEN [Retired(r) EXCEPT !.status = IF @ = "active" THEN "failed" ELSE @]
  ELSE r

MonitorRepairs(c) ==
  /\ At(c, "idle") /\ Alone(c)
  /\ disk.status \notin Unsettled /\ StaleLease(run)
  /\ run' = Repaired(run)
  /\ UNCHANGED <<file, backup, disk, act, crashes, edits>>

\* An unfinished journal of a run that is no longer active or has no live
\* controller is rolled back; then the store goes back as it was read.
MonitorRollback(c) ==
  /\ At(c, "idle") /\ Alone(c)
  /\ disk.status \in Unsettled
  /\ Abandoned(run)
  /\ Set(c, [Idle EXCEPT !.pc = "begin_rollback", !.j = disk, !.seen = run,
                         !.why = "monitor"])
  /\ UNCHANGED <<file, backup, disk, run, crashes, edits>>

MonitorSaves(c) ==
  /\ act[c].why = "monitor"
  /\ LET fixed == Repaired(act[c].seen) IN
     \/ At(c, "note_rolled_back") /\ run' = [fixed EXCEPT !.txn = "rolled_back"]
     \/ At(c, "failing") /\ run' = IF fixed = act[c].seen THEN run ELSE fixed
  /\ Set(c, Idle)
  /\ UNCHANGED <<file, backup, disk, crashes, edits>>

-----------------------------------------------------------------------------
(* The end of the execution, and the environment.                          *)

Released(r, c) ==
  IF r.lease # L!NoLease /\ r.lease.owner = c THEN Retired(r) ELSE r

\* _mark_failed and _release_run_lease; a finished run does not fail.
Fail(c) ==
  /\ At(c, "failing") /\ act[c].why # "monitor"
  /\ run' = IF run.status = "done" THEN run
            ELSE Released([run EXCEPT !.status = "failed"], c)
  /\ Set(c, Idle)
  /\ UNCHANGED <<file, backup, disk, crashes, edits>>

\* _mark_done; a run that has been failed in between cannot become done and
\* is failed again.
Finish(c) ==
  /\ At(c, "finishing")
  /\ IF run.status = "failed" THEN Goto(c, "failing") /\ UNCHANGED run
     ELSE run' = Released([run EXCEPT !.status = "done"], c) /\ Set(c, Idle)
  /\ UNCHANGED <<file, backup, disk, crashes, edits>>

\* Where the controller waits with its heartbeat running.
Beating == {"running", "verify"}

\* Mutant: the new expiry is counted from the old one.
MutHeartbeat(c) ==
  /\ act[c].pc \in Beating
  /\ run.status = "active"
  /\ IF L!Asserts(run.lease, c, act[c].token)
     THEN run' = [run EXCEPT !.lease.left = @ + TTL] /\ UNCHANGED act
     ELSE Goto(c, "failing") /\ UNCHANGED run
  /\ UNCHANGED <<file, backup, disk, crashes, edits>>

\* A refused renewal cancels the execution: RUN_LEASE_LOST.
Heartbeat(c) ==
  /\ act[c].pc \in Beating
  /\ run.status = "active"
  /\ IF L!Asserts(run.lease, c, act[c].token)
     THEN run' = [run EXCEPT !.lease.left = TTL] /\ UNCHANGED act
     ELSE Goto(c, "failing") /\ UNCHANGED run
  /\ UNCHANGED <<file, backup, disk, crashes, edits>>

\* A stop, the run's time limit or a lost lease cancels the execution while
\* it waits; nothing is rolled back here.
Stop(c) ==
  /\ act[c].pc \in Beating
  /\ Goto(c, "failing")
  /\ UNCHANGED <<file, backup, disk, run, crashes, edits>>

Crash(c) ==
  /\ ~At(c, "idle") /\ crashes < MaxCrashes
  /\ crashes' = IF LastInRollback /\ act[c].pc \in {"rollback", "persist_rollback"}
                THEN MaxCrashes ELSE crashes + 1
  /\ Set(c, Idle)
  /\ UNCHANGED <<file, backup, disk, run, edits>>

\* mark_interrupted_runs at the start of a process.
Interrupt ==
  /\ run.status = "active" /\ \A c \in Controller : At(c, "idle")
  /\ run' = [run EXCEPT !.status = "failed"]
  /\ UNCHANGED <<file, backup, disk, act, crashes, edits>>

UserEdits(f) ==
  /\ edits < MaxEdits
  /\ file[f] # "edited"
  /\ edits' = edits + 1
  /\ file' = [file EXCEPT ![f] = "edited"]
  /\ UNCHANGED <<backup, disk, run, act, crashes>>

Aged(l) == [l EXCEPT !.left = IF @ > 0 THEN @ - 1 ELSE 0]

DueHeartbeat ==
  /\ run.lease.left = 1 /\ run.status = "active"
  /\ \E c \in Controller : ~At(c, "idle") /\ act[c].why # "monitor"
                           /\ L!Asserts(run.lease, c, act[c].token)

Tick ==
  /\ run.lease.left > 0 \/ \E c \in Controller : act[c].lease.left > 0
  /\ Punctual => ~DueHeartbeat
  /\ run' = [run EXCEPT !.lease = Aged(@)]
  /\ act' = [c \in Controller |-> [act[c] EXCEPT !.lease = Aged(@)]]
  /\ UNCHANGED <<file, backup, disk, crashes, edits>>

-----------------------------------------------------------------------------
Init ==
  /\ file = Old
  /\ backup = [f \in File |-> "none"]
  /\ disk = NoJournal
  /\ run = NewRun
  /\ act = [c \in Controller |-> Idle]
  /\ crashes = 0 /\ edits = 0

Work(c) ==
  \/ Deliver(c) \/ CheckBaseline(c) \/ HashTargets(c) \/ BackUp(c)
  \/ Prepare(c) \/ NotePrepared(c) \/ ApplyBegins(c) \/ ApplyOp(c) \/ PersistOp(c)
  \/ ApplyEnds(c) \/ NoteApplied(c) \/ Verify(c) \/ Commit(c)
  \/ NoteCommitted(c) \/ Record(c) \/ RollbackBegins(c) \/ RollbackOp(c)
  \/ PersistRollback(c) \/ RollbackEnds(c) \/ NoteRolledBack(c)
  \/ MonitorSaves(c) \/ Fail(c) \/ Finish(c)

Next ==
  \/ \E c \in Controller :
       \/ Start(c) \/ Work(c) \/ Heartbeat(c) \/ Stop(c) \/ Crash(c)
       \/ MonitorRepairs(c) \/ MonitorRollback(c)
  \/ \E f \in File : UserEdits(f)
  \/ Interrupt \/ Tick

Spec == Init /\ [][Next]_vars

\* A process works on once it has started, the monitor comes round again, and
\* time passes. Nobody has to resume the run or restart a process that died.
FairSpec ==
  /\ Spec
  /\ \A c \in Controller : WF_vars(Work(c)) /\ WF_vars(MonitorRollback(c))
  /\ WF_vars(Tick)

-----------------------------------------------------------------------------
TypeOK ==
  /\ file \in [File -> Content] /\ backup \in [File -> Content]
  /\ disk \in Journal
  /\ run \in RunRec
  /\ act \in [Controller -> ActRec]
  /\ crashes \in 0..MaxCrashes /\ edits \in 0..MaxEdits

\* Seen from the project, a delivery that nobody edits under is all or nothing:
\* whatever stops, restarts, rollbacks and crashes happen in between, the journal
\* is committed only over the agent's files and closed as rolled back only over
\* the old ones, once. A rollback may crash at any point, but only if no crash
\* comes after it (LastInRollback): a delivery that is begun again over such a
\* rollback and crashes too leaves what delivery_journal.py:241 then skips.
Delivery == INSTANCE ProjectDelivery
              WITH project <- file, edited <- edits > 0,
                   verdict <- CASE disk.status = "committed"   -> "kept"
                                [] disk.status = "rolled_back" -> "restored"
                                [] OTHER                       -> "open"

AllOrNothing == Delivery!Spec

\* A run reported done has delivered: its files are in the project, under a
\* committed journal. (_mark_done and the early returns of
\* deliver_isolated_changes)
DoneIsDelivered ==
  run.status = "done" => disk.status = "committed" /\ file = New

\* A rolled back delivery leaves none of the agent's content behind, whatever
\* the user did to the files meanwhile. (rollback_delivery_journal, its
\* was_applied test)
RolledBackIsClean ==
  disk.status = "rolled_back" => \A f \in File : file[f] # New[f]

\* What is said of a delivery is true of the project: unless a user edited it, a
\* run reported done has its files there, under a committed journal; and a delivery
\* that was rolled back has left nothing of the agent's, whoever edited what.
JournalIsTrue == (edits = 0 => DoneIsDelivered) /\ RolledBackIsClean

\* A delivery that was begun is kept or undone in the end, if only by the
\* monitor, unless an edit is in its way. (maintenance_service.py:224-234)
Settles == disk.status \in Unsettled ~> disk.status \in Settled \/ edits > 0

\* The delivery gives way to another controller only if its own lease is lost.
\* (atomic_delivery.py:179-188)
FencedOnlyWhenLost ==
  [][\A c \in Controller :
       act[c].why # "fenced" /\ act'[c].why = "fenced"
       => ~L!Asserts(run.lease, c, act[c].token)]_vars

\* A controller that lost its lease never commits.
\* (the comment in atomic_delivery.py:184)
CommitNeedsTheLease ==
  [][\A c \in Controller :
       act[c].pc = "commit" /\ act'[c].pc = "note_committed"
       => L!Asserts(run.lease, c, act[c].token)]_vars

\* What the user writes to a file after it was backed up, and so is in the
\* project only, is not overwritten. (apply_delivery_journal stops at such a
\* file; rollback_delivery_journal)
EditsSurvive ==
  [][\A f \in File :
       file[f] = "edited" /\ disk.status # "none" /\ disk.before[f] # "edited"
       => file'[f] = "edited"]_vars

\* The record of a finished run says what was delivered.
DoneIsRecorded == run.status = "done" => run.delivery
=============================================================================
