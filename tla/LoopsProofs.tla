----------------------------- MODULE LoopsProofs ------------------------------
(***************************************************************************)
(* The loops of a run, proved for any number of tasks, files, attempts,    *)
(* crashes and rollbacks, and for any number of steps, retries, restarts,  *)
(* requests, budgets and failures.                                         *)
(*                                                                         *)
(* The task loop. The type invariant needs that an agent works on a task   *)
(* there is. That the edits of earlier tasks are kept needs                *)
(* NumbersInOrder: the code compares the number of a task with an index of *)
(* the list. That checkpoints can be restored needs that none was deleted, *)
(* that is Keep at least MaxWork.                                          *)
(*                                                                         *)
(* The loop over the steps. That the budget is granted needs nothing. That *)
(* nothing is skipped needs that no step makes task checkpoints, that the  *)
(* list of checkpoints is not full, and that the user retries no step      *)
(* before those before it have passed (InTurn). That nothing is repeated   *)
(* needs also that failures go back, never forward (Backward): a step that *)
(* was jumped over leaves one that failed behind, for which the completion *)
(* gate refuses the run, but a resume from there on executes again what    *)
(* had passed.                                                             *)
(*                                                                         *)
(* The retry guard. That a run that goes on is within its budgets needs    *)
(* nothing: each retry of the user lets it fail once more. That it does    *)
(* not go on from a failure that repeats itself needs that the history,    *)
(* which is cut, is as long as the run's budget (RemembersAll).            *)
(***************************************************************************)
EXTENDS TaskLoop, StepLoop, RetryGuard, FiniteSetTheorems, FunctionTheorems,
        SequenceTheorems, WellFoundedInduction, TLAPS

-----------------------------------------------------------------------------
(* The task loop.                                                          *)

\* Whoever is worked on, or was just accepted, is in the list.
AtWork == at \in {"edited", "accepted"} => index \in AnyTask

\* What an agent wrote exists until somebody looks at it.
Written == at = "edited" => \A f \in direct : project[f] # Absent

TaskTypeInv == TaskTypeOK /\ AtWork /\ Written

LEMMA AnyIsAnInterval ==
  /\ AnyTask = 1..Repair /\ Task = 1..NumTasks
  /\ NumTasks \in Nat /\ Repair = NumTasks + 1
BY TasksAssumption DEF AnyTask, Task, Repair

LEMMA NothingIsTyped == NoProject \in Project /\ NoFeedback \in Feedback
<1>1. Absent \in Content
  BY DEF Content
<1>2. NoProject \in Project
  BY <1>1 DEF NoProject, Project
<1> QED BY <1>2 DEF NoFeedback, Feedback

LEMMA TypeInvInit == TaskInit => TaskTypeInv
<1> SUFFICES ASSUME TaskInit PROVE TaskTypeInv
  OBVIOUS
<1> USE TasksAssumption, LimitsAssumption
<1>1. NoRecord \in Record
  BY DEF NoRecord, Record, Status
<1>2. index \in 1..(Repair + 1)
  BY DEF TaskInit, Repair
<1>3. state \in [AnyTask -> SUBSET (File \X SUBSET Marked)]
  BY DEF TaskInit
<1>4. early \in BOOLEAN
  BY DEF TaskInit
<1>5. \A c \in DOMAIN archive : archive[c] \in Project
  BY DEF TaskInit
<1>6. AtWork /\ Written
  BY DEF TaskInit, AtWork, Written
<1>7. work \in 0..MaxWork /\ crashes \in 0..MaxCrashes
      /\ rollbacks \in 0..MaxRollbacks
  BY DEF TaskInit
<1>8. TaskTypeOK
  BY <1>1, <1>2, <1>3, <1>4, <1>5, <1>7, NothingIsTyped DEF TaskInit, TaskTypeOK
<1> QED BY <1>6, <1>8 DEF TaskTypeInv

\* The state files stay typed when a task's is written.
LEMMA NewStateTyped ==
  ASSUME TaskTypeInv, at = "edited", direct # {}
  PROVE  NewState \in [AnyTask -> SUBSET (File \X SUBSET Marked)]
<1>1. \A f \in direct : <<f, Markers(project[f])>> \in File \X SUBSET Marked
  BY DEF TaskTypeInv, TaskTypeOK, Markers
<1> QED BY <1>1 DEF TaskTypeInv, TaskTypeOK, NewState

LEMMA CheckpointTyped ==
  ASSUME TaskTypeInv, Checkpoint
  PROVE  /\ mem' \in Record
         /\ \A c \in DOMAIN archive' : archive'[c] \in Project
<1> DEFINE rec == [id |-> NextId, task |-> index, holds |-> project]
           all == Append(mem.ckpts, rec)
           R == [id : (Nat \ {0}) \X AnyTask, task : AnyTask, holds : Project]
<1> USE LimitsAssumption
<1>1. mem.ckpts \in Seq(R) /\ mem.tasks \in [AnyTask -> Status]
  BY DEF TaskTypeInv, TaskTypeOK, Record
<1>2. index \in AnyTask
  BY DEF TaskTypeInv, AtWork, Checkpoint
<1>3. rec \in R
  BY <1>1, <1>2 DEF TaskTypeInv, TaskTypeOK, NextId
<1>4. all \in Seq(R) /\ Len(all) \in Nat
  BY <1>1, <1>3
<1>5. Len(all) > Keep => Kept(all) \in Seq(R)
  <2> SUFFICES ASSUME Len(all) > Keep PROVE Kept(all) \in Seq(R)
    OBVIOUS
  <2> HIDE DEF all, R
  <2>1. \A i \in (Len(all) - Keep + 1)..Len(all) : all[i] \in R
    BY <1>4, ElementOfSeq
  <2>2. SubSeq(all, Len(all) - Keep + 1, Len(all)) \in Seq(R)
    BY <1>4, <2>1, SubSeqProperties
  <2> QED BY <2>2 DEF Kept
<1>6. [mem.tasks EXCEPT ![index] = "passed"] \in [AnyTask -> Status]
  BY <1>1, <1>2 DEF Status
<1>7. mem' = [ckpts |-> IF Len(all) > Keep THEN Kept(all) ELSE all,
              tasks |-> [mem.tasks EXCEPT ![index] = "passed"]]
  BY DEF Checkpoint
<1>8. mem' \in Record
  <2> HIDE DEF all
  <2> QED BY <1>4, <1>5, <1>6, <1>7 DEF Record
<1>9. \A c \in DOMAIN archive' : archive'[c] \in Project
  <2>1. archive' = [c \in (DOMAIN archive \cup {NextId}) \ Pruned(all) |->
                      IF c = NextId THEN project ELSE archive[c]]
    BY DEF Checkpoint
  <2> HIDE DEF all
  <2> QED BY <2>1 DEF TaskTypeInv, TaskTypeOK
<1> QED BY <1>8, <1>9

LEMMA RollbackTyped ==
  ASSUME TaskTypeInv, RollbackTask
  PROVE  project' \in Project /\ saved' \in Record /\ mem' = saved'
<1> DEFINE R == [id : (Nat \ {0}) \X AnyTask, task : AnyTask, holds : Project]
<1>1. saved.ckpts \in Seq(R)
  BY DEF TaskTypeInv, TaskTypeOK, Record
<1>2. PICK i \in 1..Len(saved.ckpts) :
        LET id == saved.ckpts[i].id
            accepted == {saved.ckpts[j].task : j \in 1..i} IN
        /\ id \in DOMAIN archive
        /\ project' = archive[id]
        /\ saved' = [ckpts |-> UpTo(i),
                     tasks |-> [t \in AnyTask |->
                                  IF saved.tasks[t] = "unknown" THEN "unknown"
                                  ELSE IF t \in accepted THEN "passed"
                                  ELSE "pending"]]
  BY DEF RollbackTask
<1>3. UpTo(i) \in Seq(R)
  <2> HIDE DEF R
  <2>1. i \in Int /\ \A j \in 1..i : saved.ckpts[j] \in R
    BY <1>1, ElementOfSeq
  <2> QED BY <2>1, SubSeqProperties DEF UpTo
<1>4. saved' \in Record
  <2> HIDE DEF R
  <2> DEFINE accepted == {saved.ckpts[j].task : j \in 1..i}
             tt == [t \in AnyTask |-> IF saved.tasks[t] = "unknown" THEN "unknown"
                                  ELSE IF t \in accepted THEN "passed"
                                  ELSE "pending"]
  <2>1. tt \in [AnyTask -> Status]
    BY DEF Status
  <2>2. saved' = [ckpts |-> UpTo(i), tasks |-> tt]
    BY <1>2
  <2> HIDE DEF tt
  <2> QED BY <1>3, <2>1, <2>2 DEF Record, R
<1>5. project' \in Project
  BY <1>2 DEF TaskTypeInv, TaskTypeOK
<1> QED BY <1>4, <1>5 DEF RollbackTask

\* What ends an execution of the run keeps the types.
LEMMA LeaveTyped ==
  ASSUME TaskTypeInv, Leave
  PROVE  /\ before' \in Project /\ direct' \subseteq File
         /\ mem' \in Record /\ saved' = saved /\ error' \in Feedback
         /\ UNCHANGED <<files, feedback>>
         /\ at' = "down" /\ index' \in 1..(Repair + 1)
         /\ results' = {} /\ early' \in BOOLEAN
<1>1. 1 \in 1..(Repair + 1)
  BY AnyIsAnInterval
<1>2. early' \in BOOLEAN
  BY DEF Leave
<1>3. UNCHANGED <<files, feedback>>
  BY DEF Leave
<1>4. before' \in Project /\ direct' \subseteq File
  BY NothingIsTyped DEF Leave, Forget
<1>5. mem' \in Record /\ saved' = saved /\ error' \in Feedback
  BY NothingIsTyped DEF Leave, TaskTypeInv, TaskTypeOK
<1> QED BY <1>1, <1>2, <1>3, <1>4, <1>5 DEF Leave

LEMMA BeginTyped ==
  ASSUME Begin
  PROVE  /\ at' = "loop" /\ index' \in 1..(Repair + 1)
         /\ results' = {} /\ early' \in BOOLEAN
<1>1. 1 \in 1..(Repair + 1)
  BY AnyIsAnInterval
<1>2. early' \in BOOLEAN
  BY DEF Begin
<1> QED BY <1>1, <1>2 DEF Begin

LEMMA TypeInvNext == TaskTypeInv /\ [TaskNext]_taskVars => TaskTypeInv'
<1> SUFFICES ASSUME TaskTypeInv, [TaskNext]_taskVars PROVE TaskTypeInv'
  OBVIOUS
<1> USE TasksAssumption, LimitsAssumption
<1>a. AnyTask = 1..Repair /\ Repair \in Nat /\ NumTasks \in Nat
      /\ Repair = NumTasks + 1
  BY DEF AnyTask, Task, Repair
<1>b. NoProject \in Project /\ NoFeedback \in Feedback
  BY NothingIsTyped
<1>1. CASE Skip
  BY <1>1, <1>a
     DEF Skip, TaskTypeInv, TaskTypeOK, AtWork, Written, files, talk, counts, Last
<1>2. CASE Work
  <2>1. PICK w \in SUBSET File, p \in Project :
          /\ \A f \in w : p[f] # Absent /\ index \in p[f]
          /\ project' = p /\ direct' = w
    BY <1>2 DEF Work, Edit
  <2>2. index \in AnyTask
    BY <1>2, <1>a DEF Work, Last, TaskTypeInv, TaskTypeOK
  <2> QED BY <1>2, <2>1, <2>2
          DEF Work, TaskTypeInv, TaskTypeOK, AtWork, Written, files, talk
<1>3. CASE Accept
  <2>1. index \in AnyTask
    BY <1>3 DEF Accept, TaskTypeInv, AtWork
  <2>2. state' \in [AnyTask -> SUBSET (File \X SUBSET Marked)]
    BY <1>3, NewStateTyped DEF Accept
  <2> QED BY <1>3, <1>b, <2>1, <2>2
          DEF Accept, Forget, TaskTypeInv, TaskTypeOK, AtWork, Written, talk, counts
<1>4. CASE RejectLost
  <2>1. {index} \cup Lost(NewState) \subseteq AnyTask
    BY <1>4 DEF RejectLost, TaskTypeInv, AtWork, Lost, AnyTask
  <2>2. state' \in [AnyTask -> SUBSET (File \X SUBSET Marked)]
    BY <1>4, NewStateTyped DEF RejectLost
  <2>3. error' \in Feedback
    BY <1>4, <2>1 DEF RejectLost, Raise, Feedback
  <2> QED BY <1>4, <1>b, <2>2, <2>3
         
     DEF RejectLost, Raise, Forget, TaskTypeInv, TaskTypeOK, AtWork, Written, counts
<1>5. CASE RejectInvalid
  <2>1. state' \in [AnyTask -> SUBSET (File \X SUBSET Marked)]
    BY <1>5, NewStateTyped DEF RejectInvalid, TaskTypeInv, TaskTypeOK
  <2>2. PICK generic \in BOOLEAN : Raise(generic, {})
    BY <1>5 DEF RejectInvalid
  <2>3. error' \in Feedback
    BY <2>2 DEF Raise, Feedback
  <2> QED BY <1>5, <1>b, <2>1, <2>2, <2>3
         
     DEF RejectInvalid, Raise, Forget, TaskTypeInv, TaskTypeOK, AtWork, Written, counts
<1>6. CASE RejectEmpty
  <2>1. index \in AnyTask
    BY <1>6 DEF RejectEmpty, TaskTypeInv, AtWork
  <2>2. error' \in Feedback
    BY <1>6, <2>1 DEF RejectEmpty, Raise, Feedback
  <2> QED BY <1>6, <1>b, <2>2
         
     DEF RejectEmpty, Raise, Forget, TaskTypeInv, TaskTypeOK, AtWork, Written, counts
<1>7. CASE Ask
  BY <1>7, LeaveTyped DEF Ask, TaskTypeInv, TaskTypeOK, AtWork, Written, counts, files
<1>8. CASE Checkpoint
  <2>1. index \in AnyTask
    BY <1>8 DEF Checkpoint, TaskTypeInv, AtWork
  <2>2. index' \in 1..(Repair + 1)
    BY <1>8, <2>1, <1>a DEF Checkpoint
  <2> QED BY <1>8, <2>2, CheckpointTyped
          DEF Checkpoint, TaskTypeInv, TaskTypeOK, AtWork, Written, talk, counts
<1>9. CASE Pass
  BY <1>9 DEF Pass, TaskTypeInv, TaskTypeOK, AtWork, Written, files, talk, counts
<1>10. CASE RetryBuild
  BY <1>10, <1>b, BeginTyped
     DEF RetryBuild, TaskTypeInv, TaskTypeOK, AtWork, Written, files, counts
<1>11. CASE SentBack
  BY <1>11, BeginTyped
     DEF SentBack, TaskTypeInv, TaskTypeOK, AtWork, Written, files, counts
<1>12. CASE End
  BY <1>12, LeaveTyped DEF End, TaskTypeInv, TaskTypeOK, AtWork, Written, counts, files
<1>13. CASE Crash
  <2>1. crashes' \in 0..MaxCrashes
    BY <1>13 DEF Crash, TaskTypeInv, TaskTypeOK
  <2> QED BY <1>13, <2>1, LeaveTyped
          DEF Crash, TaskTypeInv, TaskTypeOK, AtWork, Written, files
<1>14. CASE StartAgain
  BY <1>14, BeginTyped
     DEF StartAgain, TaskTypeInv, TaskTypeOK, AtWork, Written, files, talk, counts
<1>15. CASE RollbackTask
  <2>1. rollbacks' \in 0..MaxRollbacks
    BY <1>15 DEF RollbackTask, TaskTypeInv, TaskTypeOK
  <2> QED BY <1>15, <2>1, RollbackTyped
          DEF RollbackTask, TaskTypeInv, TaskTypeOK, AtWork, Written, files, talk,
              taskLoop
<1>16. CASE UNCHANGED taskVars
  BY <1>16
     DEF TaskTypeInv, TaskTypeOK, AtWork, Written, taskVars, files, talk, taskLoop,
         counts
<1> QED BY <1>1, <1>2, <1>3, <1>4, <1>5, <1>6, <1>7, <1>8, <1>9, <1>10, <1>11,
           <1>12, <1>13, <1>14, <1>15, <1>16 DEF TaskNext

\* Every variable of the task loop keeps its type, and a task that is worked on
\* is one of the list.
THEOREM TaskLoopTypeCorrect == TaskSpec => []TaskTypeOK
<1>1. TaskSpec => []TaskTypeInv
  BY TypeInvInit, TypeInvNext, PTL DEF TaskSpec
<1>2. TaskTypeInv => TaskTypeOK
  BY DEF TaskTypeInv
<1> QED BY <1>1, <1>2, PTL

-----------------------------------------------------------------------------
(* Later tasks keep what earlier ones did.                                 *)

\* TASK-nnn stands at place nnn of the list, or later.
NumbersInOrder == \A t \in Task : Number[t] <= t

\* The markers that task t recorded are where it recorded them.
Recorded(t) == \A e \in state[t] : e[2] # {} => Holds(e)

\* The results are those of the tasks before the current one, and outside of an
\* attempt the project has what they recorded.
ResultsHeld ==
  /\ at \in {"loop", "edited"} => \A t \in results : t < index
  /\ at = "accepted" => \A t \in results : t <= index
  /\ at \in {"loop", "accepted", "passed"} => \A t \in results : Recorded(t)

LEMMA ResultsHeldInit == TaskInit => ResultsHeld
BY DEF TaskInit, ResultsHeld

\* The artifact of a task that is skipped is satisfied ...
LEMMA SkipHolds == TaskTypeInv /\ ResultsHeld /\ Skip => ResultsHeld'
<1> SUFFICES ASSUME TaskTypeInv, ResultsHeld, Skip PROVE ResultsHeld'
  OBVIOUS
<1>1. Recorded(index)
  BY DEF Skip, NeedsWork, Satisfied, Recorded
<1>2. UNCHANGED <<state, project, at>>
  BY DEF Skip, files
<1>3. \A t \in results' : Recorded(t)
  BY <1>1 DEF Skip, ResultsHeld
<1>4. \A t \in results' : t < index'
  <2>1. index \in Nat /\ results \subseteq Nat
    BY AnyIsAnInterval DEF TaskTypeInv, TaskTypeOK
  <2> QED BY <2>1 DEF Skip, ResultsHeld
<1> QED BY <1>2, <1>3, <1>4 DEF Skip, ResultsHeld, Recorded, Holds

\* ... and one that is accepted has undone none of those before it.
LEMMA AcceptHolds ==
  ASSUME NumbersInOrder, TaskTypeInv, ResultsHeld, Accept
  PROVE  ResultsHeld'
<1> USE TasksAssumption
<1>1. index \in AnyTask /\ UNCHANGED <<project, index>>
  BY DEF Accept, TaskTypeInv, AtWork
<1>2. \A t \in results : t < index /\ t \in Task
  <2>1. results \subseteq 1..Repair
    BY AnyIsAnInterval DEF TaskTypeInv, TaskTypeOK
  <2>2. \A t \in results : t < index
    BY DEF Accept, ResultsHeld
  <2> QED BY <1>1, <2>1, <2>2, AnyIsAnInterval
<1>3. ASSUME NEW t \in results PROVE Recorded(t)'
  <2>1. t # index /\ t \in AnyTask
    BY <1>1, <1>2, AnyIsAnInterval DEF AnyTask
  <2>2. Number[t] < index
    <3>1. Number[t] <= t /\ Number[t] \in 1..998
      BY <1>2 DEF NumbersInOrder
    <3>2. index \in Nat /\ t \in Nat /\ t < index
      BY <1>1, <1>2, AnyIsAnInterval
    <3> QED BY <3>1, <3>2
  <2>3. \A e \in NewState[t] : e[2] # {} => Holds(e)
    BY <1>2, <2>2 DEF Accept, Lost
  <2> QED BY <1>1, <2>3 DEF Accept, Recorded, Holds
<1>4. Recorded(index)'
  <2>1. state'[index] = {<<f, Markers(project[f])>> : f \in direct}
    BY <1>1 DEF Accept, NewState, TaskTypeInv, TaskTypeOK
  <2>2. \A f \in direct : project[f] # Absent
    BY DEF Accept, TaskTypeInv, Written
  <2> QED BY <1>1, <2>1, <2>2 DEF Recorded, Holds, Markers
<1>5. \A t \in results' : t <= index'
  BY <1>1, <1>2, AnyIsAnInterval DEF Accept, Task
<1> QED BY <1>1, <1>3, <1>4, <1>5 DEF Accept, ResultsHeld

LEMMA ResultsHeldNext ==
  ASSUME NumbersInOrder
  PROVE  TaskTypeInv /\ ResultsHeld /\ [TaskNext]_taskVars => ResultsHeld'
<1> SUFFICES ASSUME TaskTypeInv, ResultsHeld, [TaskNext]_taskVars PROVE ResultsHeld'
  OBVIOUS
<1>1. CASE Skip
  BY <1>1, SkipHolds
<1>2. CASE Work
  BY <1>2 DEF Work, ResultsHeld
<1>3. CASE Accept
  BY <1>3, AcceptHolds
<1>4. CASE RejectLost \/ RejectInvalid \/ RejectEmpty
  BY <1>4 DEF RejectLost, RejectInvalid, RejectEmpty, Raise, ResultsHeld
<1>5. CASE Ask \/ End \/ Crash
  BY <1>5 DEF Ask, End, Crash, Leave, ResultsHeld
<1>6. CASE Checkpoint
  <2>1. index \in Nat /\ results \subseteq Nat
    BY AnyIsAnInterval DEF TaskTypeInv, TaskTypeOK
  <2>2. \A t \in results' : t < index'
    BY <1>6, <2>1 DEF Checkpoint, ResultsHeld
  <2> QED BY <1>6, <2>2 DEF Checkpoint, ResultsHeld, Recorded, Holds
<1>7. CASE Pass
  BY <1>7 DEF Pass, ResultsHeld, Recorded, Holds, files
<1>8. CASE RetryBuild \/ SentBack \/ StartAgain
  BY <1>8 DEF RetryBuild, SentBack, StartAgain, Begin, ResultsHeld
<1>9. CASE RollbackTask
  BY <1>9 DEF RollbackTask, ResultsHeld, taskLoop
<1>10. CASE UNCHANGED taskVars
  BY <1>10 DEF ResultsHeld, Recorded, Holds, taskVars, files, taskLoop
<1> QED BY <1>1, <1>2, <1>3, <1>4, <1>5, <1>6, <1>7, <1>8, <1>9, <1>10 DEF TaskNext

\* If no task has a number beyond its place in the list, a build that passes has
\* every definition its tasks recorded, whatever was retried, repaired, crashed
\* or rolled back before.
THEOREM EarlierTasksAreKept ==
  ASSUME NumbersInOrder
  PROVE  TaskSpec => []EarlierTasksKept
<1>1. TaskTypeInv /\ ResultsHeld /\ [TaskNext]_taskVars => ResultsHeld'
  BY ResultsHeldNext
<1>2. TaskSpec => []ResultsHeld
  BY <1>1, TypeInvInit, TypeInvNext, ResultsHeldInit, PTL DEF TaskSpec
<1>3. ResultsHeld => EarlierTasksKept
  BY DEF ResultsHeld, EarlierTasksKept, Recorded
<1> QED BY <1>2, <1>3, PTL

-----------------------------------------------------------------------------
(* Checkpoints can be restored, as long as none was deleted.               *)

Numbered(r) == \A i \in 1..Len(r.ckpts) : r.ckpts[i].id[1] = i

\* Every checkpoint took an attempt, the store lists the first of those in
\* memory, and the ids of these are numbered by their places.
CheckpointsKept ==
  /\ Len(mem.ckpts) <= work
  /\ at \in {"edited", "accepted"} => Len(mem.ckpts) < work
  /\ Len(saved.ckpts) <= Len(mem.ckpts)
  /\ \A i \in 1..Len(saved.ckpts) : saved.ckpts[i] = mem.ckpts[i]
  /\ Numbered(mem)
  /\ Restorable(mem)

LEMMA RecordsAreSequences ==
  ASSUME TaskTypeInv
  PROVE  /\ Len(mem.ckpts) \in Nat /\ Len(saved.ckpts) \in Nat /\ work \in Nat
         /\ work <= MaxWork
BY LimitsAssumption DEF TaskTypeInv, TaskTypeOK, Record

LEMMA CheckpointsKeptInit == TaskInit => CheckpointsKept
<1> SUFFICES ASSUME TaskInit PROVE CheckpointsKept
  OBVIOUS
<1>1. mem.ckpts = <<>> /\ saved.ckpts = <<>> /\ work = 0 /\ at = "loop"
  BY DEF TaskInit, NoRecord
<1> QED BY <1>1 DEF CheckpointsKept, Numbered, Restorable

\* A new checkpoint has an id of its own, and nothing is pruned.
LEMMA CheckpointKeeps ==
  ASSUME Keep >= MaxWork, TaskTypeInv, CheckpointsKept, Checkpoint
  PROVE  CheckpointsKept'
<1> DEFINE rec == [id |-> NextId, task |-> index, holds |-> project]
           all == Append(mem.ckpts, rec)
           n == Len(mem.ckpts)
           R == [id : (Nat \ {0}) \X AnyTask, task : AnyTask, holds : Project]
<1> USE LimitsAssumption
<1>1. n \in Nat /\ n < work /\ work <= MaxWork /\ work \in Nat
  BY RecordsAreSequences DEF CheckpointsKept, Checkpoint
<1>2. mem.ckpts \in Seq(R)
  BY DEF TaskTypeInv, TaskTypeOK, Record
<1>3. Len(all) = n + 1 /\ all[n + 1] = rec
      /\ \A i \in 1..n : all[i] = mem.ckpts[i]
  BY <1>2
<1>4. rec.id = <<n + 1, index>> /\ NextId = <<n + 1, index>>
  BY DEF NextId
<1> HIDE DEF n, R
<1>5. mem'.ckpts = all
  <2> HIDE DEF all
  <2>1. ~(Len(all) > Keep)
    BY <1>1, <1>3
  <2> QED BY <2>1 DEF Checkpoint, all
<1>6. Pruned(all) = {}
  <2> HIDE DEF all
  <2>1. 1..(Len(all) - Keep) = {}
    BY <1>1, <1>3
  <2> QED BY <2>1 DEF Pruned
<1>7. archive' = [c \in DOMAIN archive \cup {NextId} |->
                    IF c = NextId THEN project ELSE archive[c]]
  BY <1>6 DEF Checkpoint
<1> HIDE DEF all
<1>8. Numbered(mem)'
  <2> SUFFICES ASSUME NEW i \in 1..(n + 1) PROVE all[i].id[1] = i
    BY <1>1, <1>3, <1>5 DEF Numbered
  <2>1. CASE i = n + 1
    BY <1>3, <1>4, <2>1
  <2>2. CASE i # n + 1
    <3>1. i \in 1..n
      BY <1>1, <2>2
    <3> QED BY <1>3, <3>1 DEF CheckpointsKept, Numbered, n
  <2> QED BY <2>1, <2>2
<1>9. Restorable(mem)'
  <2> SUFFICES ASSUME NEW i \in 1..(n + 1)
               PROVE  /\ all[i].id \in DOMAIN archive'
                      /\ archive'[all[i].id] = all[i].holds
    BY <1>1, <1>3, <1>5 DEF Restorable
  <2>1. CASE i = n + 1
    BY <1>3, <1>7, <2>1
  <2>2. CASE i # n + 1
    <3>1. i \in 1..n
      BY <1>1, <2>2
    <3>2. mem.ckpts[i].id[1] = i /\ mem.ckpts[i].id # NextId
      BY <1>1, <1>4, <3>1 DEF CheckpointsKept, Numbered, n
    <3>3. /\ mem.ckpts[i].id \in DOMAIN archive
          /\ archive[mem.ckpts[i].id] = mem.ckpts[i].holds
      BY <3>1 DEF CheckpointsKept, Restorable, n
    <3> QED BY <1>3, <1>7, <3>1, <3>2, <3>3
  <2> QED BY <2>1, <2>2
<1>10. UNCHANGED <<saved, work>> /\ at' = "loop"
  BY DEF Checkpoint, counts
<1>11. /\ Len(saved.ckpts) <= n + 1
       /\ \A i \in 1..Len(saved.ckpts) : saved.ckpts[i] = all[i]
  <2>1. Len(saved.ckpts) \in Nat /\ Len(saved.ckpts) <= n
    BY RecordsAreSequences DEF CheckpointsKept, n
  <2>2. \A i \in 1..Len(saved.ckpts) :
          saved.ckpts[i] = mem.ckpts[i] /\ i \in 1..n
    BY <1>1, <2>1 DEF CheckpointsKept
  <2>3. \A i \in 1..Len(saved.ckpts) : saved.ckpts[i] = all[i]
    BY <1>3, <2>2, Zenon
  <2> QED BY <1>1, <2>1, <2>3
<1> QED BY <1>1, <1>3, <1>5, <1>8, <1>9, <1>10, <1>11 DEF CheckpointsKept

LEMMA CheckpointsKeptNext ==
  ASSUME Keep >= MaxWork
  PROVE  TaskTypeInv /\ CheckpointsKept /\ [TaskNext]_taskVars => CheckpointsKept'
<1> SUFFICES ASSUME TaskTypeInv, CheckpointsKept, [TaskNext]_taskVars PROVE CheckpointsKept'
  OBVIOUS
<1> USE RecordsAreSequences
<1>1. CASE Skip
  BY <1>1 DEF Skip, CheckpointsKept, Numbered, Restorable, files, counts
<1>2. CASE Work
  BY <1>2 DEF Work, CheckpointsKept, Numbered, Restorable, files
<1>3. CASE Accept
  BY <1>3 DEF Accept, CheckpointsKept, Numbered, Restorable, counts
<1>4. CASE RejectLost \/ RejectInvalid \/ RejectEmpty
  BY <1>4 DEF RejectLost, RejectInvalid, RejectEmpty, Raise, CheckpointsKept,
              Numbered, Restorable, counts
<1>5. CASE Ask \/ End \/ Crash
  <2>1. Leave /\ UNCHANGED work
    BY <1>5 DEF Ask, End, Crash, counts
  <2>2. mem' = saved /\ saved' = saved /\ at' = "down" /\ UNCHANGED archive
    BY <2>1 DEF Leave, files
  <2>3. Len(saved.ckpts) \in Nat /\ Len(saved.ckpts) <= work
        /\ Numbered(saved) /\ Restorable(saved)
    BY DEF CheckpointsKept, Numbered, Restorable
  <2>4. Numbered(mem)' /\ Restorable(mem)'
    BY <2>2, <2>3 DEF Numbered, Restorable
  <2> QED BY <2>1, <2>2, <2>3, <2>4 DEF CheckpointsKept
<1>6. CASE Checkpoint
  BY <1>6, CheckpointKeeps
<1>7. CASE Pass
  BY <1>7 DEF Pass, CheckpointsKept, Numbered, Restorable, files, counts
<1>8. CASE RetryBuild \/ SentBack \/ StartAgain
  BY <1>8 DEF RetryBuild, SentBack, StartAgain, Begin, CheckpointsKept, Numbered,
              Restorable, files, counts
<1>9. CASE RollbackTask
  <2>1. PICK i \in 1..Len(saved.ckpts) : saved'.ckpts = UpTo(i)
    BY <1>9 DEF RollbackTask
  <2>2. /\ mem' = saved'
        /\ UNCHANGED <<archive, work, at>> /\ at = "down"
    BY <1>9 DEF RollbackTask, files, taskLoop
  <2>3. Len(UpTo(i)) = i /\ \A j \in 1..i : UpTo(i)[j] = saved.ckpts[j]
    <3> DEFINE S == {saved.ckpts[j] : j \in 1..i}
    <3>1. i \in Nat /\ i >= 1 /\ \A j \in 1..i : saved.ckpts[j] \in S
      OBVIOUS
    <3> HIDE DEF S
    <3> QED BY <3>1, SubSeqProperties DEF UpTo
  <2>4. \A j \in 1..i : UpTo(i)[j] = mem.ckpts[j] /\ j \in 1..Len(mem.ckpts)
    BY <2>3 DEF CheckpointsKept
  <2>5. i <= work /\ i \in Nat
    BY DEF CheckpointsKept
  <2>6. Numbered(mem)'
    BY <2>1, <2>2, <2>3, <2>4 DEF CheckpointsKept, Numbered
  <2>7. Restorable(mem)'
    BY <2>1, <2>2, <2>3, <2>4 DEF CheckpointsKept, Restorable
  <2> QED BY <2>1, <2>2, <2>3, <2>5, <2>6, <2>7 DEF CheckpointsKept
<1>10. CASE UNCHANGED taskVars
  BY <1>10 DEF CheckpointsKept, Numbered, Restorable, taskVars, files, taskLoop, counts
<1> QED BY <1>1, <1>2, <1>3, <1>4, <1>5, <1>6, <1>7, <1>8, <1>9, <1>10 DEF TaskNext

\* In a run that does not work on more tasks than checkpoints are kept, every
\* checkpoint of the record restores the project it was made of.
THEOREM CheckpointsCanBeRestored ==
  ASSUME Keep >= MaxWork
  PROVE  TaskSpec => []CheckpointsRestorable
<1>1. TaskTypeInv /\ CheckpointsKept /\ [TaskNext]_taskVars => CheckpointsKept'
  BY CheckpointsKeptNext
<1>2. TaskSpec => []TaskTypeInv
  BY TypeInvInit, TypeInvNext, PTL DEF TaskSpec
<1>3. TaskSpec => []CheckpointsKept
  BY <1>1, <1>2, CheckpointsKeptInit, PTL DEF TaskSpec
<1>4. TaskTypeInv /\ CheckpointsKept => CheckpointsRestorable
  BY RecordsAreSequences DEF CheckpointsKept, CheckpointsRestorable, Restorable
<1> QED BY <1>2, <1>3, <1>4, PTL

-----------------------------------------------------------------------------
(* The loop over the steps.                                                *)

\* The types of what TypeOK does not name.
StepTypeInv ==
  /\ TypeOK
  /\ retries \in [Step -> Nat] /\ base \in [Step -> Nat]
  /\ failures \in [Step -> Nat]
  /\ pc \in {"acting", "passed", "saved", "failing"} => key \in Key /\ idx \in Step

-----------------------------------------------------------------------------
(* Lemmas on the operators.                                                *)

\* The first of some steps is one of them, with none before it.
LEMMA FirstIsLeast ==
  ASSUME Assumptions, NEW S \in SUBSET Step, S # {}
  PROVE  First(S) \in S /\ \A j \in S : First(S) <= j
<1>1. S \subseteq Nat
  BY DEF Step
<1>2. \E k \in S : \A j \in S : ~(<<j, k>> \in OpToRel(<, Nat))
  BY <1>1, WFMin, NatLessThanWellFounded, Zenon
<1>3. \A k, j \in S : ~(<<j, k>> \in OpToRel(<, Nat)) => ~(j < k)
  BY <1>1, Zenon DEF OpToRel
<1>4. \E k \in S : \A j \in S : ~(j < k)
  BY <1>2, <1>3, Zenon
<1>5. \E k \in S : \A j \in S : k <= j
  BY <1>1, <1>4
<1> QED BY <1>5 DEF First

\* A resume starts at the first step that has not passed, or at the last.
LEMMA ResumeStep ==
  ASSUME Assumptions
  PROVE  /\ ResumeIndex \in Step
         /\ \A k \in Step : k < ResumeIndex => st[k] = "passed"
         /\ st[ResumeIndex] # "passed" \/ \A k \in Step : st[k] = "passed"
         /\ st[ResumeIndex] # "passed" \/ ResumeIndex = NumSteps
<1> DEFINE S == {k \in Step : st[k] # "passed"}
<1>1. NumSteps \in Step
  BY DEF Assumptions, Step
<1>2. CASE S = {}
  <2>1. ResumeIndex = NumSteps
    BY <1>2 DEF ResumeIndex, FirstOr
  <2> QED BY <1>1, <1>2, <2>1
<1>3. CASE S # {}
  <2>1. ResumeIndex = First(S)
    BY <1>3 DEF ResumeIndex, FirstOr
  <2>2. First(S) \in S /\ \A j \in S : First(S) <= j
    BY <1>3, FirstIsLeast
  <2>3. \A k \in Step : k < First(S) => st[k] = "passed"
    BY <2>2 DEF Step, Assumptions
  <2> QED BY <2>1, <2>2, <2>3
<1> QED BY <1>2, <1>3

LEMMA ResetTyped ==
  ASSUME StepTypeInv, NEW i \in Step PROVE ResetFrom(i) \in [Step -> StepStatus]
BY DEF ResetFrom, StepTypeInv, TypeOK, StepStatus

LEMMA KeyTyped ==
  ASSUME Assumptions, StepTypeInv, NEW k \in Step PROVE AttemptKey(k) \in Key
<1>1. base[k] + streak[k] \in Nat
  BY DEF StepTypeInv, TypeOK, Assumptions
<1>2. (IF taskCkpt # NoTask THEN taskCkpt ELSE ckpt) \in CkptId
  BY DEF StepTypeInv, TypeOK
<1> QED BY <1>1, <1>2, Zenon DEF AttemptKey, Key

LEMMA CkptTyped ==
  ASSUME Assumptions, StepTypeInv
  PROVE  /\ ckpt[3] \in 0..MaxNumber /\ taskCkpt[3] \in 0..MaxNumber
         /\ \A k \in Step, n \in 0..MaxNumber :
              <<"step", k, n>> \in CkptId /\ <<"task", k, n>> \in CkptId
<1>1. \A c \in CkptId : c[3] \in 0..MaxNumber
  BY DEF CkptId
<1>2. \A k \in Step : k \in 0..NumSteps
  BY DEF Step, Assumptions
<1> QED BY <1>1, <1>2 DEF CkptId, StepTypeInv, TypeOK

\* An attempt is recorded under its key, and no other record changes.
LEMMA WriteOne ==
  ASSUME NEW x, NEW s, Write(x, s)
  PROVE  /\ DOMAIN attempts' = DOMAIN attempts \cup {x}
         /\ attempts'[x].status = s
         /\ \A y \in DOMAIN attempts : y # x => attempts'[y] = attempts[y]
BY DEF Write

-----------------------------------------------------------------------------
LEMMA TypeInit == ASSUME Assumptions, Init PROVE StepTypeInv
<1>1. 0 \in 0..MaxNumber /\ 0 \in 0..NumSteps /\ 0 \in 0..MaxRetries
      /\ 1 \in 1..(NumSteps + 1)
  BY DEF Assumptions
<1>2. ckpt \in CkptId /\ taskCkpt \in CkptId
  BY <1>1 DEF Init, Baseline, NoTask, CkptId
<1>3. DOMAIN attempts = {}
  BY DEF Init
<1>4. /\ st \in [Step -> StepStatus] /\ streak \in [Step -> 0..MaxRetries]
      /\ retries \in [Step -> Nat] /\ base \in [Step -> Nat]
      /\ failures \in [Step -> Nat]
  BY <1>1 DEF Init, StepStatus
<1>5. /\ status = "active" /\ reason = "none" /\ recoverable = FALSE
      /\ pc = "loop" /\ idx = 1 /\ owed = Step
  BY DEF Init
<1> QED BY <1>1, <1>2, <1>3, <1>4, <1>5 DEF StepTypeInv, TypeOK, RunStatus, Reason

LEMMA TypeStep == ASSUME Assumptions, StepTypeInv, [Next]_vars PROVE StepTypeInv'
<1> USE DEF Assumptions
<1>1. CASE SkipDuplicate
  BY <1>1 DEF SkipDuplicate, StepTypeInv, TypeOK, store
<1>2. CASE RefuseDuplicate
  BY <1>2 DEF RefuseDuplicate, StepTypeInv, TypeOK, store
<1>3. CASE BeginAttempt
  <2>1. idx \in Step
    BY <1>3 DEF BeginAttempt, StepTypeInv, TypeOK, Step
  <2>2. AttemptKey(idx) \in Key /\ key' = AttemptKey(idx)
    BY <1>3, <2>1, KeyTyped DEF BeginAttempt
  <2>3. DOMAIN attempts' = DOMAIN attempts \cup {AttemptKey(idx)}
    BY <1>3, WriteOne DEF BeginAttempt
  <2>4. st' \in [Step -> StepStatus]
    BY <1>3 DEF BeginAttempt, StepTypeInv, TypeOK, StepStatus
  <2> QED BY <1>3, <2>1, <2>2, <2>3, <2>4 DEF BeginAttempt, StepTypeInv, TypeOK
<1>4. CASE StepPasses
  BY <1>4 DEF StepPasses, StepTypeInv, TypeOK, StepStatus
<1>5. CASE SaveCheckpoint
  <2>1. /\ ckpt[3] \in 0..MaxNumber /\ taskCkpt[3] \in 0..MaxNumber
        /\ \A k \in Step, n \in 0..MaxNumber :
              <<"step", k, n>> \in CkptId /\ <<"task", k, n>> \in CkptId
    BY CkptTyped
  <2>2. idx \in Step
    BY <1>5 DEF SaveCheckpoint, StepTypeInv
  <2>3. ckpt' \in CkptId
    <3>1. PICK n \in 0..MaxNumber : ckpt' = <<"step", idx, n>>
      BY <1>5, <2>1 DEF SaveCheckpoint, NextCkpt
    <3> QED BY <2>1, <2>2, <3>1
  <2>4. taskCkpt' \in CkptId
    <3>1. CASE taskCkpt' = taskCkpt
      BY <3>1 DEF StepTypeInv, TypeOK
    <3>2. CASE taskCkpt[3] < MaxNumber /\ taskCkpt' = <<"task", idx, taskCkpt[3] + 1>>
      <4>1. taskCkpt[3] + 1 \in 0..MaxNumber
        BY <2>1, <3>2
      <4> QED BY <2>1, <2>2, <3>2, <4>1
    <3> QED BY <1>5, <3>1, <3>2 DEF SaveCheckpoint
  <2> QED BY <1>5, <2>2, <2>3, <2>4 DEF SaveCheckpoint, StepTypeInv, TypeOK
<1>6. CASE FinishAttempt
  <2>1. DOMAIN attempts' \subseteq Key /\ key \in Key /\ idx \in Step
    <3>1. Write(key, "completed") /\ pc \in {"acting", "saved"}
      BY <1>6 DEF FinishAttempt
    <3>2. DOMAIN attempts' = DOMAIN attempts \cup {key}
      BY <3>1, WriteOne
    <3>3. DOMAIN attempts \subseteq Key /\ key \in Key /\ idx \in Step
      BY <3>1 DEF StepTypeInv, TypeOK
    <3> QED BY <3>2, <3>3
  <2>2. idx' \in 1..(NumSteps + 1)
    BY <1>6, <2>1 DEF FinishAttempt, Step
  <2> QED BY <1>6, <2>1, <2>2 DEF FinishAttempt, StepTypeInv, TypeOK, store
<1>7. CASE StepFails
  <2>1. DOMAIN attempts' \subseteq Key /\ key \in Key /\ idx \in Step
    <3>1. Write(key, "failed") /\ pc \in {"acting", "saved"}
      BY <1>7 DEF StepFails
    <3>2. DOMAIN attempts' = DOMAIN attempts \cup {key}
      BY <3>1, WriteOne
    <3>3. DOMAIN attempts \subseteq Key /\ key \in Key /\ idx \in Step
      BY <3>1 DEF StepTypeInv, TypeOK
    <3> QED BY <3>2, <3>3
  <2>2. st' \in [Step -> StepStatus] /\ failures' \in [Step -> Nat]
    BY <1>7, <2>1 DEF StepFails, StepTypeInv, TypeOK, StepStatus
  <2> QED BY <1>7, <2>1, <2>2 DEF StepFails, StepTypeInv, TypeOK
<1>8. CASE StepAsks
  <2>1. DOMAIN attempts' \subseteq Key /\ key \in Key /\ idx \in Step
    <3>1. Write(key, "waiting_input") /\ pc \in {"acting", "saved"}
      BY <1>8 DEF StepAsks
    <3>2. DOMAIN attempts' = DOMAIN attempts \cup {key}
      BY <3>1, WriteOne
    <3>3. DOMAIN attempts \subseteq Key /\ key \in Key /\ idx \in Step
      BY <3>1 DEF StepTypeInv, TypeOK
    <3> QED BY <3>2, <3>3
  <2> QED BY <1>8, <2>1 DEF StepAsks, StepTypeInv, TypeOK, StepStatus, RunStatus
<1>9. CASE Recover
  <2>1. idx \in Step
    BY <1>9 DEF Recover, StepTypeInv
  <2>2. PICK i \in RetryTarget[idx] :
          st' = ResetFrom(i) /\ owed' = owed \cup From(i) /\ idx' = i
    BY <1>9 DEF Recover
  <2>3. i \in Step
    BY <2>1, <2>2 DEF Step
  <2>4. st' \in [Step -> StepStatus]
    BY <2>2, <2>3, ResetTyped
  <2>5. streak' \in [Step -> 0..MaxRetries] /\ retries' \in [Step -> Nat]
    <3>1. streak[idx] \in 0..MaxRetries /\ retries[idx] \in Nat
      BY <2>1 DEF StepTypeInv, TypeOK
    <3>2. streak[idx] + 1 \in 0..MaxRetries /\ retries[idx] + 1 \in Nat
      BY <1>9, <3>1 DEF Recover
    <3> QED BY <1>9, <3>2 DEF Recover, StepTypeInv, TypeOK
  <2>6. idx' \in 1..(NumSteps + 1) /\ owed' \subseteq Step
    <3>1. idx' \in 1..(NumSteps + 1)
      BY <2>2, <2>3 DEF Step
    <3>2. From(idx') \subseteq Step /\ owed \subseteq Step
      BY DEF From, StepTypeInv, TypeOK
    <3> QED BY <2>2, <3>1, <3>2
  <2> QED BY <1>9, <2>4, <2>5, <2>6 DEF Recover, StepTypeInv, TypeOK
<1>10. ASSUME NEW word \in Reason, Fail(word), pc # "down" PROVE StepTypeInv'
  BY <1>10 DEF Fail, StepTypeInv, TypeOK, RunStatus
<1>11. CASE GiveUp
  <2>1. (Fail("budget") \/ Fail("other")) /\ pc # "down"
    BY <1>11 DEF GiveUp
  <2> QED BY <1>10, <2>1 DEF Reason
<1>12. CASE Complete
  <2>1. CASE Fail("other")
    BY <1>10, <1>12, <2>1 DEF Complete, Reason
  <2>2. CASE ~Fail("other")
    BY <1>12, <2>2 DEF Complete, StepTypeInv, TypeOK, RunStatus, Reason
  <2> QED BY <2>1, <2>2
<1>13. CASE MonitorFails
  BY <1>13 DEF MonitorFails, StepTypeInv, TypeOK, RunStatus, Reason
<1>14. CASE Restart
  BY <1>14 DEF Restart, StepTypeInv, TypeOK, RunStatus, Reason, StepStatus
<1>15. ASSUME NEW i \in Step, NEW again \in [Step -> Nat], StartFrom(i, again),
              recoverable' \in BOOLEAN, owed' \subseteq Step, failures' = failures
       PROVE  StepTypeInv'
  <2>1. st' \in [Step -> StepStatus]
    BY <1>15, ResetTyped DEF StartFrom
  <2>2. idx' \in 1..(NumSteps + 1)
    BY <1>15 DEF StartFrom, Step
  <2>3. /\ status' = "active" /\ reason' = "none" /\ pc' = "loop"
        /\ retries' = again /\ base' = again
        /\ UNCHANGED <<streak, ckpt, taskCkpt, attempts, key>>
    BY <1>15 DEF StartFrom
  <2> QED BY <1>15, <2>1, <2>2, <2>3 DEF StepTypeInv, TypeOK, RunStatus, Reason
<1>16. CASE Resume
  <2>1. StartFrom(ResumeIndex, retries) /\ recoverable' \in BOOLEAN
        /\ owed' = owed /\ failures' = failures
    BY <1>16 DEF Resume
  <2>2. ResumeIndex \in Step
    BY ResumeStep
  <2> QED BY <1>15, <2>1, <2>2 DEF StepTypeInv, TypeOK
<1>17. CASE Answer
  <2> DEFINE waiting == {k \in Step : st[k] = "waiting_input"}
  <2>1. StartFrom(First(waiting), retries) /\ waiting # {}
        /\ recoverable' = recoverable /\ owed' = owed /\ failures' = failures
    BY <1>17 DEF Answer
  <2>2. First(waiting) \in Step
    BY <2>1, FirstIsLeast
  <2> QED BY <1>15, <2>1, <2>2 DEF StepTypeInv, TypeOK
<1>18. CASE Retry
  <2>1. PICK i \in Step :
          /\ StartFrom(i, [k \in Step |-> IF k >= i THEN 0 ELSE retries[k]])
          /\ owed' = owed \cup From(i)
          /\ UNCHANGED <<recoverable, failures>>
    BY <1>18 DEF Retry
  <2>2. [k \in Step |-> IF k >= i THEN 0 ELSE retries[k]] \in [Step -> Nat]
    BY DEF StepTypeInv
  <2> QED BY <1>15, <2>1, <2>2 DEF StepTypeInv, TypeOK, From
<1>19. CASE UNCHANGED vars
  BY <1>19 DEF vars, store, loop, StepTypeInv, TypeOK
<1> QED BY <1>1, <1>2, <1>3, <1>4, <1>5, <1>6, <1>7, <1>8, <1>9, <1>11, <1>12,
           <1>13, <1>14, <1>16, <1>17, <1>18, <1>19 DEF Next, Loop

\* The loop, its attempts and counters keep their types, and an active run is
\* one with a controller, through any failures, restarts and requests.
THEOREM StepLoopTypeCorrect == ASSUME Assumptions PROVE Spec => []TypeOK
<1>1. StepTypeInv => TypeOK
  BY DEF StepTypeInv
<1> QED BY <1>1, TypeInit, TypeStep, PTL DEF Spec

-----------------------------------------------------------------------------
(* The budget.                                                             *)

\* No step has failed in a row less often than it was retried.
Counted ==
  /\ \A k \in Step : failures[k] >= streak[k]
  /\ pc = "failing" => failures[idx] >= streak[idx] + 1

LEMMA CountedInit == ASSUME Init PROVE Counted
BY DEF Init, Counted

LEMMA CountedStep ==
  ASSUME Assumptions, StepTypeInv, Counted, [Next]_vars PROVE Counted'
<1>0. /\ \A k \in Step : failures[k] \in Nat /\ streak[k] \in Nat
      /\ failures \in [Step -> Nat] /\ streak \in [Step -> 0..MaxRetries]
  BY DEF StepTypeInv, TypeOK, Assumptions
<1>1. CASE SaveCheckpoint
  <2>1. /\ streak' = [streak EXCEPT ![idx] = 0]
        /\ failures' = [failures EXCEPT ![idx] = 0]
        /\ pc' = "saved"
    BY <1>1 DEF SaveCheckpoint
  <2> QED BY <1>0, <2>1 DEF Counted
<1>2. CASE StepFails
  <2>1. /\ failures' = [failures EXCEPT ![idx] = @ + 1] /\ streak' = streak
        /\ idx' = idx /\ idx \in Step
    BY <1>2 DEF StepFails, StepTypeInv
  <2> QED BY <1>0, <2>1 DEF Counted
<1>3. CASE Recover
  <2>1. /\ streak' = [streak EXCEPT ![idx] = @ + 1] /\ failures' = failures
        /\ pc = "failing" /\ pc' = "loop" /\ idx \in Step
    BY <1>3 DEF Recover, StepTypeInv
  <2> QED BY <1>0, <2>1 DEF Counted
<1>4. ASSUME UNCHANGED <<failures, streak>>, pc' # "failing" PROVE Counted'
  BY <1>4 DEF Counted
<1>5. CASE SkipDuplicate \/ RefuseDuplicate \/ BeginAttempt \/ StepPasses
           \/ FinishAttempt \/ StepAsks \/ MonitorFails \/ Restart
  BY <1>4, <1>5 DEF SkipDuplicate, RefuseDuplicate, BeginAttempt, StepPasses,
     FinishAttempt, StepAsks, MonitorFails, Restart, store
<1>6. CASE GiveUp \/ Complete
  BY <1>4, <1>6 DEF GiveUp, Complete, Fail
<1>7. CASE Resume \/ Answer \/ Retry
  BY <1>4, <1>7 DEF Resume, Answer, Retry, StartFrom
<1>8. CASE UNCHANGED vars
  BY <1>8 DEF vars, store, loop, Counted
<1> QED BY <1>1, <1>2, <1>3, <1>5, <1>6, <1>7, <1>8 DEF Next, Loop

\* Only the third way to give up names the budget.
LEMMA BudgetStep ==
  ASSUME Assumptions, StepTypeInv, Counted, [Next]_vars,
         reason # "budget", reason' = "budget"
  PROVE  failures[idx] >= MaxRetries + 1
<1>1. CASE GiveUp
  <2>1. pc = "failing" /\ streak[idx] >= MaxRetries
    BY <1>1 DEF GiveUp, Fail
  <2>2. /\ idx \in Step /\ failures[idx] \in Nat /\ streak[idx] \in Nat
        /\ MaxRetries \in Nat
    BY <2>1 DEF StepTypeInv, TypeOK, Assumptions
  <2> QED BY <2>1, <2>2 DEF Counted
<1>2. CASE SkipDuplicate \/ RefuseDuplicate \/ BeginAttempt \/ StepPasses
           \/ SaveCheckpoint \/ FinishAttempt \/ StepFails \/ StepAsks
           \/ Recover \/ Complete \/ MonitorFails \/ Restart
  BY <1>2 DEF SkipDuplicate, RefuseDuplicate, BeginAttempt, StepPasses,
     SaveCheckpoint, FinishAttempt, StepFails, StepAsks, Recover, Complete, Fail,
     MonitorFails, Restart, store
<1>3. CASE Resume \/ Answer \/ Retry
  BY <1>3 DEF Resume, Answer, Retry, StartFrom
<1>4. CASE UNCHANGED vars
  BY <1>4 DEF vars, store
<1> QED BY <1>1, <1>2, <1>3, <1>4 DEF Next, Loop

\* A run that fails for the budget of a step has seen that step fail
\* MaxRetries + 1 times in a row; no restart or request takes a retry away.
THEOREM BudgetGranted == ASSUME Assumptions PROVE Spec => BudgetIsGranted
<1>1. Init => StepTypeInv /\ Counted
  BY TypeInit, CountedInit
<1>2. StepTypeInv /\ Counted /\ [Next]_vars => StepTypeInv' /\ Counted'
  BY TypeStep, CountedStep
<1>3. StepTypeInv /\ Counted /\ [Next]_vars =>
        [reason # "budget" /\ reason' = "budget" =>
           failures[idx] >= MaxRetries + 1]_vars
  BY BudgetStep
<1> QED BY <1>1, <1>2, <1>3, PTL DEF Spec, BudgetIsGranted

-----------------------------------------------------------------------------
(* What is executed.                                                       *)

\* The user retries only steps all others before have passed, and the list of
\* step checkpoints is never full.
InTurn == RetryInOrder /\ MaxNumber <= MaxCheckpoints

\* Completed attempts are of earlier checkpoints than the last.
Fresh ==
  /\ \A x \in DOMAIN attempts :
       attempts[x].status = "completed" => x[3][3] < ckpt[3]
  /\ pc \in {"acting", "passed"} => key[3][3] <= ckpt[3]
  /\ pc = "saved" => key[3][3] < ckpt[3]

\* What has passed is not owed, and a step that was jumped over has failed, or
\* one before it has.
Behind(k) ==
  \A j \in Step : j < k =>
    st[j] = "passed" \/ \E m \in Step : m <= j /\ st[m] = "failed"
Reached == {"passed", "waiting_input"}
Passing ==
  /\ \A k \in Step : st[k] = "passed" => k \notin owed
  /\ \A k \in Step : st[k] \in Reached => Behind(k)

\* The loop is where the steps that have passed end.
AtTheEnd ==
  /\ pc \in {"loop", "acting", "failing"} =>
       /\ \A k \in Step : k >= idx => st[k] \notin Reached
       /\ Behind(idx)
  /\ pc = "failing" => st[idx] = "failed"
  /\ pc \in {"passed", "saved"} =>
       /\ \A k \in Step : k > idx => st[k] \notin Reached
       /\ st[idx] = "passed"

OrderInv ==
  taskCkpt = NoTask => Fresh /\ Passing /\ AtTheEnd /\ DoneIsExecuted

LEMMA OrderInit == ASSUME Assumptions, Init PROVE OrderInv
<1>1. /\ \A k \in Step : st[k] = "pending"
      /\ DOMAIN attempts = {} /\ pc = "loop" /\ idx = 1 /\ status = "active"
  BY DEF Init
<1>2. Behind(idx)
  BY <1>1 DEF Behind, Step
<1> QED BY <1>1, <1>2 DEF OrderInv, Fresh, Passing, AtTheEnd, Reached, DoneIsExecuted

\* What holds of the record when the loop starts again at a step: a failure, a
\* resume, an answer and a retry all do.
LEMMA StartsAgain ==
  ASSUME Assumptions, StepTypeInv, Passing, NEW i \in Step, Behind(i),
         st' = ResetFrom(i), idx' = i, pc' = "loop",
         owed' \subseteq owed \cup From(i)
  PROVE  Passing' /\ AtTheEnd'
<1>1. \A k \in Step : st'[k] = (IF k >= i THEN "pending" ELSE st[k])
  BY DEF ResetFrom
<1>2. \A k \in Step : k <= i /\ Behind(k) => Behind(k)'
  BY <1>1 DEF Behind, Step
<1>3. \A k \in Step : st'[k] \in Reached => k < i /\ st[k] \in Reached /\ Behind(k)'
  <2> SUFFICES ASSUME NEW k \in Step, st'[k] \in Reached
               PROVE  k < i /\ st[k] \in Reached /\ Behind(k)'
    OBVIOUS
  <2>1. k < i /\ st'[k] = st[k]
    BY <1>1 DEF Reached, Step
  <2>2. Behind(k)
    BY <2>1 DEF Passing
  <2> QED BY <1>2, <2>1, <2>2 DEF Step
<1>4. \A k \in Step : st'[k] = "passed" => k \notin owed'
  <2> SUFFICES ASSUME NEW k \in Step, st'[k] = "passed" PROVE k \notin owed'
    OBVIOUS
  <2>1. k < i /\ st[k] = "passed"
    BY <1>1, <1>3 DEF Reached
  <2>2. k \notin From(i)
    BY <2>1 DEF From, Step
  <2>3. k \notin owed
    BY <2>1 DEF Passing
  <2> QED BY <2>2, <2>3
<1>5. \A k \in Step : k >= idx' => st'[k] \notin Reached'
  BY <1>1 DEF Reached
<1>6. Behind(idx)'
  BY <1>2 DEF Behind, Step
<1> QED BY <1>3, <1>4, <1>5, <1>6 DEF Passing, AtTheEnd, Reached

\* With no task checkpoints the key of an attempt names the last checkpoint.
LEMMA KeyIsOfLast ==
  ASSUME taskCkpt = NoTask, NEW k PROVE AttemptKey(k)[3] = ckpt
BY DEF AttemptKey

\* So no completed attempt stands in the way of the next one.
LEMMA NoneIsSkipped ==
  ASSUME Assumptions, StepTypeInv, taskCkpt = NoTask, Fresh PROVE ~SkipDuplicate
<1> SUFFICES ASSUME SkipDuplicate PROVE FALSE
  OBVIOUS
<1> DEFINE x == AttemptKey(idx)
<1>1. Attempt(x).status = "completed"
  BY DEF SkipDuplicate
<1>2. x \in DOMAIN attempts /\ attempts[x].status = "completed"
  BY <1>1 DEF Attempt
<1>3. x[3] = ckpt
  BY KeyIsOfLast
<1>4. ckpt[3] \in 0..MaxNumber
  BY CkptTyped
<1>5. x[3][3] < ckpt[3]
  BY <1>2 DEF Fresh
<1> QED BY <1>3, <1>4, <1>5

\* What only a status, other than of a passed step, keeps.
LEMMA OneStatus ==
  ASSUME Assumptions, StepTypeInv, Passing, idx \in Step, NEW s,
         \A k \in Step : k >= idx => st[k] \notin Reached, Behind(idx),
         s \in StepStatus \ {"passed"},
         st' = [st EXCEPT ![idx] = s], idx' = idx, owed' = owed
  PROVE  Passing' /\ Behind(idx)'
<1>1. /\ st \in [Step -> StepStatus] /\ st'[idx] = s
      /\ \A k \in Step : k # idx => st'[k] = st[k]
  BY DEF StepTypeInv, TypeOK
<1>2. \A k \in Step : k <= idx /\ Behind(k) => Behind(k)'
  BY <1>1 DEF Behind, Step
<1>3. \A k \in Step : st'[k] \in Reached => Behind(k)'
  <2> SUFFICES ASSUME NEW k \in Step, st'[k] \in Reached PROVE Behind(k)'
    OBVIOUS
  <2>1. CASE k = idx
    BY <1>2, <2>1 DEF Step
  <2>2. CASE k # idx
    <3>1. st[k] \in Reached
      BY <1>1, <2>2
    <3>2. k < idx /\ Behind(k)
      BY <3>1 DEF Passing, Step
    <3> QED BY <1>2, <3>2 DEF Step
  <2> QED BY <2>1, <2>2
<1>4. \A k \in Step : st'[k] = "passed" => k \notin owed'
  BY <1>1 DEF Passing
<1>5. Behind(idx)'
  BY <1>2 DEF Step
<1> QED BY <1>3, <1>4, <1>5 DEF Passing, Reached

\* Task checkpoints are never forgotten.
LEMMA NoTaskStays == ASSUME [Next]_vars, taskCkpt' = NoTask PROVE taskCkpt = NoTask
<1>1. CASE SaveCheckpoint
  BY <1>1 DEF SaveCheckpoint, NoTask
<1>2. CASE ~SaveCheckpoint
  BY <1>2 DEF Next, Loop, SkipDuplicate, RefuseDuplicate, BeginAttempt,
     StepPasses, FinishAttempt, StepFails, StepAsks, Recover, GiveUp, Complete,
     Fail, MonitorFails, Restart, Resume, Answer, Retry, StartFrom, vars, store
<1> QED BY <1>1, <1>2

LEMMA OrderStep ==
  ASSUME Assumptions, InTurn, StepTypeInv, StepTypeInv', OrderInv, [Next]_vars
  PROVE  OrderInv'
<1>1. taskCkpt' = NoTask => taskCkpt = NoTask
  BY NoTaskStays
<1> SUFFICES ASSUME taskCkpt' = NoTask
             PROVE  Fresh' /\ Passing' /\ AtTheEnd' /\ DoneIsExecuted'
  BY DEF OrderInv
<1>0. taskCkpt = NoTask /\ Fresh /\ Passing /\ AtTheEnd /\ DoneIsExecuted
  BY <1>1 DEF OrderInv
\* What the steps that change little keep.
<1>2. ASSUME UNCHANGED <<attempts, ckpt>>, pc' \notin {"acting", "passed", "saved"}
      PROVE  Fresh'
  BY <1>0, <1>2 DEF Fresh
<1>3. ASSUME UNCHANGED <<st, owed>> PROVE Passing'
  BY <1>0, <1>3 DEF Passing, Behind
<1>4. ASSUME UNCHANGED <<st, idx>>, pc' \in {"refused", "down", pc} PROVE AtTheEnd'
  BY <1>0, <1>4 DEF AtTheEnd, Behind
<1>5. ASSUME status' # "done" PROVE DoneIsExecuted'
  BY <1>5 DEF DoneIsExecuted
<1>6. ASSUME UNCHANGED <<status, owed, st>> PROVE DoneIsExecuted'
  BY <1>0, <1>6 DEF DoneIsExecuted
<1>7. pc # "down" => status = "active"
  BY DEF StepTypeInv, TypeOK
<1>8. ASSUME NEW x, NEW s, s # "completed", Write(x, s), ckpt' = ckpt
      PROVE  \A y \in DOMAIN attempts' :
               attempts'[y].status = "completed" => y[3][3] < ckpt'[3]
  <2>1. /\ DOMAIN attempts' = DOMAIN attempts \cup {x}
        /\ attempts'[x].status = s
        /\ \A y \in DOMAIN attempts : y # x => attempts'[y] = attempts[y]
    BY <1>8, WriteOne
  <2> QED BY <1>0, <1>8, <2>1 DEF Fresh
<1>10. CASE SkipDuplicate
  BY <1>0, <1>10, NoneIsSkipped
<1>11. CASE RefuseDuplicate
  <2>1. /\ UNCHANGED <<st, idx, owed, status, attempts, ckpt>>
        /\ pc' = "refused"
    BY <1>11 DEF RefuseDuplicate, store
  <2> QED BY <1>2, <1>3, <1>4, <1>6, <2>1
<1>12. CASE BeginAttempt
  <2>1. /\ pc = "loop" /\ idx \in Step /\ pc' = "acting"
        /\ st' = [st EXCEPT ![idx] = "running"]
        /\ Write(AttemptKey(idx), "running") /\ key' = AttemptKey(idx)
        /\ UNCHANGED <<idx, owed, status, ckpt>>
    BY <1>12 DEF BeginAttempt, StepTypeInv, TypeOK, Step
  <2>2. /\ \A k \in Step : k >= idx => st[k] \notin Reached
        /\ Behind(idx)
    BY <1>0, <2>1 DEF AtTheEnd
  <2>3. Passing' /\ Behind(idx)'
    BY <1>0, <2>1, <2>2, OneStatus DEF StepStatus
  <2>4. \A k \in Step : k >= idx => st'[k] \notin Reached
    BY <2>1, <2>2 DEF Reached, StepTypeInv, TypeOK
  <2>5. AtTheEnd'
    BY <2>1, <2>3, <2>4 DEF AtTheEnd, Reached
  <2>6. key'[3] = ckpt /\ ckpt[3] \in 0..MaxNumber
    BY <1>0, <2>1, KeyIsOfLast, CkptTyped
  <2>7. key'[3][3] <= ckpt'[3]
    BY <2>1, <2>6
  <2>8. Fresh'
    BY <1>8, <2>1, <2>7 DEF Fresh
  <2>9. DoneIsExecuted'
    BY <1>5, <1>7, <2>1
  <2> QED BY <2>3, <2>5, <2>8, <2>9
<1>13. CASE StepPasses
  <2>1. /\ pc = "acting" /\ idx \in Step /\ pc' = "passed"
        /\ st' = [st EXCEPT ![idx] = "passed"] /\ owed' = owed \ {idx}
        /\ UNCHANGED <<idx, status, ckpt, key, attempts>>
    BY <1>13 DEF StepPasses, StepTypeInv
  <2>2. /\ \A k \in Step : k >= idx => st[k] \notin Reached
        /\ Behind(idx)
    BY <1>0, <2>1 DEF AtTheEnd
  <2>3. st'[idx] = "passed" /\ \A k \in Step : k # idx => st'[k] = st[k]
    BY <2>1 DEF StepTypeInv, TypeOK
  <2>4. \A k \in Step : k <= idx /\ Behind(k) => Behind(k)'
    BY <2>1, <2>3 DEF Behind, Step
  <2>5. \A k \in Step : st'[k] \in Reached => Behind(k)'
    <3> SUFFICES ASSUME NEW k \in Step, st'[k] \in Reached PROVE Behind(k)'
      OBVIOUS
    <3>1. CASE k = idx
      BY <2>1, <2>2, <2>4, <3>1 DEF Step
    <3>2. CASE k # idx
      <4>1. st[k] \in Reached
        BY <2>3, <3>2
      <4>2. k < idx /\ Behind(k)
        BY <1>0, <2>1, <2>2, <4>1 DEF Passing, Step
      <4> QED BY <2>1, <2>4, <4>2 DEF Step
    <3> QED BY <3>1, <3>2
  <2>6. Passing'
    BY <1>0, <2>1, <2>3, <2>5 DEF Passing, Reached
  <2>7. AtTheEnd'
    BY <2>1, <2>2, <2>3 DEF AtTheEnd, Reached, Step
  <2>8. Fresh'
    BY <1>0, <2>1 DEF Fresh
  <2>9. DoneIsExecuted'
    BY <1>5, <1>7, <2>1
  <2> QED BY <2>6, <2>7, <2>8, <2>9
<1>14. CASE SaveCheckpoint
  <2>1. /\ pc = "passed" /\ pc' = "saved" /\ ckpt' = NextCkpt(idx)
        /\ UNCHANGED <<st, idx, owed, status, attempts, key>>
    BY <1>14 DEF SaveCheckpoint
  <2>2. ckpt[3] \in 0..MaxNumber /\ MaxNumber <= MaxCheckpoints
        /\ MaxNumber \in Nat /\ MaxCheckpoints \in Nat
    BY CkptTyped DEF Assumptions, InTurn
  <2>3. ckpt'[3] = ckpt[3] + 1
    BY <2>1, <2>2 DEF NextCkpt
  <2>4. key[3][3] \in 0..MaxNumber
    BY <2>1 DEF StepTypeInv, Key, CkptId
  <2>5. \A x \in DOMAIN attempts : x[3][3] \in 0..MaxNumber
    BY DEF StepTypeInv, TypeOK, Key, CkptId
  <2>6. Fresh'
    BY <1>0, <2>1, <2>2, <2>3, <2>4, <2>5 DEF Fresh
  <2>7. AtTheEnd'
    BY <1>0, <2>1 DEF AtTheEnd
  <2> QED BY <1>3, <1>6, <2>1, <2>6, <2>7
<1>15. CASE FinishAttempt
  <2>1. /\ pc = "saved" /\ pc' = "loop" /\ idx \in Step /\ idx' = idx + 1
        /\ Write(key, "completed")
        /\ UNCHANGED <<st, owed, status, ckpt>>
    BY <1>15 DEF FinishAttempt, StepTypeInv, store
  <2>2. /\ DOMAIN attempts' = DOMAIN attempts \cup {key}
        /\ \A y \in DOMAIN attempts : y # key => attempts'[y] = attempts[y]
    BY <2>1, WriteOne
  <2>3. Fresh'
    BY <1>0, <2>1, <2>2 DEF Fresh
  <2>4. st[idx] = "passed" /\ \A k \in Step : k > idx => st[k] \notin Reached
    BY <1>0, <2>1 DEF AtTheEnd
  <2>5. Behind(idx)
    BY <1>0, <2>1, <2>4 DEF Passing, Reached
  <2>6. Behind(idx)'
    BY <2>1, <2>4, <2>5 DEF Behind, Step
  <2>7. AtTheEnd'
    BY <2>1, <2>4, <2>6 DEF AtTheEnd, Reached, Step
  <2> QED BY <1>3, <1>6, <2>1, <2>3, <2>7
<1>16. CASE StepFails \/ StepAsks
  <2>1. PICK s \in {"failed", "waiting_input"} :
          /\ pc = "acting" /\ pc' \in {"failing", "down"} /\ idx \in Step
          /\ pc' = "failing" => s = "failed" /\ status' = status
          /\ st' = [st EXCEPT ![idx] = s]
          /\ Write(key, s) /\ status' # "done"
          /\ UNCHANGED <<idx, owed, ckpt, key>>
    BY <1>7, <1>16 DEF StepFails, StepAsks, StepTypeInv
  <2>2. /\ \A k \in Step : k >= idx => st[k] \notin Reached
        /\ Behind(idx)
    BY <1>0, <2>1 DEF AtTheEnd
  <2>3. Passing' /\ Behind(idx)'
    BY <1>0, <2>1, <2>2, OneStatus DEF StepStatus
  <2>4. pc' = "failing" =>
          st'[idx] = "failed" /\ \A k \in Step : k >= idx => st'[k] \notin Reached
    BY <2>1, <2>2 DEF Reached, StepTypeInv, TypeOK
  <2>5. AtTheEnd'
    BY <2>1, <2>3, <2>4 DEF AtTheEnd, Reached
  <2>6. Fresh'
    BY <1>8, <2>1 DEF Fresh
  <2> QED BY <1>5, <2>1, <2>3, <2>5, <2>6
<1>17. CASE Recover
  <2>1. PICK i \in RetryTarget[idx] :
          st' = ResetFrom(i) /\ owed' = owed \cup From(i) /\ idx' = i
    BY <1>17 DEF Recover
  <2>2. /\ pc = "failing" /\ pc' = "loop" /\ idx \in Step /\ i \in Step
        /\ UNCHANGED <<status, ckpt, attempts>>
    BY <1>17, <2>1 DEF Recover, StepTypeInv, Assumptions, Step
  <2>3. Behind(i)
    <3>1. Behind(idx) /\ st[idx] = "failed"
      BY <1>0, <2>2 DEF AtTheEnd
    <3> QED BY <2>2, <3>1 DEF Behind, Step
  <2>4. Passing' /\ AtTheEnd'
    BY <1>0, <2>1, <2>2, <2>3, StartsAgain
  <2> QED BY <1>2, <1>5, <1>7, <2>2, <2>4
<1>18. CASE GiveUp \/ MonitorFails
  <2>1. /\ UNCHANGED <<st, idx, owed, attempts, ckpt>>
        /\ pc' = "down" /\ status' = "failed"
    BY <1>18 DEF GiveUp, Fail, MonitorFails
  <2> QED BY <1>2, <1>3, <1>4, <1>5, <2>1
<1>19. CASE Complete
  <2>1. /\ UNCHANGED <<st, idx, owed, attempts, ckpt>>
        /\ pc' = "down" /\ pc = "loop" /\ idx > NumSteps
    BY <1>19 DEF Complete, Fail
  <2>2. DoneIsExecuted'
    <3>1. CASE status' # "done"
      BY <1>5, <3>1
    <3>2. CASE status' = "done"
      <4>1. \A k \in Step : st[k] \notin {"failed", "waiting_input"}
        BY <1>19, <3>2 DEF Complete, Fail
      <4>2. Behind(idx)
        BY <1>0, <2>1 DEF AtTheEnd
      <4>3. \A k \in Step : st[k] = "passed"
        <5>1. \A k \in Step : k < idx
          BY <2>1 DEF Step, StepTypeInv, TypeOK, Assumptions
        <5> QED BY <4>1, <4>2, <5>1 DEF Behind
      <4>4. owed \subseteq Step /\ \A k \in Step : k \notin owed
        BY <1>0, <4>3 DEF Passing, StepTypeInv, TypeOK
      <4> QED BY <2>1, <4>3, <4>4 DEF DoneIsExecuted
    <3> QED BY <3>1, <3>2
  <2> QED BY <1>2, <1>3, <1>4, <2>1, <2>2
<1>20. CASE Restart
  <2>1. /\ UNCHANGED <<idx, owed, attempts, ckpt>>
        /\ pc' = "down" /\ status' = "failed"
        /\ \A k \in Step : st'[k] = IF st[k] = "running" THEN "failed" ELSE st[k]
    BY <1>20 DEF Restart
  <2>2. Passing'
    BY <1>0, <2>1 DEF Passing, Reached, Behind
  <2>3. AtTheEnd'
    BY <2>1 DEF AtTheEnd
  <2> QED BY <1>2, <1>5, <2>1, <2>2, <2>3
<1>21. ASSUME NEW i \in Step, NEW again, StartFrom(i, again), Behind(i),
              owed' \subseteq owed \cup From(i)
       PROVE  Fresh' /\ Passing' /\ AtTheEnd' /\ DoneIsExecuted'
  <2>1. /\ st' = ResetFrom(i) /\ idx' = i /\ pc' = "loop" /\ status' = "active"
        /\ UNCHANGED <<attempts, ckpt>>
    BY <1>21 DEF StartFrom
  <2>2. Passing' /\ AtTheEnd'
    BY <1>0, <1>21, <2>1, StartsAgain
  <2> QED BY <1>2, <1>5, <2>1, <2>2
<1>22. CASE Resume
  <2>1. StartFrom(ResumeIndex, retries) /\ owed' = owed
    BY <1>22 DEF Resume
  <2>2. ResumeIndex \in Step /\ Behind(ResumeIndex)
    BY ResumeStep DEF Behind
  <2> QED BY <1>21, <2>1, <2>2
<1>23. CASE Answer
  <2> DEFINE waiting == {k \in Step : st[k] = "waiting_input"}
  <2>1. StartFrom(First(waiting), retries) /\ waiting # {} /\ owed' = owed
    BY <1>23 DEF Answer
  <2>2. First(waiting) \in waiting
    BY <2>1, FirstIsLeast
  <2>3. Behind(First(waiting))
    BY <1>0, <2>2 DEF Passing, Reached
  <2> QED BY <1>21, <2>1, <2>2, <2>3
<1>24. CASE Retry
  <2>1. PICK i \in Step :
          /\ RetryInOrder => \A k \in Step \ From(i) : st[k] = "passed"
          /\ StartFrom(i, [k \in Step |-> IF k >= i THEN 0 ELSE retries[k]])
          /\ owed' = owed \cup From(i)
    BY <1>24 DEF Retry
  <2>2. Behind(i)
    BY <2>1 DEF InTurn, Behind, From, Step
  <2> QED BY <1>21, <2>1, <2>2
<1>25. CASE UNCHANGED vars
  BY <1>0, <1>25 DEF vars, store, loop, Fresh, Passing, AtTheEnd, Behind, DoneIsExecuted
<1> QED BY <1>10, <1>11, <1>12, <1>13, <1>14, <1>15, <1>16, <1>17, <1>18, <1>19,
           <1>20, <1>22, <1>23, <1>24, <1>25 DEF Next, Loop

LEMMA OrderHolds == ASSUME Assumptions, InTurn PROVE Spec => [](StepTypeInv /\ OrderInv)
<1>1. Init => StepTypeInv /\ OrderInv
  BY TypeInit, OrderInit
<1>2. StepTypeInv /\ OrderInv /\ [Next]_vars => StepTypeInv' /\ OrderInv'
  BY TypeStep, OrderStep
<1> QED BY <1>1, <1>2, PTL DEF Spec

\* A run without task checkpoints is done only when every step that a failure
\* or a user sent it back to was executed again and passed, wherever failures go.
THEOREM DoneWithoutTasksIsExecuted ==
  ASSUME Assumptions, InTurn PROVE Spec => []DoneIsExecutedWithoutTasks
<1>1. OrderInv => DoneIsExecutedWithoutTasks
  BY DEF OrderInv, DoneIsExecutedWithoutTasks
<1> QED BY <1>1, OrderHolds, PTL

\* Failures go back to a step, never forward.
Backward == \A k \in Step : RetryTarget[k] \subseteq 1..k

\* No step is jumped over, and all but the last are owed until they pass.
NoneIsJumped ==
  /\ \A k \in Step : st[k] \in Reached =>
       \A j \in Step : j < k => st[j] = "passed"
  /\ pc \in {"loop", "acting", "failing"} =>
       \A k \in Step : k < idx => st[k] = "passed"
AllAreOwed == \A k \in Step : k < NumSteps /\ st[k] # "passed" => k \in owed

OwedInv == taskCkpt = NoTask => NoneIsJumped /\ AllAreOwed

LEMMA OwedInit == ASSUME Assumptions, Init PROVE OwedInv
<1>1. (\A k \in Step : st[k] = "pending") /\ pc = "loop" /\ idx = 1 /\ owed = Step
  BY DEF Init
<1> QED BY <1>1 DEF OwedInv, NoneIsJumped, AllAreOwed, Reached, Step

\* Where the loop starts again, every step from there on must be owed.
LEMMA StartsOwed ==
  ASSUME Assumptions, StepTypeInv, NoneIsJumped, AllAreOwed, NEW i \in Step,
         \A k \in Step : k < i => st[k] = "passed",
         st' = ResetFrom(i), idx' = i, owed \subseteq owed',
         \A k \in Step : k >= i /\ k < NumSteps => k \in owed'
  PROVE  NoneIsJumped' /\ AllAreOwed'
<1>1. \A k \in Step : st'[k] = (IF k >= i THEN "pending" ELSE st[k])
  BY DEF ResetFrom
<1>2. \A k \in Step : k < i => st'[k] = "passed"
  BY <1>1 DEF Step
<1>3. \A k \in Step : st'[k] \in Reached => k < i
  BY <1>1 DEF Reached, Step
<1>4. NoneIsJumped'
  BY <1>2, <1>3 DEF NoneIsJumped, Reached, Step
<1>5. AllAreOwed'
  BY <1>2 DEF AllAreOwed, Step
<1> QED BY <1>4, <1>5

LEMMA OwedStep ==
  ASSUME Assumptions, InTurn, Backward, StepTypeInv, StepTypeInv', OrderInv, OrderInv',
         OwedInv, [Next]_vars, taskCkpt = NoTask
  PROVE  NoneIsJumped' /\ AllAreOwed'
<1>1. NoneIsJumped /\ AllAreOwed /\ AtTheEnd /\ Fresh
  BY DEF OwedInv, OrderInv
<1>2. ASSUME UNCHANGED <<st, idx, owed>>, pc' \in {"refused", "down", "saved"}
      PROVE  NoneIsJumped' /\ AllAreOwed'
  BY <1>1, <1>2 DEF NoneIsJumped, AllAreOwed
<1>3. ASSUME NEW s \in StepStatus \ {"passed"}, idx \in Step,
             pc \in {"loop", "acting"}, st' = [st EXCEPT ![idx] = s],
             idx' = idx, owed' = owed
      PROVE  NoneIsJumped' /\ AllAreOwed'
  <2>1. \A k \in Step : k < idx => st[k] = "passed"
    BY <1>1, <1>3 DEF NoneIsJumped
  <2>2. \A k \in Step : k >= idx => st[k] \notin Reached
    BY <1>1, <1>3 DEF AtTheEnd
  <2>3. st'[idx] = s /\ \A k \in Step : k # idx => st'[k] = st[k]
    BY <1>3 DEF StepTypeInv, TypeOK
  <2>4. \A k \in Step : k < idx => st'[k] = "passed"
    BY <1>3, <2>1, <2>3 DEF Step
  <2>5. \A k \in Step : st'[k] \in Reached => k <= idx
    BY <1>3, <2>2, <2>3 DEF Step
  <2>6. NoneIsJumped'
    BY <1>3, <2>4, <2>5 DEF NoneIsJumped, Reached, Step
  <2>7. st[idx] # "passed"
    BY <1>3, <2>2 DEF Reached, Step
  <2>8. AllAreOwed'
    BY <1>1, <1>3, <2>3, <2>7 DEF AllAreOwed
  <2> QED BY <2>6, <2>8
<1>10. CASE SkipDuplicate
  BY <1>1, <1>10, NoneIsSkipped
<1>11. CASE RefuseDuplicate \/ GiveUp \/ Complete \/ MonitorFails
  <2>1. UNCHANGED <<st, idx, owed>> /\ pc' \in {"refused", "down"}
    BY <1>11 DEF RefuseDuplicate, GiveUp, Complete, MonitorFails, Fail, store
  <2> QED BY <1>2, <2>1
<1>12. CASE BeginAttempt \/ StepFails \/ StepAsks
  <2>1. PICK s \in {"running", "failed", "waiting_input"} :
          /\ st' = [st EXCEPT ![idx] = s] /\ idx \in Step
          /\ pc \in {"loop", "acting"} /\ UNCHANGED <<idx, owed>>
    BY <1>12 DEF BeginAttempt, StepFails, StepAsks, StepTypeInv, TypeOK, Step
  <2> QED BY <1>3, <2>1 DEF StepStatus
<1>13. CASE StepPasses
  <2>1. /\ pc = "acting" /\ idx \in Step /\ pc' = "passed"
        /\ st' = [st EXCEPT ![idx] = "passed"] /\ owed' = owed \ {idx}
        /\ idx' = idx
    BY <1>13 DEF StepPasses, StepTypeInv
  <2>2. \A k \in Step : k < idx => st[k] = "passed"
    BY <1>1, <2>1 DEF NoneIsJumped
  <2>3. \A k \in Step : k >= idx => st[k] \notin Reached
    BY <1>1, <2>1 DEF AtTheEnd
  <2>4. st'[idx] = "passed" /\ \A k \in Step : k # idx => st'[k] = st[k]
    BY <2>1 DEF StepTypeInv, TypeOK
  <2>5. \A k \in Step : st'[k] \in Reached => k <= idx
    BY <2>1, <2>3, <2>4 DEF Step
  <2>6. NoneIsJumped'
    BY <2>1, <2>2, <2>4, <2>5 DEF NoneIsJumped, Reached, Step
  <2>7. AllAreOwed'
    BY <1>1, <2>1, <2>4 DEF AllAreOwed
  <2> QED BY <2>6, <2>7
<1>14. CASE SaveCheckpoint
  <2>1. UNCHANGED <<st, idx, owed>> /\ pc' = "saved"
    BY <1>14 DEF SaveCheckpoint
  <2> QED BY <1>2, <2>1
<1>15. CASE FinishAttempt
  <2>1. /\ pc = "saved" /\ idx \in Step /\ idx' = idx + 1
        /\ UNCHANGED <<st, owed>>
    BY <1>15 DEF FinishAttempt, StepTypeInv, store
  <2>2. st[idx] = "passed"
    BY <1>1, <2>1 DEF AtTheEnd
  <2>3. \A k \in Step : k < idx => st[k] = "passed"
    BY <1>1, <2>1, <2>2 DEF NoneIsJumped, Reached
  <2>4. \A k \in Step : k < idx' => st[k] = "passed"
    BY <2>1, <2>2, <2>3 DEF Step
  <2> QED BY <1>1, <2>1, <2>4 DEF NoneIsJumped, AllAreOwed
<1>17. CASE Recover
  <2>1. PICK i \in RetryTarget[idx] :
          st' = ResetFrom(i) /\ owed' = owed \cup From(i) /\ idx' = i
    BY <1>17 DEF Recover
  <2>2. pc = "failing" /\ idx \in Step /\ i \in Step /\ i <= idx
    BY <1>17, <2>1 DEF Recover, StepTypeInv, Assumptions, Step, Backward
  <2>3. \A k \in Step : k < i => st[k] = "passed"
    BY <1>1, <2>2 DEF NoneIsJumped, Step
  <2> QED BY <1>1, <2>1, <2>2, <2>3, StartsOwed DEF From
<1>20. CASE Restart
  <2>1. /\ UNCHANGED <<idx, owed>> /\ pc' = "down"
        /\ \A k \in Step : st'[k] = IF st[k] = "running" THEN "failed" ELSE st[k]
    BY <1>20 DEF Restart
  <2> QED BY <1>1, <2>1 DEF NoneIsJumped, AllAreOwed, Reached
<1>22. CASE Resume
  <2>1. st' = ResetFrom(ResumeIndex) /\ idx' = ResumeIndex /\ owed' = owed
    BY <1>22 DEF Resume, StartFrom
  <2>2. /\ ResumeIndex \in Step
        /\ \A k \in Step : k < ResumeIndex => st[k] = "passed"
        /\ st[ResumeIndex] # "passed" \/ ResumeIndex = NumSteps
    BY ResumeStep
  <2>3. \A k \in Step : k >= ResumeIndex /\ k < NumSteps => k \in owed
    <3> SUFFICES ASSUME NEW k \in Step, k >= ResumeIndex, k < NumSteps
                 PROVE  k \in owed
      OBVIOUS
    <3>1. st[ResumeIndex] # "passed" /\ ResumeIndex <= k
      BY <2>2 DEF Step, Assumptions
    <3>2. st[k] # "passed"
      BY <1>1, <2>2, <3>1 DEF NoneIsJumped, Reached, Step
    <3> QED BY <1>1, <3>2 DEF AllAreOwed
  <2> QED BY <1>1, <2>1, <2>2, <2>3, StartsOwed
<1>23. CASE Answer
  <2> DEFINE waiting == {k \in Step : st[k] = "waiting_input"}
             i == First(waiting)
  <2>1. st' = ResetFrom(i) /\ idx' = i /\ owed' = owed /\ waiting # {}
    BY <1>23 DEF Answer, StartFrom
  <2>2. i \in waiting
    BY <2>1, FirstIsLeast
  <2>3. \A k \in Step : k < i => st[k] = "passed"
    BY <1>1, <2>2 DEF NoneIsJumped, Reached
  <2>4. \A k \in Step : k >= i => st[k] # "passed"
    BY <1>1, <2>2 DEF NoneIsJumped, Reached, Step
  <2>5. \A k \in Step : k >= i /\ k < NumSteps => k \in owed
    BY <1>1, <2>4 DEF AllAreOwed
  <2> HIDE DEF i
  <2>6. i \in Step
    BY <2>2
  <2> QED BY <1>1, <2>1, <2>3, <2>5, <2>6, StartsOwed
<1>24. CASE Retry
  <2>1. PICK i \in Step :
          /\ RetryInOrder => \A k \in Step \ From(i) : st[k] = "passed"
          /\ st' = ResetFrom(i) /\ idx' = i /\ owed' = owed \cup From(i)
    BY <1>24 DEF Retry, StartFrom
  <2>2. \A k \in Step : k < i => st[k] = "passed"
    BY <2>1 DEF InTurn, From, Step
  <2> QED BY <1>1, <2>1, <2>2, StartsOwed DEF From
<1>25. CASE UNCHANGED vars
  BY <1>1, <1>25 DEF vars, store, loop, NoneIsJumped, AllAreOwed
<1> QED BY <1>10, <1>11, <1>12, <1>13, <1>14, <1>15, <1>17, <1>20, <1>22, <1>23,
           <1>24, <1>25 DEF Next, Loop

\* Only the beginning of an attempt executes a step.
LEMMA RepeatStep ==
  ASSUME Assumptions, StepTypeInv, OrderInv, OwedInv, [Next]_vars,
         pc = "loop", pc' = "acting", taskCkpt = NoTask
  PROVE  idx \in owed \cup {NumSteps}
<1>1. BeginAttempt
  BY DEF Next, Loop, SkipDuplicate, RefuseDuplicate, StepPasses, SaveCheckpoint,
     FinishAttempt, StepFails, StepAsks, Recover, GiveUp, Complete, Fail,
     MonitorFails, Restart, Resume, Answer, Retry, StartFrom, vars, loop
<1>2. idx \in Step
  BY <1>1 DEF BeginAttempt, StepTypeInv, TypeOK, Step
<1>3. st[idx] # "passed"
  BY <1>2 DEF OrderInv, AtTheEnd, Reached, Step
<1>4. idx < NumSteps => idx \in owed
  BY <1>2, <1>3 DEF OwedInv, AllAreOwed
<1> QED BY <1>2, <1>4 DEF Step, Assumptions

\* When failures go back, a step is executed only while it is owed: but for the
\* last, which a resume of a run whose steps have all passed starts again.
THEOREM OnlyTheLastRepeats ==
  ASSUME Assumptions, InTurn, Backward PROVE Spec => OnlyTheLastIsRepeated
<1>1. Init => OwedInv
  BY OwedInit
<1>2. taskCkpt' = NoTask /\ [Next]_vars => taskCkpt = NoTask
  BY NoTaskStays
<1>3. /\ StepTypeInv /\ OrderInv /\ StepTypeInv' /\ OrderInv' /\ OwedInv /\ [Next]_vars
      => OwedInv'
  BY <1>2, OwedStep DEF OwedInv
<1>4. StepTypeInv /\ OrderInv /\ OwedInv /\ [Next]_vars =>
        [pc = "loop" /\ pc' = "acting" /\ taskCkpt = NoTask =>
           idx \in owed \cup {NumSteps}]_vars
  BY RepeatStep
<1> QED BY <1>1, <1>3, <1>4, OrderHolds, PTL DEF Spec, OnlyTheLastIsRepeated

\* Under these assumptions a step is executed, and a run given up for a step's
\* budget, only when that is owed.
THEOREM WhatIsOwed ==
  ASSUME Assumptions, InTurn, Backward PROVE Spec => OnlyWhatIsOwed
BY BudgetGranted, OnlyTheLastRepeats DEF OnlyWhatIsOwed

-----------------------------------------------------------------------------
(* The retry guard.                                                        *)

\* Failures the run was granted beyond its budgets: one for each retry of the
\* user, and one for which it has stopped.
Granted == IF mode = "stopped" THEN manual + 1 ELSE manual

\* The counters have counted every failure but those the run stopped for.
CountersFollow ==
  /\ Len(failed) <= Len(counted) + Granted
  /\ \A s \in FlowStep :
       /\ OfStep(failed, s) <= OfStep(counted, s) + Granted
       /\ \A t \in TaskName : OfTask(failed, s, t) <= OfTask(counted, s, t) + Granted

\* BudgetsKept, also for a run that has stopped
WithinBudgets ==
  /\ Budget.total # 0 => Len(failed) < Budget.total + Granted
  /\ \A s \in FlowStep :
       /\ Budget.step # 0 => OfStep(failed, s) < Budget.step + Granted
       /\ \A t \in TaskName :
            Budget.task # 0 => OfTask(failed, s, t) < Budget.task + Granted

\* How many failures have not been counted
Uncounted == Len(failed) - Len(counted)

\* Is failure i one since its task began anew?
IsRecent(i) == i > since[<<failed[i].step, failed[i].m.task>>]

\* Such a failure was counted, as all after it were, and the history has it.
RecentAreKnown ==
  mode = "runs" =>
    \A i \in DOMAIN failed :
      IsRecent(i) =>
        /\ i - Uncounted \in history
        /\ \A j \in i..Len(failed) :
             j - Uncounted \in DOMAIN counted /\ counted[j - Uncounted] = failed[j]

-----------------------------------------------------------------------------
LEMMA RetryConstants ==
  ASSUME RetryAssumptions
  PROVE  /\ FlowSteps \in Nat /\ FlowSteps >= 1 /\ FlowStep = 1..FlowSteps
         /\ StreakLimit \in Nat /\ RepeatLimit \in Nat /\ HistoryCap \in Nat
         /\ BestProject \in Nat /\ MaxFailures \in Nat /\ MaxManual \in Nat
         /\ HistoryCap >= 1 /\ StreakLimit >= 1 /\ RepeatLimit >= 1
         /\ Budget.total \in Nat /\ Budget.step \in Nat /\ Budget.task \in Nat
<1>1. /\ FlowSteps \in Nat \ {0}
      /\ {StreakLimit, RepeatLimit, NoChangeLimit, HistoryCap, EscalateEvery} \subseteq Nat \ {0}
      /\ Budget \in [total : Nat, step : Nat, task : Nat, class : Nat, same : Nat, fresh : Nat]
      /\ {BestProject, MaxFailures, MaxManual} \subseteq Nat
  BY Zenon DEF RetryAssumptions
<1>2. /\ StreakLimit \in Nat \ {0} /\ RepeatLimit \in Nat \ {0} /\ HistoryCap \in Nat \ {0}
      /\ BestProject \in Nat /\ MaxFailures \in Nat /\ MaxManual \in Nat
  BY <1>1, Zenon
<1>3. Budget.total \in Nat /\ Budget.step \in Nat /\ Budget.task \in Nat
  BY <1>1
<1>5. FlowSteps >= 1 /\ HistoryCap >= 1 /\ StreakLimit >= 1 /\ RepeatLimit >= 1
  <2>1. FlowSteps \in Nat \ {0}
    BY <1>1
  <2> QED BY <2>1, <1>2
<1> QED BY <1>1, <1>2, <1>3, <1>5, Zenon DEF FlowStep

\* Where a failure may send the run is a step, or none.
LEMMA TargetsAreSteps ==
  ASSUME RetryAssumptions, NEW s \in FlowStep, NEW m, NEW n
  PROVE  Targets(s, m, n) \subseteq FlowStep \cup {0}
<1>1. /\ Configured[s] \in FlowStep \cup {0} /\ EscalateTo[s] \in FlowStep \cup {0}
      /\ GenerateTests \in FlowStep \cup {0} /\ Classified \subseteq FlowStep
  <2>1. /\ FlowSteps \in Nat /\ GenerateTests \in 0..FlowSteps /\ Classified \subseteq FlowStep
        /\ Configured[s] \in 0..FlowSteps /\ EscalateTo[s] \in 0..FlowSteps
    BY RetryConstants, Zenon DEF RetryAssumptions
  <2> QED BY <2>1 DEF FlowStep
<1> DEFINE other == IF /\ "replan_required" \in m.words /\ n % EscalateEvery = 0
                       /\ 0 \notin {Configured[s], EscalateTo[s]}
                    THEN EscalateTo[s] ELSE Configured[s]
<1>2. other \in FlowStep \cup {0}
  BY <1>1
<1> QED BY <1>1, <1>2, Zenon DEF Targets

\* A counter goes up with the failures it is about.
LEMMA OneMore ==
  ASSUME NEW all \in Seq(Failure), NEW e \in Failure
  PROVE  /\ \A s : /\ OfStep(all, s) \in Nat
                   /\ OfStep(Append(all, e), s) =
                        IF e.step = s THEN OfStep(all, s) + 1 ELSE OfStep(all, s)
         /\ \A s, t : /\ OfTask(all, s, t) \in Nat
                      /\ OfTask(Append(all, e), s, t) =
                           IF e.step = s /\ e.m.task = t
                           THEN OfTask(all, s, t) + 1 ELSE OfTask(all, s, t)
<1> DEFINE n == Len(all) + 1
           more == Append(all, e)
<1>1. /\ Len(all) \in Nat /\ DOMAIN all = 1..Len(all) /\ DOMAIN more = 1..n
      /\ \A i \in 1..Len(all) : more[i] = all[i]
      /\ more[n] = e /\ n \notin 1..Len(all) /\ 1..n = 1..Len(all) \cup {n}
  BY AppendProperties
<1>2. IsFiniteSet(1..Len(all))
  BY <1>1, FS_Interval
<1>3. ASSUME NEW s
      PROVE  /\ OfStep(all, s) \in Nat
             /\ OfStep(more, s) = IF e.step = s THEN OfStep(all, s) + 1 ELSE OfStep(all, s)
  <2> DEFINE S == {i \in DOMAIN all : all[i].step = s}
  <2>1. IsFiniteSet(S) /\ Cardinality(S) \in Nat
    BY <1>1, <1>2, FS_Subset, FS_CardinalityType
  <2>2. {i \in DOMAIN more : more[i].step = s} = IF e.step = s THEN S \cup {n} ELSE S
    BY <1>1
  <2>3. Cardinality(S \cup {n}) = Cardinality(S) + 1
    BY <1>1, <2>1, FS_AddElement
  <2> QED BY <2>1, <2>2, <2>3 DEF OfStep
<1>4. ASSUME NEW s, NEW t
      PROVE  /\ OfTask(all, s, t) \in Nat
             /\ OfTask(more, s, t) = IF e.step = s /\ e.m.task = t
                                     THEN OfTask(all, s, t) + 1 ELSE OfTask(all, s, t)
  <2> DEFINE S == {i \in DOMAIN all : all[i].step = s /\ all[i].m.task = t}
  <2>1. IsFiniteSet(S) /\ Cardinality(S) \in Nat
    BY <1>1, <1>2, FS_Subset, FS_CardinalityType
  <2>2. {i \in DOMAIN more : more[i].step = s /\ more[i].m.task = t} =
          IF e.step = s /\ e.m.task = t THEN S \cup {n} ELSE S
    BY <1>1
  <2>3. Cardinality(S \cup {n}) = Cardinality(S) + 1
    BY <1>1, <2>1, FS_AddElement
  <2> QED BY <2>1, <2>2, <2>3 DEF OfTask
<1> QED BY <1>3, <1>4

\* The history keeps the last failures, HistoryCap of them at the most, and all
\* while there are no more.
LEMMA RememberedIs ==
  ASSUME RetryAssumptions, NEW n \in Nat, NEW h \in SUBSET (1..n)
  PROVE  /\ Remembered(h, n + 1) \in SUBSET (1..n + 1)
         /\ Cardinality(Remembered(h, n + 1)) <= HistoryCap
         /\ n < HistoryCap => Remembered(h, n + 1) = h \cup {n + 1}
<1> DEFINE grown == h \cup {n + 1}
           After(i) == {j \in grown : j > i}
           kept == {i \in grown : Cardinality(After(i)) < HistoryCap}
<1>1. grown \in SUBSET (1..n + 1) /\ HistoryCap \in Nat /\ HistoryCap >= 1
  <2>1. \A i \in grown : i \in 1..n + 1
    OBVIOUS
  <2> QED BY <2>1, RetryConstants
<1>2. IsFiniteSet(1..n + 1) /\ Cardinality(1..n + 1) = n + 1
  BY FS_Interval
<1>3. IsFiniteSet(grown) /\ IsFiniteSet(kept) /\ kept \in SUBSET (1..n + 1)
  BY <1>1, <1>2, FS_Subset
<1>4. Cardinality(kept) <= HistoryCap
  <2>1. CASE kept = {}
    <3>1. Cardinality(kept) = 0
      BY <2>1, FS_EmptySet
    <3> QED BY <1>1, <3>1
  <2>2. CASE kept # {}
    <3>1. PICK i \in kept : \A j \in kept : ~(j < i)
      <4>1. kept \subseteq Nat
        BY <1>3
      <4> HIDE DEF kept
      <4>2. \E i \in kept : \A j \in kept : ~(<<j, i>> \in OpToRel(<, Nat))
        BY <2>2, <4>1, WFMin, NatLessThanWellFounded, Zenon
      <4>3. \A i, j \in kept : ~(<<j, i>> \in OpToRel(<, Nat)) => ~(j < i)
        BY <4>1, Zenon DEF OpToRel
      <4> QED BY <4>2, <4>3, Zenon
    <3>2. kept \ {i} \subseteq After(i)
      BY <1>3, <3>1
    <3>3. IsFiniteSet(After(i)) /\ Cardinality(After(i)) \in Nat
      BY <1>3, FS_Subset, FS_CardinalityType
    <3>4. Cardinality(kept \ {i}) <= Cardinality(After(i))
      BY <3>2, <3>3, FS_Subset
    <3>5. Cardinality(kept \ {i}) = Cardinality(kept) - 1 /\ Cardinality(kept) \in Nat
      BY <1>3, <3>1, FS_RemoveElement, FS_CardinalityType
    <3>6. Cardinality(After(i)) < HistoryCap
      BY <3>1
    <3> QED BY <1>1, <3>3, <3>4, <3>5, <3>6
  <2> QED BY <2>1, <2>2
<1>5. ASSUME n < HistoryCap PROVE kept = grown
  <2> SUFFICES ASSUME NEW i \in grown PROVE Cardinality(After(i)) < HistoryCap
    OBVIOUS
  <2>1. After(i) \in SUBSET (2..n + 1)
    <3>1. \A j \in After(i) : j \in 2..n + 1
      BY <1>1
    <3> QED BY <3>1
  <2>3. IsFiniteSet(2..n + 1) /\ Cardinality(2..n + 1) = n
    BY FS_Interval
  <2>2. Cardinality(After(i)) <= n /\ Cardinality(After(i)) \in Nat
    BY <2>1, <2>3, FS_Subset, FS_CardinalityType
  <2> QED BY <1>1, <1>5, <2>2
<1> QED BY <1>3, <1>4, <1>5 DEF Remembered

-----------------------------------------------------------------------------
(* What a failure does, and a step.                                        *)

\* The run stops before the guard is asked.
NotCounted ==
  /\ mode' = "stopped" /\ why' \in {"no target", "retries"}
  /\ UNCHANGED <<current, streaks, counted, history, since>>

\* Failure e is counted, and the guard stops the run.
StoppedFor(e) ==
  /\ mode' = "stopped" /\ why' \in {"budget", "loop"}
  /\ counted' = Append(counted, e) /\ history' = Remembered(history, Len(counted) + 1)
  /\ UNCHANGED <<current, since>>

\* It is counted, and the run goes on in its session or in a fresh one.
WentOn(e) ==
  /\ UNCHANGED <<mode, why>> /\ current' \in FlowStep
  /\ counted' = Append(counted, e) /\ ~Exhausted(counted', history, e)
  /\ LET h == Remembered(history, Len(counted) + 1) IN
     \/ history' = h /\ since' = since /\ ~Looping(counted', h, e)
     \/ history' = Cleared(counted', h, e.step, e.m.task) /\ since' = Anew(e.step, e.m.task)

Happens(e) ==
  /\ mode = "runs" /\ Len(failed) < MaxFailures
  /\ failed' = Append(failed, e) /\ snapshot' \in 0..BestProject
  /\ UNCHANGED <<late, manual>> /\ streaks' \in [FlowStep -> 0..StreakLimit]
  /\ NotCounted \/ StoppedFor(e) \/ WentOn(e)

LEMMA FailureHappens ==
  ASSUME RetryAssumptions, RetryTypeOK, NEW m \in Message, RecoverFailedStep(m)
  PROVE  \E e \in Failure : Happens(e)
<1> DEFINE s == current
           e == [step |-> s, m |-> m, project |-> snapshot']
           n == streaks[s] + 1
           all == Append(counted, e)
           h == Remembered(history, Len(all))
           hard == Exhausted(all, history, e)
           soft == Looping(all, h, e)
<1>1. s \in FlowStep /\ snapshot' \in 0..BestProject
  BY DEF RecoverFailedStep, RetryTypeOK
<1>2. e \in Failure /\ e.step = s /\ e.m = m
  BY <1>1 DEF Failure
<1>3. Len(all) = Len(counted) + 1
  BY <1>2, AppendProperties DEF RetryTypeOK
<1> HIDE DEF e
<1>4. PICK target \in Targets(s, m, n) :
       \/ /\ target = 0 \/ streaks[s] >= StreakLimit
          /\ StopFor(IF target = 0 THEN "no target" ELSE "retries")
          /\ UNCHANGED <<streaks, counted, history, since>>
       \/ /\ target # 0 /\ streaks[s] < StreakLimit
          /\ streaks' = [streaks EXCEPT ![s] = n] /\ counted' = all
          /\ \/ /\ ~hard /\ ~soft
                /\ GoBackTo(target) /\ history' = h /\ UNCHANGED since
             \/ /\ ~hard /\ soft /\ s \in Rotates /\ n < StreakLimit
                /\ GoBackTo(target)
                /\ history' = Cleared(all, h, s, m.task) /\ since' = Anew(s, m.task)
             \/ /\ hard \/ (soft /\ (s \notin Rotates \/ n >= StreakLimit))
                /\ StopFor(IF hard THEN "budget" ELSE "loop")
                /\ history' = h /\ UNCHANGED since
  BY Zenon DEF RecoverFailedStep, e
<1>5. target \in FlowStep \cup {0}
  BY <1>1, <1>4, TargetsAreSteps
<1>6. /\ mode = "runs" /\ Len(failed) < MaxFailures /\ UNCHANGED <<late, manual>>
      /\ failed' = Append(failed, e)
  BY Zenon DEF RecoverFailedStep, e
<1>8. streaks \in [FlowStep -> 0..StreakLimit] /\ StreakLimit \in Nat
  BY RetryConstants, Zenon DEF RetryTypeOK
<1>7. streaks[s] < StreakLimit => n \in 0..StreakLimit
  BY <1>1, <1>8
<1> HIDE DEF n, hard, soft, h, all
<1>9. CASE target = 0 \/ ~(streaks[s] < StreakLimit)
  <2>1. NotCounted /\ streaks' = streaks
    BY <1>1, <1>4, <1>8, <1>9, RetryConstants DEF NotCounted, StopFor
  <2> QED BY <1>1, <1>2, <1>6, <1>8, <2>1, Zenon DEF Happens
<1>10. CASE target # 0 /\ streaks[s] < StreakLimit
  <2>5. ~(target = 0 \/ streaks[s] >= StreakLimit)
    BY <1>1, <1>8, <1>10
  <2>1. streaks' = [streaks EXCEPT ![s] = n] /\ counted' = all
    BY <1>4, <2>5, Zenon
  <2>2. streaks' \in [FlowStep -> 0..StreakLimit]
    BY <1>7, <1>8, <1>10, <2>1
  <2>3. h = Remembered(history, Len(counted) + 1)
    BY <1>3 DEF h
  <2>4. StoppedFor(e) \/ WentOn(e)
    <3>1. CASE GoBackTo(target) /\ ~hard /\ ~soft /\ history' = h /\ UNCHANGED since
      BY <1>5, <1>10, <2>1, <2>3, <3>1 DEF WentOn, GoBackTo, hard, soft, all
    <3>2. CASE /\ GoBackTo(target) /\ ~hard
               /\ history' = Cleared(all, h, s, m.task) /\ since' = Anew(s, m.task)
      BY <1>2, <1>5, <1>10, <2>1, <2>3, <3>2 DEF WentOn, GoBackTo, hard, all
    <3>3. CASE /\ StopFor(IF hard THEN "budget" ELSE "loop")
               /\ history' = h /\ UNCHANGED since
      BY <2>1, <2>3, <3>3 DEF StoppedFor, StopFor, all
    <3> QED BY <1>4, <2>5, <3>1, <3>2, <3>3, Zenon
  <2> QED BY <1>1, <1>2, <1>6, <2>2, <2>4, Zenon DEF Happens
<1> QED BY <1>9, <1>10, <1>1, <1>8

-----------------------------------------------------------------------------
(* Types.                                                                  *)

\* A task that begins anew forgets no later beginning.
LEMMA AnewIs ==
  ASSUME RetryTypeOK, NEW s, NEW t, Len(failed') \in Nat, Len(failed) <= Len(failed')
  PROVE  /\ Anew(s, t) \in [FlowStep \X TaskName -> 0..Len(failed')]
         /\ \A p \in FlowStep \X TaskName : Anew(s, t)[p] >= since[p]
<1>1. since \in [FlowStep \X TaskName -> 0..Len(failed)] /\ Len(failed) \in Nat
  <2>1. since \in [FlowStep \X TaskName -> 0..Len(failed)] /\ failed \in Seq(Failure)
    BY Zenon DEF RetryTypeOK
  <2> QED BY <2>1, LenProperties
<1>2. \A p \in FlowStep \X TaskName :
        /\ since[p] \in 0..Len(failed)
        /\ (IF p[1] = s /\ (t = "" \/ p[2] = t) THEN Len(failed') ELSE since[p]) \in 0..Len(failed')
        /\ (IF p[1] = s /\ (t = "" \/ p[2] = t) THEN Len(failed') ELSE since[p]) >= since[p]
  <2> SUFFICES ASSUME NEW p \in FlowStep \X TaskName, NEW begins \in BOOLEAN
               PROVE  /\ since[p] \in 0..Len(failed)
                      /\ (IF begins THEN Len(failed') ELSE since[p]) \in 0..Len(failed')
                      /\ (IF begins THEN Len(failed') ELSE since[p]) >= since[p]
    BY Zenon
  <2>1. since[p] \in 0..Len(failed)
    BY <1>1
  <2> QED BY <1>1, <2>1
<1> QED BY <1>2, Zenon DEF Anew

\* What is cleared from the history was in it.
LEMMA ClearedIs ==
  ASSUME NEW all, NEW s, NEW t, NEW h, IsFiniteSet(h)
  PROVE  /\ Cleared(all, h, s, t) \subseteq h
         /\ Cardinality(Cleared(all, h, s, t)) <= Cardinality(h)
<1>1. Cleared(all, h, s, t) \in SUBSET h
  BY DEF Cleared
<1> QED BY <1>1, FS_Subset

LEMMA HistoryIsFinite ==
  ASSUME RetryTypeOK
  PROVE  /\ DOMAIN counted = 1..Len(counted) /\ Len(counted) \in Nat /\ Len(failed) \in Nat
         /\ DOMAIN failed = 1..Len(failed)
         /\ history \in SUBSET (1..Len(counted)) /\ IsFiniteSet(history)
         /\ Cardinality(history) \in Nat
<1>1. /\ DOMAIN counted = 1..Len(counted) /\ Len(counted) \in Nat /\ Len(failed) \in Nat
      /\ history \subseteq DOMAIN counted /\ DOMAIN failed = 1..Len(failed)
  <2>1. counted \in Seq(Failure) /\ failed \in Seq(Failure) /\ history \subseteq DOMAIN counted
    BY Zenon DEF RetryTypeOK
  <2> QED BY <2>1, LenProperties
<1>2. IsFiniteSet(1..Len(counted))
  BY <1>1, FS_Interval
<1> QED BY <1>1, <1>2, FS_Subset, FS_CardinalityType

LEMMA RetryTypeInit == ASSUME RetryAssumptions, RetryInit PROVE RetryTypeOK
<1>1. /\ 1 \in FlowStep /\ 0 \in 0..StreakLimit /\ 0 \in 0..BestProject /\ 0 \in 0..MaxManual
      /\ 0 <= MaxFailures /\ 0 <= HistoryCap
  BY RetryConstants
<1>2. <<>> \in Seq(Failure) /\ Len(<<>>) = 0 /\ Cardinality({}) = 0
  BY EmptySeq, FS_EmptySet
<1>3. /\ [s \in FlowStep |-> 0] \in [FlowStep -> 0..StreakLimit]
      /\ [p \in FlowStep \X TaskName |-> 0] \in [FlowStep \X TaskName -> 0..0]
  BY <1>1
<1>4. /\ {} \subseteq DOMAIN <<>> /\ Len(<<>>) <= Len(<<>>)
  BY <1>2
<1> QED BY <1>1, <1>2, <1>3, <1>4, Zenon DEF RetryInit, RetryTypeOK

LEMMA RetryTyped ==
  ASSUME RetryTypeOK
  PROVE  /\ current \in FlowStep /\ counted \in Seq(Failure) /\ failed \in Seq(Failure)
         /\ Len(counted) <= Len(failed) /\ Len(failed) <= MaxFailures
         /\ history \subseteq DOMAIN counted /\ Cardinality(history) <= HistoryCap
         /\ streaks \in [FlowStep -> 0..StreakLimit] /\ manual \in 0..MaxManual
         /\ since \in [FlowStep \X TaskName -> 0..Len(failed)]
BY Zenon DEF RetryTypeOK

LEMMA RetryTypeStep ==
  ASSUME RetryAssumptions, RetryTypeOK, [RetryNext]_retryVars
  PROVE  RetryTypeOK'
<1>1. CASE \E m \in Message : RecoverFailedStep(m)
  <2>1. PICK e \in Failure : Happens(e)
    BY <1>1, FailureHappens
  <2>2. /\ failed' \in Seq(Failure) /\ Len(failed') = Len(failed) + 1
        /\ Len(failed') <= MaxFailures
      <3>1. failed' = Append(failed, e) /\ Len(failed) < MaxFailures
      BY <2>1 DEF Happens
    <3> QED BY <3>1, RetryTyped, RetryConstants, HistoryIsFinite, AppendProperties
  <2>3. /\ Append(counted, e) \in Seq(Failure)
        /\ Len(Append(counted, e)) = Len(counted) + 1
        /\ DOMAIN Append(counted, e) = 1..Len(counted) + 1
    BY RetryTyped, AppendProperties
  <2> DEFINE h == Remembered(history, Len(counted) + 1)
  <2>4. h \in SUBSET (1..Len(counted) + 1) /\ Cardinality(h) <= HistoryCap /\ IsFiniteSet(h)
    <3>1. h \in SUBSET (1..Len(counted) + 1) /\ Cardinality(h) <= HistoryCap
      BY HistoryIsFinite, RememberedIs
    <3>2. IsFiniteSet(1..Len(counted) + 1)
      BY HistoryIsFinite, FS_Interval
    <3> QED BY <3>1, <3>2, FS_Subset
  <2> HIDE DEF h
  <2>5. since \in [FlowStep \X TaskName -> 0..Len(failed')]
    <3>1. 0..Len(failed) \subseteq 0..Len(failed')
      BY <2>2, HistoryIsFinite
    <3> QED BY <3>1 DEF RetryTypeOK
  <2>6. /\ late' \in BOOLEAN /\ snapshot' \in 0..BestProject /\ manual' \in 0..MaxManual
        /\ streaks' \in [FlowStep -> 0..StreakLimit] /\ mode = "runs" /\ why = "none"
    BY <2>1 DEF Happens, RetryTypeOK
  <2>7. CASE NotCounted
    <3>1. /\ current' \in FlowStep /\ mode' = "stopped" /\ why' \in {"no target", "retries"}
          /\ counted' \in Seq(Failure) /\ Len(counted') <= Len(failed')
          /\ history' \subseteq DOMAIN counted' /\ Cardinality(history') <= HistoryCap
          /\ since' = since
      <4>1. /\ current' = current /\ mode' = "stopped" /\ why' \in {"no target", "retries"}
            /\ counted' = counted /\ history' = history /\ since' = since
        BY <2>7 DEF NotCounted
      <4>2. Len(counted) <= Len(failed')
        BY <2>2, RetryTyped, HistoryIsFinite
      <4> QED BY <4>1, <4>2, RetryTyped
    <3> QED BY <2>2, <2>5, <2>6, <3>1 DEF RetryTypeOK
  <2>8. CASE StoppedFor(e)
    <3>1. /\ current' \in FlowStep /\ mode' = "stopped" /\ why' \in {"budget", "loop"}
          /\ since' = since
      BY <2>8 DEF StoppedFor, RetryTypeOK
    <3>2. /\ counted' \in Seq(Failure) /\ Len(counted') <= Len(failed')
          /\ history' \subseteq DOMAIN counted' /\ Cardinality(history') <= HistoryCap
      <4>1. counted' = Append(counted, e) /\ history' = h
        BY <2>8 DEF StoppedFor, h
      <4> QED BY <2>2, <2>3, <2>4, <4>1, RetryTyped, HistoryIsFinite
    <3> QED BY <2>2, <2>5, <2>6, <3>1, <3>2 DEF RetryTypeOK
  <2>9. CASE WentOn(e)
    <3>1. current' \in FlowStep /\ mode' = "runs" /\ why' = "none" /\ counted' = Append(counted, e)
      BY <2>6, <2>9 DEF WentOn
    <3>2. history' \subseteq h /\ Cardinality(history') <= HistoryCap
      <4>1. history' = h \/ history' = Cleared(counted', h, e.step, e.m.task)
        BY <2>9 DEF WentOn, h
      <4>2. Cardinality(h) \in Nat /\ HistoryCap \in Nat
        BY <2>4, FS_CardinalityType, RetryConstants
      <4>3. CASE history' = Cleared(counted', h, e.step, e.m.task)
        <5>1. history' \subseteq h /\ Cardinality(history') <= Cardinality(h)
          BY <2>4, <4>3, ClearedIs
        <5>2. Cardinality(history') \in Nat
          BY <2>4, <5>1, FS_Subset, FS_CardinalityType
        <5> QED BY <2>4, <4>2, <5>1, <5>2
      <4> QED BY <2>4, <4>1, <4>3
    <3>3. since' \in [FlowStep \X TaskName -> 0..Len(failed')]
      <4>1. since' = since \/ since' = Anew(e.step, e.m.task)
        BY <2>9 DEF WentOn
      <4> QED BY <2>2, <2>5, <4>1, AnewIs, HistoryIsFinite
    <3>4. /\ counted' \in Seq(Failure) /\ Len(counted') <= Len(failed')
          /\ history' \subseteq DOMAIN counted'
      BY <2>2, <2>3, <2>4, <3>1, <3>2, RetryTyped, HistoryIsFinite
    <3> QED BY <2>2, <2>6, <3>1, <3>2, <3>3, <3>4 DEF RetryTypeOK
  <2> QED BY <2>1, <2>7, <2>8, <2>9 DEF Happens
<1>2. CASE ClearGuard
  <2>1. /\ mode = "runs" /\ failed' = failed /\ counted' = counted /\ why' = why /\ why = "none"
        /\ late' = late /\ snapshot' = snapshot /\ manual' = manual
        /\ history' = Cleared(counted, history, current, "")
        /\ since' = Anew(current, "") /\ streaks' = [streaks EXCEPT ![current] = 0]
    BY <1>2 DEF ClearGuard, RetryTypeOK
  <2>2. current' \in FlowStep /\ mode' \in {"runs", "done"}
    <3>1. \/ current = FlowSteps /\ mode' = "done" /\ current' = current
          \/ current # FlowSteps /\ current' = current + 1 /\ mode' = mode
      BY <1>2 DEF ClearGuard
    <3>2. current \in 1..FlowSteps /\ FlowSteps \in Nat /\ FlowStep = 1..FlowSteps
      BY RetryConstants, RetryTyped
    <3>3. current' \in FlowStep
      BY <3>1, <3>2
    <3>4. mode' = mode \/ mode' = "done"
      BY <3>1
    <3> QED BY <2>1, <3>3, <3>4, Zenon
  <2>3. history' \subseteq history /\ Cardinality(history') <= HistoryCap
    <3>1. history' \subseteq history /\ Cardinality(history') <= Cardinality(history)
      BY <2>1, HistoryIsFinite, ClearedIs
    <3>2. Cardinality(history') \in Nat /\ HistoryCap \in Nat
      BY <3>1, HistoryIsFinite, FS_Subset, FS_CardinalityType, RetryConstants
    <3> QED BY <3>1, <3>2, HistoryIsFinite, RetryTyped
  <2>4. since' \in [FlowStep \X TaskName -> 0..Len(failed')]
    <3>1. Len(failed') \in Nat /\ Len(failed) <= Len(failed')
      <4>1. Len(failed) \in Nat /\ failed' = failed
        BY <2>1, HistoryIsFinite
      <4> QED BY <4>1
    <3> QED BY <2>1, <3>1, AnewIs
  <2>5. streaks' \in [FlowStep -> 0..StreakLimit]
    <3>1. 0 \in 0..StreakLimit
      BY RetryConstants
    <3> QED BY <2>1, <3>1 DEF RetryTypeOK
  <2> QED BY <2>1, <2>2, <2>3, <2>4, <2>5 DEF RetryTypeOK
<1>3. CASE RetryByHand
  <2>1. /\ manual' \in 0..MaxManual
    <3>1. manual < MaxManual /\ manual' = manual + 1
      BY <1>3 DEF RetryByHand
    <3> QED BY <3>1, RetryConstants, RetryTyped
  <2>2. since' \in [FlowStep \X TaskName -> 0..Len(failed')]
    <3>1. Len(failed) \in 0..Len(failed)
      BY HistoryIsFinite
    <3> QED BY <1>3, <3>1, Zenon DEF RetryByHand
  <2> QED BY <1>3, <2>1, <2>2 DEF RetryByHand, RetryTypeOK
<1>4. CASE TimePasses
  BY <1>4 DEF TimePasses, RetryTypeOK
<1>5. CASE UNCHANGED retryVars
  BY <1>5 DEF retryVars, RetryTypeOK
<1> QED BY <1>1, <1>2, <1>3, <1>4, <1>5 DEF RetryNext

\* The steps, budgets, failures and sessions of the retry guard keep their types.
THEOREM RetryTypeCorrect == ASSUME RetryAssumptions PROVE RetrySpec => []RetryTypeOK
<1>1. RetryInit => RetryTypeOK
  BY RetryTypeInit
<1>2. RetryTypeOK /\ [RetryNext]_retryVars => RetryTypeOK'
  BY RetryTypeStep
<1> QED BY <1>1, <1>2, PTL DEF RetrySpec

-----------------------------------------------------------------------------
(* Budgets.                                                                *)

\* What counts and budgets are
LEMMA CountsAre ==
  ASSUME RetryAssumptions, RetryTypeOK
  PROVE  /\ Len(failed) \in Nat /\ Len(counted) \in Nat
         /\ \A s : OfStep(failed, s) \in Nat /\ OfStep(counted, s) \in Nat
         /\ \A s, t : OfTask(failed, s, t) \in Nat /\ OfTask(counted, s, t) \in Nat
         /\ manual \in Nat /\ Granted \in Nat
         /\ Budget.total \in Nat /\ Budget.step \in Nat /\ Budget.task \in Nat
<1>1. failed \in Seq(Failure) /\ counted \in Seq(Failure)
  BY RetryTyped
<1>2. manual \in Nat /\ manual + 1 \in Nat
  BY RetryTyped, RetryConstants
<1>3. Granted \in Nat
  BY <1>2, Zenon DEF Granted
<1>4. \A s : OfStep(failed, s) \in Nat /\ OfStep(counted, s) \in Nat
  <2>2. \A all \in Seq(Failure) : \A s : OfStep(all, s) \in Nat
    <3> SUFFICES ASSUME NEW all \in Seq(Failure), NEW s PROVE OfStep(all, s) \in Nat
      OBVIOUS
    <3>1. {i \in DOMAIN all : all[i].step = s} \in SUBSET (1..Len(all)) /\ IsFiniteSet(1..Len(all))
      BY FS_Interval
    <3> QED BY <3>1, FS_Subset, FS_CardinalityType DEF OfStep
  <2> QED BY <1>1, <2>2
<1>5. \A s, t : OfTask(failed, s, t) \in Nat /\ OfTask(counted, s, t) \in Nat
  <2>2. \A all \in Seq(Failure) : \A s, t : OfTask(all, s, t) \in Nat
    <3> SUFFICES ASSUME NEW all \in Seq(Failure), NEW s, NEW t PROVE OfTask(all, s, t) \in Nat
      OBVIOUS
    <3>1. /\ {i \in DOMAIN all : all[i].step = s /\ all[i].m.task = t} \in SUBSET (1..Len(all))
          /\ IsFiniteSet(1..Len(all))
      BY FS_Interval
    <3> QED BY <3>1, FS_Subset, FS_CardinalityType DEF OfTask
  <2> QED BY <1>1, <2>2
<1> QED BY <1>1, <1>2, <1>3, <1>4, <1>5, RetryConstants, LenProperties

LEMMA BudgetsInit ==
  ASSUME RetryAssumptions, RetryInit PROVE CountersFollow /\ WithinBudgets
<1>1. failed = <<>> /\ counted = <<>> /\ Granted = 0
  BY DEF RetryInit, Granted
<1>2. /\ \A s : OfStep(<<>>, s) = 0
      /\ \A s, t : OfTask(<<>>, s, t) = 0
  <2>1. /\ \A s : {i \in DOMAIN <<>> : <<>>[i].step = s} = {}
        /\ \A s, t : {i \in DOMAIN <<>> : <<>>[i].step = s /\ <<>>[i].m.task = t} = {}
    OBVIOUS
  <2> QED BY <2>1, FS_EmptySet DEF OfStep, OfTask
<1>3. Len(<<>>) = 0
  OBVIOUS
<1> QED BY <1>1, <1>2, <1>3, RetryConstants DEF CountersFollow, WithinBudgets

LEMMA BudgetsStep ==
  ASSUME RetryAssumptions, RetryTypeOK, CountersFollow, WithinBudgets, [RetryNext]_retryVars
  PROVE  CountersFollow' /\ WithinBudgets'
<1>1. CASE \E m \in Message : RecoverFailedStep(m)
  <2>1. PICK e \in Failure : Happens(e)
    BY <1>1, FailureHappens
  <2>2. /\ failed' = Append(failed, e) /\ mode = "runs" /\ manual' = manual
        /\ Len(failed') = Len(failed) + 1 /\ Len(Append(counted, e)) = Len(counted) + 1
    BY <2>1, RetryTyped, AppendProperties DEF Happens
  <2>3. /\ \A s : /\ OfStep(failed', s) =
                       IF e.step = s THEN OfStep(failed, s) + 1 ELSE OfStep(failed, s)
                  /\ OfStep(Append(counted, e), s) =
                       IF e.step = s THEN OfStep(counted, s) + 1 ELSE OfStep(counted, s)
        /\ \A s, t : /\ OfTask(failed', s, t) =
                          IF e.step = s /\ e.m.task = t
                          THEN OfTask(failed, s, t) + 1 ELSE OfTask(failed, s, t)
                     /\ OfTask(Append(counted, e), s, t) =
                          IF e.step = s /\ e.m.task = t
                          THEN OfTask(counted, s, t) + 1 ELSE OfTask(counted, s, t)
    BY <2>2, RetryTyped, OneMore
  <2>4. Granted = manual
    BY <2>2 DEF Granted
  <2>5. CASE NotCounted \/ StoppedFor(e)
    <3>1. Granted' = manual + 1 /\ counted' \in {counted, Append(counted, e)}
      BY <2>2, <2>5 DEF NotCounted, StoppedFor, Granted
    <3>2. CountersFollow'
      <4>1. Len(failed') <= Len(counted') + Granted'
        BY <2>2, <2>4, <3>1, CountsAre DEF CountersFollow
      <4>2. ASSUME NEW s \in FlowStep PROVE OfStep(failed', s) <= OfStep(counted', s) + Granted'
        <5>1. OfStep(failed, s) <= OfStep(counted, s) + manual
          BY <2>4 DEF CountersFollow
        <5>2. OfStep(counted', s) \in {OfStep(counted, s), OfStep(counted, s) + 1}
          BY <2>3, <3>1, Zenon
        <5>3. OfStep(failed', s) \in {OfStep(failed, s), OfStep(failed, s) + 1}
          BY <2>3, Zenon
        <5>4. OfStep(failed, s) \in Nat /\ OfStep(counted, s) \in Nat /\ manual \in Nat
          BY CountsAre
        <5> QED BY <3>1, <5>1, <5>2, <5>3, <5>4
      <4>3. ASSUME NEW s \in FlowStep, NEW t \in TaskName
            PROVE  OfTask(failed', s, t) <= OfTask(counted', s, t) + Granted'
        <5>1. OfTask(failed, s, t) <= OfTask(counted, s, t) + manual
          BY <2>4 DEF CountersFollow
        <5>2. OfTask(counted', s, t) \in {OfTask(counted, s, t), OfTask(counted, s, t) + 1}
          BY <2>3, <3>1, Zenon
        <5>3. OfTask(failed', s, t) \in {OfTask(failed, s, t), OfTask(failed, s, t) + 1}
          BY <2>3, Zenon
        <5>4. OfTask(failed, s, t) \in Nat /\ OfTask(counted, s, t) \in Nat /\ manual \in Nat
          BY CountsAre
        <5> QED BY <3>1, <5>1, <5>2, <5>3, <5>4
      <4> QED BY <4>1, <4>2, <4>3 DEF CountersFollow
    <3>3. WithinBudgets'
      <4>1. Budget.total # 0 => Len(failed') < Budget.total + Granted'
        BY <2>2, <2>4, <3>1, CountsAre DEF WithinBudgets
      <4>2. ASSUME NEW s \in FlowStep, Budget.step # 0
            PROVE  OfStep(failed', s) < Budget.step + Granted'
        BY <2>3, <2>4, <3>1, <4>2, CountsAre DEF WithinBudgets
      <4>3. ASSUME NEW s \in FlowStep, NEW t \in TaskName, Budget.task # 0
            PROVE  OfTask(failed', s, t) < Budget.task + Granted'
        BY <2>3, <2>4, <3>1, <4>3, CountsAre DEF WithinBudgets
      <4> QED BY <4>1, <4>2, <4>3 DEF WithinBudgets
    <3> QED BY <3>2, <3>3
  <2>6. CASE WentOn(e)
    <3>1. Granted' = manual /\ counted' = Append(counted, e) /\ ~Exhausted(counted', history, e)
      BY <2>2, <2>6 DEF WentOn, Granted
    <3>2. CountersFollow'
      <4>1. Len(failed') <= Len(counted') + Granted'
        BY <2>2, <2>4, <3>1, CountsAre DEF CountersFollow
      <4>2. ASSUME NEW s \in FlowStep PROVE OfStep(failed', s) <= OfStep(counted', s) + Granted'
        <5>1. OfStep(failed, s) <= OfStep(counted, s) + manual
          BY <2>4 DEF CountersFollow
        <5> QED BY <2>3, <3>1, <5>1, CountsAre
      <4>3. ASSUME NEW s \in FlowStep, NEW t \in TaskName
            PROVE  OfTask(failed', s, t) <= OfTask(counted', s, t) + Granted'
        <5>1. OfTask(failed, s, t) <= OfTask(counted, s, t) + manual
          BY <2>4 DEF CountersFollow
        <5> QED BY <2>3, <3>1, <5>1, CountsAre
      <4> QED BY <4>1, <4>2, <4>3 DEF CountersFollow
    <3>3. /\ Budget.total # 0 => ~(Len(counted') >= Budget.total)
          /\ Budget.step # 0 => ~(OfStep(counted', e.step) >= Budget.step)
          /\ Budget.task # 0 => ~(OfTask(counted', e.step, e.m.task) >= Budget.task)
      BY <3>1, Zenon DEF Exhausted, Spent
    <3>4. WithinBudgets'
      <4>1. Budget.total # 0 => Len(failed') < Budget.total + Granted'
        BY <2>2, <2>4, <3>1, <3>2, <3>3, CountsAre DEF CountersFollow
      <4>2. ASSUME NEW s \in FlowStep, Budget.step # 0
            PROVE  OfStep(failed', s) < Budget.step + Granted'
        <5>1. CASE e.step = s
          <6>1. OfStep(failed', s) <= OfStep(counted', s) + Granted'
            BY <3>2 DEF CountersFollow
          <6> QED BY <2>3, <3>1, <3>3, <4>2, <5>1, <6>1, CountsAre
        <5>2. CASE e.step # s
          BY <2>3, <2>4, <3>1, <4>2, <5>2, CountsAre DEF WithinBudgets
        <5> QED BY <5>1, <5>2
      <4>3. ASSUME NEW s \in FlowStep, NEW t \in TaskName, Budget.task # 0
            PROVE  OfTask(failed', s, t) < Budget.task + Granted'
        <5>1. CASE e.step = s /\ e.m.task = t
          <6>1. OfTask(failed', s, t) <= OfTask(counted', s, t) + Granted'
            BY <3>2 DEF CountersFollow
          <6> QED BY <2>3, <3>1, <3>3, <4>3, <5>1, <6>1, CountsAre
        <5>2. CASE ~(e.step = s /\ e.m.task = t)
          BY <2>3, <2>4, <3>1, <4>3, <5>2, CountsAre DEF WithinBudgets
        <5> QED BY <5>1, <5>2
      <4> QED BY <4>1, <4>2, <4>3 DEF WithinBudgets
    <3> QED BY <3>2, <3>4
  <2> QED BY <2>1, <2>5, <2>6 DEF Happens
<1>2. CASE ClearGuard \/ RetryByHand \/ TimePasses \/ UNCHANGED retryVars
  <2>1. failed' = failed /\ counted' = counted
    BY <1>2 DEF ClearGuard, RetryByHand, TimePasses, retryVars
  <2>2. Granted' = Granted
    <3>1. CASE ClearGuard
      BY <3>1 DEF ClearGuard, Granted
    <3>2. CASE RetryByHand
      BY <3>2 DEF RetryByHand, Granted
    <3>3. CASE TimePasses \/ UNCHANGED retryVars
      BY <3>3 DEF TimePasses, retryVars, Granted
    <3> QED BY <1>2, <3>1, <3>2, <3>3
  <2> QED BY <2>1, <2>2 DEF CountersFollow, WithinBudgets
<1> QED BY <1>1, <1>2 DEF RetryNext

-----------------------------------------------------------------------------
(* Loops.                                                                  *)

\* The history remembers every failure that the budget of the run lets happen.
RemembersAll == Budget.total # 0 /\ Budget.total <= HistoryCap

LEMMA ScopeTyped ==
  ASSUME NEW e \in Failure
  PROVE  <<e.step, e.m.task>> \in FlowStep \X TaskName
BY DEF Failure, TaskName

\* A failure the run goes on after is in the history, as all before it are.
LEMMA KnownAfterFailure ==
  ASSUME RetryAssumptions, RemembersAll, RetryTypeOK, RetryTypeOK', RecentAreKnown,
         NEW e \in Failure, Happens(e), WentOn(e)
  PROVE  /\ RecentAreKnown'
         /\ Remembered(history, Len(counted) + 1) = history \cup {Len(counted) + 1}
<1> DEFINE L == Len(failed)
           n == Len(counted)
           h == Remembered(history, n + 1)
           p == <<e.step, e.m.task>>
<1>1. /\ failed' = Append(failed, e) /\ counted' = Append(counted, e) /\ mode = "runs"
      /\ failed \in Seq(Failure) /\ counted \in Seq(Failure)
  BY RetryTyped DEF Happens, WentOn
<1>2. /\ L \in Nat /\ n \in Nat /\ Len(failed') = L + 1 /\ Len(counted') = n + 1
      /\ \A i \in 1..L : failed'[i] = failed[i]
      /\ \A i \in 1..n : counted'[i] = counted[i]
      /\ failed'[L + 1] = e /\ counted'[n + 1] = e
      /\ DOMAIN failed' = 1..L + 1 /\ DOMAIN counted' = 1..n + 1
      /\ \A i \in 1..L : failed[i] \in Failure
  BY <1>1, AppendProperties
<1>3. h = history \cup {n + 1}
  <2>1. ~(Len(counted') >= Budget.total)
    BY Zenon DEF WentOn, Exhausted, Spent, RemembersAll
  <2>2. n < HistoryCap
    BY <1>2, <2>1, RetryConstants DEF RemembersAll
  <2> QED BY <2>2, HistoryIsFinite, RememberedIs
<1>4. /\ Uncounted' = Uncounted /\ Uncounted \in Int /\ L - Uncounted = n
      /\ Uncounted \in Nat
  BY <1>2, RetryTyped DEF Uncounted
<1>5. \/ history' = h /\ since' = since
      \/ history' = Cleared(counted', h, e.step, e.m.task) /\ since' = Anew(e.step, e.m.task)
  BY DEF WentOn
<1>6. history \in SUBSET (1..n) /\ DOMAIN failed = 1..L /\ DOMAIN counted = 1..n
  BY HistoryIsFinite
<1>7. \A q \in FlowStep \X TaskName : since'[q] \in Int /\ since[q] \in Int /\ since'[q] >= since[q]
  <2>1. \A q \in FlowStep \X TaskName : since[q] \in Int
    BY RetryTyped
  <2>2. Anew(e.step, e.m.task) = since' => \A q \in FlowStep \X TaskName : since'[q] >= since[q]
    <3>1. Len(failed') \in Nat /\ Len(failed) <= Len(failed')
      BY <1>2
    <3> QED BY <3>1, AnewIs, Zenon
  <2>3. \A q \in FlowStep \X TaskName : since'[q] \in Int
    <3>1. since' \in [FlowStep \X TaskName -> 0..Len(failed')]
      BY Zenon DEF RetryTypeOK
    <3> QED BY <3>1
  <2> QED BY <1>5, <2>1, <2>2, <2>3
<1>8. ASSUME since' = Anew(e.step, e.m.task), NEW q \in FlowStep \X TaskName, q[1] = e.step,
             e.m.task = "" \/ q[2] = e.m.task
      PROVE  since'[q] = L + 1
  BY <1>2, <1>8, Zenon DEF Anew
<1> HIDE DEF h
<1>9. ASSUME NEW i \in 1..L + 1, i > since'[<<failed'[i].step, failed'[i].m.task>>]
      PROVE  /\ i - Uncounted \in history'
             /\ \A j \in i..L + 1 : j - Uncounted \in 1..n + 1 /\ counted'[j - Uncounted] = failed'[j]
  <2>1. CASE i = L + 1
    <3>1. failed'[i] = e /\ i - Uncounted = n + 1 /\ \A j \in i..L + 1 : j = i
      BY <1>2, <1>4, <2>1
    <3>2. ~(since' = Anew(e.step, e.m.task))
      <4>1. p \in FlowStep \X TaskName /\ p[1] = e.step /\ p[2] = e.m.task
        BY ScopeTyped
      <4>2. since' = Anew(e.step, e.m.task) => since'[p] = L + 1
        BY <1>8, <4>1, Zenon
      <4>3. L + 1 > since'[p] /\ L + 1 \in Nat
        BY <1>2, <1>9, <2>1, <3>1
      <4> QED BY <4>2, <4>3
    <3>3. n + 1 \in history'
      BY <1>3, <1>5, <3>2
    <3> QED BY <1>2, <3>1, <3>3
  <2>2. CASE i \in 1..L
    <3> DEFINE f == failed[i]
               q == <<f.step, f.m.task>>
    <3>1. failed'[i] = f /\ f \in Failure /\ q \in FlowStep \X TaskName
      BY <1>2, <2>2, ScopeTyped
    <3>2. i > since'[q]
      BY <1>9, <3>1
    <3>3. IsRecent(i)
      BY <1>7, <2>2, <3>1, <3>2 DEF IsRecent
    <3>4. /\ i - Uncounted \in history
          /\ \A j \in i..L : j - Uncounted \in 1..n /\ counted[j - Uncounted] = failed[j]
      BY <1>1, <1>6, <2>2, <3>3 DEF RecentAreKnown
    <3>5. \A j \in i..L + 1 : j - Uncounted \in 1..n + 1 /\ counted'[j - Uncounted] = failed'[j]
      <4> SUFFICES ASSUME NEW j \in i..L + 1
                   PROVE  j - Uncounted \in 1..n + 1 /\ counted'[j - Uncounted] = failed'[j]
        OBVIOUS
      <4>1. CASE j = L + 1
        BY <1>2, <1>4, <4>1
      <4>2. CASE j \in i..L
        <5>1. j \in 1..L /\ j - Uncounted \in 1..n /\ counted[j - Uncounted] = failed[j]
          BY <1>2, <2>2, <3>4, <4>2
        <5> QED BY <1>2, <5>1
      <4> QED BY <1>2, <2>2, <4>1, <4>2
    <3>6. i - Uncounted \in history'
      <4>1. i - Uncounted \in h
        BY <1>3, <3>4
      <4>2. CASE since' = Anew(e.step, e.m.task) /\ history' = Cleared(counted', h, e.step, e.m.task)
        <5>1. ~(f.step = e.step /\ (e.m.task = "" \/ f.m.task = e.m.task))
          <6>1. f.step = e.step /\ (e.m.task = "" \/ f.m.task = e.m.task) => since'[q] = L + 1
            <7>1. q[1] = f.step /\ q[2] = f.m.task
              OBVIOUS
            <7> HIDE DEF q, f
            <7> QED BY <1>8, <3>1, <4>2, <7>1, Zenon
          <6>2. L + 1 \in Nat /\ i <= L /\ ~(i > L + 1)
            BY <1>2, <2>2
          <6> QED BY <3>2, <6>1, <6>2
        <5>2. counted'[i - Uncounted] = f
          <6>1. i \in i..L + 1
            BY <1>2, <2>2
          <6> QED BY <3>1, <3>5, <6>1
        <5> QED BY <4>1, <4>2, <5>1, <5>2, Zenon DEF Cleared
      <4> QED BY <1>5, <4>1, <4>2
    <3> QED BY <3>5, <3>6
  <2> QED BY <1>2, <2>1, <2>2
<1>10. RecentAreKnown'
  BY <1>2, <1>4, <1>9 DEF RecentAreKnown, IsRecent
<1> QED BY <1>3, <1>10 DEF h

LEMMA AlikeIsFinite ==
  ASSUME RetryTypeOK, NEW k \in DOMAIN failed
  PROVE  /\ Alike(k) \in SUBSET (1..k) /\ IsFiniteSet(Alike(k)) /\ Cardinality(Alike(k)) \in Nat
         /\ k \in Nat
<1>1. k \in Nat /\ failed[k] \in Failure
  BY RetryTyped
<1>2. since[<<failed[k].step, failed[k].m.task>>] \in Nat
  BY <1>1, RetryTyped, ScopeTyped
<1> DEFINE from == since[<<failed[k].step, failed[k].m.task>>]
<1>3. from + 1..k \subseteq 1..k
  BY <1>1, <1>2
<1>4. Alike(k) \subseteq from + 1..k
  BY DEF Alike
<1>5. IsFiniteSet(1..k)
  BY <1>1, FS_Interval
<1> QED BY <1>1, <1>3, <1>4, <1>5, FS_Subset, FS_CardinalityType

\* Earlier failures stay as they are, and what begins anew leaves some behind.
LEMMA OldLoopsStay ==
  ASSUME RetryTypeOK, RetryTypeOK', NEW k \in DOMAIN failed, k \in DOMAIN failed',
         \A i \in 1..k : failed'[i] = failed[i],
         \A p \in FlowStep \X TaskName : since'[p] >= since[p]
  PROVE  Cardinality(Alike(k)') \in Nat /\ Cardinality(Alike(k)') <= Cardinality(Alike(k))
<1> DEFINE p == <<failed[k].step, failed[k].m.task>>
<1>1. k \in 1..k /\ k \in Nat /\ failed[k] \in Failure
  BY RetryTyped
<1>2. p \in FlowStep \X TaskName /\ since[p] \in Nat /\ since'[p] \in Nat /\ since'[p] >= since[p]
  <2>1. p \in FlowStep \X TaskName
    BY <1>1, ScopeTyped
  <2>2. since' \in [FlowStep \X TaskName -> 0..Len(failed')]
    BY Zenon DEF RetryTypeOK
  <2> HIDE DEF p
  <2> QED BY <2>1, <2>2, RetryTyped
<1>3. since'[p] + 1..k \subseteq since[p] + 1..k /\ since[p] + 1..k \subseteq 1..k
  BY <1>1, <1>2
<1>4. Alike(k)' = {i \in since'[p] + 1..k :
                     /\ failed'[i] = failed[k]
                     /\ \A j \in i..k : SameScope(failed'[j], failed[k]) => failed'[j] = failed[k]}
  BY <1>1 DEF Alike
<1>5. ASSUME NEW i \in Alike(k)' PROVE i \in Alike(k)
  <2>1. /\ i \in since'[p] + 1..k /\ failed'[i] = failed[k]
        /\ \A j \in i..k : SameScope(failed'[j], failed[k]) => failed'[j] = failed[k]
    BY <1>4, <1>5
  <2>2. i \in since[p] + 1..k /\ i \in 1..k /\ \A j \in i..k : j \in 1..k
    BY <1>1, <1>3, <2>1
  <2> QED BY <2>1, <2>2 DEF Alike
<1> QED BY <1>5, AlikeIsFinite, FS_Subset, FS_CardinalityType

\* What goes on was not soft: the failures alike are in the history.
LEMMA NewLoopIsShort ==
  ASSUME RetryAssumptions, RemembersAll, RetryTypeOK, RetryTypeOK', RecentAreKnown,
         NEW e \in Failure, Happens(e), WentOn(e), NEW k \in Nat, k = Len(failed) + 1
  PROVE  Cardinality(Alike(k)') < RepeatLimit
<1> DEFINE L == Len(failed)
           n == Len(counted)
           h == Remembered(history, n + 1)
           p == <<e.step, e.m.task>>
           A == Alike(k)'
<1>0. k = L + 1
  OBVIOUS
<1>1. /\ failed' = Append(failed, e) /\ counted' = Append(counted, e) /\ mode' = "runs"
      /\ failed \in Seq(Failure) /\ counted \in Seq(Failure)
  BY RetryTyped DEF Happens, WentOn
<1>2. /\ L \in Nat /\ n \in Nat /\ failed'[L + 1] = e /\ DOMAIN failed' = 1..L + 1
      /\ Len(failed') = L + 1 /\ Len(counted') = n + 1
  BY <1>1, AppendProperties
<1>3. p \in FlowStep \X TaskName
  BY ScopeTyped
<1>4. A = {i \in since'[p] + 1..L + 1 :
             /\ failed'[i] = e
             /\ \A j \in i..L + 1 : SameScope(failed'[j], e) => failed'[j] = e}
  BY <1>0, <1>2 DEF Alike
<1>5. RepeatLimit \in Nat /\ RepeatLimit >= 1
  BY RetryConstants
<1>6. CASE since' = Anew(e.step, e.m.task)
  <2>1. p[1] = e.step /\ p[2] = e.m.task
    OBVIOUS
  <2> HIDE DEF p
  <2>2. since'[p] = L + 1
    BY <1>2, <1>3, <1>6, <2>1, Zenon DEF Anew
  <2>3. since'[p] + 1..L + 1 = {}
    BY <1>2, <2>2
  <2>4. Cardinality(A) = 0
    BY <1>4, <2>3, FS_EmptySet
  <2> QED BY <1>5, <2>4
<1>7. CASE history' = h /\ ~Looping(counted', h, e)
  <2> DEFINE same == {q \in Recent(counted', h, e) : counted'[q].m = e.m}
             shift == [i \in A |-> i - Uncounted]
  <2>1. /\ RecentAreKnown' /\ Uncounted' = Uncounted /\ Uncounted \in Nat
        /\ L - Uncounted = n /\ h \in SUBSET (1..n + 1)
    <3>1. Uncounted' = Uncounted /\ Uncounted \in Nat /\ L - Uncounted = n
      BY <1>2, RetryTyped DEF Uncounted
    <3> QED BY <3>1, KnownAfterFailure, HistoryIsFinite, RememberedIs
  <2>2. ~(Cardinality(same) >= RepeatLimit)
    BY <1>7, Zenon DEF Looping, Repeated
  <2>3. IsFiniteSet(same) /\ Cardinality(same) \in Nat
    <3>1. same \subseteq h
      BY DEF Recent
    <3>2. IsFiniteSet(1..n + 1)
      BY <1>2, FS_Interval
    <3> HIDE DEF same, h
    <3> QED BY <2>1, <3>1, <3>2, FS_Subset, FS_CardinalityType
  <2>4. ASSUME NEW i \in A PROVE i \in 1..L + 1 /\ i - Uncounted \in same
    <3>1. /\ i \in since'[p] + 1..L + 1 /\ failed'[i] = e
          /\ \A j \in i..L + 1 : SameScope(failed'[j], e) => failed'[j] = e
      BY <1>4, <2>4
    <3>2. since'[p] \in Nat
      <4>1. since' \in [FlowStep \X TaskName -> 0..Len(failed')]
        BY Zenon DEF RetryTypeOK
      <4> HIDE DEF p
      <4> QED BY <1>2, <1>3, <4>1
    <3>3. i \in 1..L + 1 /\ i > since'[p]
      BY <1>2, <3>1, <3>2
    <3>4. /\ i - Uncounted \in h
          /\ \A j \in i..L + 1 : j - Uncounted \in DOMAIN counted' /\ counted'[j - Uncounted] = failed'[j]
      <4>1. IsRecent(i)'
        BY <3>1, <3>3 DEF IsRecent
      <4> QED BY <1>1, <1>2, <1>7, <2>1, <3>3, <4>1 DEF RecentAreKnown
    <3>5. counted'[i - Uncounted] = e
      <4>1. i \in i..L + 1
        BY <3>3
      <4> QED BY <3>1, <3>4, <4>1
    <3>6. ASSUME NEW q \in h, q >= i - Uncounted, SameScope(counted'[q], e)
          PROVE  counted'[q].project = e.project
      <4>1. q + Uncounted \in i..L + 1 /\ (q + Uncounted) - Uncounted = q
        BY <1>2, <2>1, <3>3, <3>6
      <4>2. counted'[q] = failed'[q + Uncounted]
        BY <3>4, <4>1
      <4> QED BY <3>1, <3>6, <4>1, <4>2
    <3>7. SameScope(e, e)
      BY DEF SameScope
    <3> QED BY <3>3, <3>4, <3>5, <3>6, <3>7 DEF Recent
  <2>5. shift \in Injection(A, same)
    <3>1. shift \in [A -> same]
      BY <2>4
    <3>2. \A a, b \in A : shift[a] = shift[b] => a = b
      BY <2>1, <2>4
    <3> HIDE DEF shift, A, same
    <3> QED BY <3>1, <3>2, Fun_IsInj
  <2>6. Cardinality(A) <= Cardinality(same) /\ IsFiniteSet(A)
    BY <2>3, <2>5, FS_Injection
  <2>7. Cardinality(A) \in Nat
    BY <2>6, FS_CardinalityType
  <2> QED BY <1>5, <2>2, <2>3, <2>6, <2>7
<1> QED BY <1>6, <1>7 DEF WentOn

LEMMA LoopsStep ==
  ASSUME RetryAssumptions, RemembersAll, RetryTypeOK, RetryTypeOK', RecentAreKnown,
         LoopsAreBroken, [RetryNext]_retryVars
  PROVE  RecentAreKnown' /\ LoopsAreBroken'
<1>1. CASE \E m \in Message : RecoverFailedStep(m)
  <2>1. PICK e \in Failure : Happens(e)
    BY <1>1, FailureHappens
  <2>2. CASE NotCounted \/ StoppedFor(e)
    BY <2>2 DEF NotCounted, StoppedFor, RecentAreKnown, LoopsAreBroken
  <2>3. CASE WentOn(e)
    <3>1. RecentAreKnown'
      BY <2>1, <2>3, KnownAfterFailure
    <3>2. ASSUME NEW k \in DOMAIN failed' PROVE Cardinality(Alike(k)') < RepeatLimit
      <4>1. /\ failed' = Append(failed, e) /\ mode = "runs" /\ failed \in Seq(Failure)
        BY <2>1, RetryTyped DEF Happens
      <4>2. /\ Len(failed) \in Nat /\ DOMAIN failed' = 1..Len(failed) + 1
            /\ DOMAIN failed = 1..Len(failed) /\ Len(failed') = Len(failed) + 1
            /\ \A i \in 1..Len(failed) : failed'[i] = failed[i]
        BY <4>1, AppendProperties
      <4>3. CASE k = Len(failed) + 1
        <5>1. k \in Nat
          BY <4>2, <4>3
        <5> QED BY <2>1, <2>3, <4>3, <5>1, NewLoopIsShort
      <4>4. CASE k \in DOMAIN failed
        <5>1. \A p \in FlowStep \X TaskName : since'[p] >= since[p]
          <6>1. since' = since \/ since' = Anew(e.step, e.m.task)
            BY <2>3 DEF WentOn
          <6>2. Len(failed') \in Nat /\ Len(failed) <= Len(failed')
            BY <4>2
          <6>3. \A p \in FlowStep \X TaskName : since[p] \in Int /\ since[p] >= since[p]
            BY RetryTyped
          <6> QED BY <6>1, <6>2, <6>3, AnewIs, Zenon
        <5>2. \A i \in 1..k : failed'[i] = failed[i]
          BY <4>2, <4>4
        <5>3. Cardinality(Alike(k)') \in Nat /\ Cardinality(Alike(k)') <= Cardinality(Alike(k))
          BY <4>4, <5>1, <5>2, OldLoopsStay
        <5>4. Cardinality(Alike(k)) < RepeatLimit
          BY <4>1, <4>4 DEF LoopsAreBroken
        <5>5. Cardinality(Alike(k)) \in Nat
          BY <4>4, AlikeIsFinite
        <5> QED BY <5>3, <5>4, <5>5, RetryConstants
      <4> QED BY <4>2, <4>3, <4>4
    <3> QED BY <3>1, <3>2 DEF LoopsAreBroken
  <2> QED BY <2>1, <2>2, <2>3 DEF Happens
<1>2. CASE ClearGuard
  <2>1. /\ mode = "runs" /\ failed' = failed /\ counted' = counted
        /\ history' = Cleared(counted, history, current, "") /\ since' = Anew(current, "")
    BY <1>2 DEF ClearGuard
  <2>2. Len(failed) \in Nat /\ Len(failed') \in Nat /\ Len(failed) <= Len(failed')
    <3>1. Len(failed) \in Nat /\ Len(failed') = Len(failed)
      BY <2>1, HistoryIsFinite
    <3> QED BY <3>1
  <2>3. \A p \in FlowStep \X TaskName : since'[p] >= since[p]
    BY <2>1, <2>2, AnewIs
  <2>4. RecentAreKnown'
    <3> SUFFICES ASSUME NEW i \in DOMAIN failed, i > since'[<<failed[i].step, failed[i].m.task>>]
                 PROVE  /\ i - Uncounted \in history'
                        /\ \A j \in i..Len(failed) :
                             j - Uncounted \in DOMAIN counted /\ counted[j - Uncounted] = failed[j]
      BY <2>1, Zenon DEF RecentAreKnown, IsRecent, Uncounted
    <3> DEFINE f == failed[i]
               q == <<f.step, f.m.task>>
    <3>1. f \in Failure /\ i \in Nat /\ i <= Len(failed) /\ q \in FlowStep \X TaskName
      <4>1. f \in Failure /\ i \in Nat /\ i <= Len(failed)
        BY RetryTyped
      <4> QED BY <4>1, ScopeTyped
    <3>2. since[q] \in Nat /\ since'[q] \in Nat /\ since'[q] >= since[q] /\ i > since'[q]
      <4>1. since' \in [FlowStep \X TaskName -> 0..Len(failed')]
        BY Zenon DEF RetryTypeOK
      <4>2. i > since'[q]
        OBVIOUS
      <4> HIDE DEF q, f
      <4> QED BY <2>2, <2>3, <3>1, <4>1, <4>2, RetryTyped
    <3>3. IsRecent(i)
      BY <3>1, <3>2 DEF IsRecent
    <3>4. /\ i - Uncounted \in history
          /\ \A j \in i..Len(failed) :
               j - Uncounted \in DOMAIN counted /\ counted[j - Uncounted] = failed[j]
      BY <2>1, <3>3, Zenon DEF RecentAreKnown
    <3>5. f.step # current
      <4>1. q[1] = f.step
        OBVIOUS
      <4> HIDE DEF q
      <4>2. f.step = current => since'[q] = Len(failed')
        BY <2>1, <3>1, <4>1, Zenon DEF Anew
      <4>3. Len(failed') = Len(failed) /\ Len(failed) \in Nat
        BY <2>1, <2>2
      <4>4. ~(since'[q] = Len(failed'))
        BY <3>1, <3>2, <4>3
      <4> QED BY <4>2, <4>4
    <3>6. counted[i - Uncounted] = f
      <4>1. i \in i..Len(failed)
        BY <2>2, <3>1
      <4> QED BY <3>4, <4>1, Zenon
    <3>7. i - Uncounted \in history'
      BY <2>1, <3>4, <3>5, <3>6, Zenon DEF Cleared
    <3> QED BY <3>4, <3>7
  <2>5. LoopsAreBroken'
    <3> SUFFICES ASSUME NEW k \in DOMAIN failed PROVE Cardinality(Alike(k)') < RepeatLimit
      BY <2>1 DEF LoopsAreBroken
    <3>1. Cardinality(Alike(k)') \in Nat /\ Cardinality(Alike(k)') <= Cardinality(Alike(k))
      BY <2>1, <2>3, OldLoopsStay
    <3>2. Cardinality(Alike(k)) < RepeatLimit
      BY <2>1 DEF LoopsAreBroken
    <3>3. Cardinality(Alike(k)) \in Nat
      BY AlikeIsFinite
    <3> QED BY <3>1, <3>2, <3>3, RetryConstants
  <2> QED BY <2>4, <2>5
<1>3. CASE RetryByHand
  <2>1. /\ failed' = failed /\ since' = [p \in FlowStep \X TaskName |-> Len(failed)]
    BY <1>3 DEF RetryByHand
  <2>2. ASSUME NEW i \in DOMAIN failed
        PROVE  i \in Nat /\ i <= Len(failed)
               /\ since'[<<failed[i].step, failed[i].m.task>>] = Len(failed)
               /\ Len(failed) \in Nat
    <3>1. failed[i] \in Failure /\ i \in Nat /\ i <= Len(failed) /\ Len(failed) \in Nat
      BY RetryTyped
    <3>2. <<failed[i].step, failed[i].m.task>> \in FlowStep \X TaskName
      BY <3>1, ScopeTyped
    <3> QED BY <2>1, <3>1, <3>2, Zenon
  <2>3. RecentAreKnown'
    <3>1. \A i \in DOMAIN failed : ~IsRecent(i)'
      BY <2>1, <2>2 DEF IsRecent
    <3> QED BY <2>1, <3>1 DEF RecentAreKnown
  <2>4. ASSUME NEW k \in DOMAIN failed PROVE Cardinality(Alike(k)') < RepeatLimit
    <3>1. since'[<<failed[k].step, failed[k].m.task>>] + 1..k = {}
      BY <2>2
    <3>2. Alike(k)' = {}
      BY <2>1, <3>1 DEF Alike
    <3> QED BY <3>2, FS_EmptySet, RetryConstants
  <2> QED BY <2>1, <2>3, <2>4 DEF LoopsAreBroken
<1>4. CASE TimePasses \/ UNCHANGED retryVars
  BY <1>4 DEF TimePasses, retryVars, RecentAreKnown, LoopsAreBroken, IsRecent, Uncounted, Alike
<1> QED BY <1>1, <1>2, <1>3, <1>4 DEF RetryNext

\* Under any failures, passes, fresh sessions and retries of the user, a run that
\* goes on is within its budgets.
THEOREM BudgetsAreKept == ASSUME RetryAssumptions PROVE RetrySpec => []BudgetsKept
<1> DEFINE Inv == RetryTypeOK /\ CountersFollow /\ WithinBudgets
<1>1. RetryInit => Inv
  BY RetryTypeInit, BudgetsInit
<1>2. Inv /\ [RetryNext]_retryVars => Inv'
  BY RetryTypeStep, BudgetsStep
<1>3. Inv => BudgetsKept
  <2> SUFFICES ASSUME Inv PROVE BudgetsKept
    OBVIOUS
  <2>1. mode = "runs" => Granted = manual
    BY DEF Granted
  <2> QED BY <2>1 DEF BudgetsKept, WithinBudgets
<1> QED BY <1>1, <1>2, <1>3, PTL DEF RetrySpec

\* If its history is as long as its budget, it has not failed alike too often
\* either.
THEOREM GuardStopsLoops ==
  ASSUME RetryAssumptions, RemembersAll PROVE RetrySpec => []BudgetsHold
<1> DEFINE Inv == RecentAreKnown /\ LoopsAreBroken
<1>1. RetryInit => Inv
  <2> SUFFICES ASSUME RetryInit PROVE Inv
    OBVIOUS
  <2>1. failed = <<>> /\ DOMAIN failed = {}
    BY DEF RetryInit
  <2> QED BY <2>1 DEF RecentAreKnown, LoopsAreBroken
<1>2. RetryTypeOK /\ RetryTypeOK' /\ Inv /\ [RetryNext]_retryVars => Inv'
  BY LoopsStep
<1>3. BudgetsKept /\ Inv => BudgetsHold
  BY DEF BudgetsHold
<1> QED BY <1>1, <1>2, <1>3, RetryTypeCorrect, BudgetsAreKept, PTL DEF RetrySpec
===============================================================================
