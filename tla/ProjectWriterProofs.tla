-------------------------- MODULE ProjectWriterProofs --------------------------
(***************************************************************************)
(* What the runs of a machine share, proved: the writers of a project, for *)
(* any number of runs and of process incarnations that follow one another, *)
(* crash and start; and the processes of the agents, for any number of     *)
(* servers, commands, agents and process ids.                              *)
(*                                                                         *)
(* That there is one writer rests on what OneServer lists, and the runs    *)
(* show that it does not hold without it: servers one at a time, requests  *)
(* that are served after a new task has begun, and resuming by hand only   *)
(* when no other run is active. Then at most one run is active (OneActive) *)
(* and, but for a task that has not begun, owned by who is up (OwnedHere), *)
(* so that a start finds at most one unattended run to resume (NotLeft):   *)
(* who executes a run holds the lock and the record.                       *)
(*                                                                         *)
(* That the reaper ends only orphans rests on the ids alone (ReapedAre):   *)
(* none is given away while a reaper has it on its list. That no process   *)
(* is left needs a registry that nothing disturbed (Kept): what is on disk *)
(* is what the server has in memory, and every agent that is up is there.  *)
(***************************************************************************)
EXTENDS ProjectWriter, AgentProcess, FiniteSetTheorems, TLAPS

OneServer ==
  /\ WriterAssumptions /\ IsFiniteSet(Process) /\ Cli = {}
  /\ CarefulResume /\ PromptBegin /\ MaxUp = 1

\* A task is of a run there is.
Known == \A p \in Process : \A r \in Run : task[p][r] # "none" => status[r] # "none"

TypeInv == WriterTypeOK /\ Known

OnlyUp ==
  /\ \A p, q \in Process : Up(p) /\ Up(q) => p = q
  /\ \A p \in Process : ~Up(p) =>
       admitted[p] = None /\ \A r \in Run : task[p][r] = "none"

LiveIsActive ==
  \A p \in Process : \A r \in Run : LiveTask(p, r) => status[r] = "active"

OneActive == \A r, s \in Run : IsActive(r) /\ IsActive(s) => r = s

OwnedHere ==
  \A p \in Process : \A r \in Run :
    Up(p) /\ IsActive(r) => owner[r] = p \/ task[p][r] = "created"

Admitted ==
  \A p \in Process : admitted[p] # None =>
    /\ \A r \in Run : ~LiveTask(p, r)
    /\ \A x \in Run : x # admitted[p] => ~IsActive(x)

NotLeft == \A r \in Unattended : status[r] # "interrupted"

Holds ==
  \A p \in Process : \A r \in Run : task[p][r] = "running" =>
    lock = [run |-> r, owner |-> p] /\ owner[r] = p

WriterInv == /\ TypeInv /\ OnlyUp /\ LiveIsActive /\ OneActive /\ OwnedHere
             /\ Admitted /\ NotLeft /\ Holds

-----------------------------------------------------------------------------
LEMMA TypeInit == ASSUME WriterAssumptions, WriterInit PROVE TypeInv
BY DEF WriterAssumptions, WriterInit, TypeInv, Known, WriterTypeOK, Status, NoLock

LEMMA InterruptTyped ==
  ASSUME WriterTypeOK, NEW R \in SUBSET Run
  PROVE  /\ Interrupting(R) \in [Run -> Status]
         /\ \A r \in Run : r \notin R => Interrupting(R)[r] = status[r]
         /\ \A r \in R : Interrupting(R)[r] = "interrupted"
BY DEF WriterTypeOK, Interrupting, Status

LEMMA StaleHaveAnOwner ==
  ASSUME WriterTypeOK PROVE StaleRuns \subseteq Run /\ \A r \in StaleRuns : owner[r] # None
BY DEF WriterTypeOK, StaleRuns, IsActive, ActiveRunStatuses

LEMMA NoLockTyped ==
  NoLock \in [run : Run \cup {None}, owner : Process \cup {None}] /\ NoLock.run = None
BY DEF NoLock

LEMMA TypeStep == ASSUME WriterAssumptions, TypeInv, [WriterNext]_writerVars PROVE WriterTypeOK'
<1> USE DEF WriterAssumptions, TypeInv
<1>1. ASSUME NEW p \in Process, NEW r \in Run, Admit(p, r) PROVE WriterTypeOK'
  <2>1. status' \in [Run -> Status]
        /\ \A x \in Run : status'[x] # "none" => owner[x] # None
    BY <1>1, InterruptTyped, StaleHaveAnOwner DEF Admit, WriterTypeOK
  <2>2. lock' \in [run : Run \cup {None}, owner : Process \cup {None}]
    BY <1>1, NoLockTyped DEF Admit, CleanedLock, WriterTypeOK
  <2>3. admitted' \in [Process -> Run \cup {None}]
    BY <1>1 DEF Admit, WriterTypeOK
  <2> QED BY <1>1, <2>1, <2>2, <2>3 DEF Admit, WriterTypeOK
<1>2. ASSUME NEW p \in Process, Launch(p) PROVE WriterTypeOK'
  <2>1. admitted[p] \in Run
    BY <1>2 DEF Launch, WriterTypeOK
  <2> QED BY <1>2, <2>1 DEF Launch, StartTask, WriterTypeOK, Status
<1>3. ASSUME NEW p \in Process, NEW r \in Run, Resume(p, r) PROVE WriterTypeOK'
  BY <1>3 DEF Resume, StartTask, WriterTypeOK, Status
<1>4. ASSUME NEW p \in Process, NEW r \in Run, Terminate(p, r) PROVE WriterTypeOK'
  <2>1. status' \in [Run -> Status]
        /\ \A x \in Run : status'[x] # "none" => status[x] # "none"
    BY <1>4 DEF Terminate, WriterTypeOK, Status
  <2>2. lock' \in [run : Run \cup {None}, owner : Process \cup {None}]
    BY <1>4, NoLockTyped DEF Terminate, ClearProjectLock, WriterTypeOK
  <2>3. task' \in [Process -> [Run -> {"none", "created", "running", "ended"}]]
    BY <1>4 DEF Terminate, WriterTypeOK
  <2>4. UNCHANGED <<owner, admitted, phase>>
    BY <1>4 DEF Terminate
  <2> QED BY <2>1, <2>2, <2>3, <2>4 DEF WriterTypeOK
<1>5. ASSUME NEW p \in Process, NEW r \in Run, Begin(p, r) PROVE WriterTypeOK'
  <2>1. PICK l \in {"running", "ended"} : task' = [task EXCEPT ![p][r] = l]
    BY <1>5 DEF Begin, LeaseAnswer
  <2> QED BY <1>5, <2>1 DEF Begin, WriterTypeOK, Status
<1>6. ASSUME NEW p \in Process, NEW r \in Run, TaskEnds(p, r) PROVE WriterTypeOK'
  <2>1. PICK s \in Status : status' = [status EXCEPT ![r] = s]
    BY <1>6 DEF TaskEnds, WriterTypeOK, Status
  <2>4. status[r] # "none"
    BY <1>6 DEF TaskEnds, Known
  <2>2. status' \in [Run -> Status]
        /\ \A x \in Run : status'[x] # "none" => status[x] # "none"
    BY <2>1, <2>4 DEF WriterTypeOK
  <2>3. task' = [task EXCEPT ![p][r] = "ended"] /\ UNCHANGED <<owner, lock, admitted, phase>>
    BY <1>6 DEF TaskEnds
  <2> QED BY <2>2, <2>3 DEF WriterTypeOK
<1>7. ASSUME NEW p \in Process, NEW r \in Run, Finalize(p, r) PROVE WriterTypeOK'
  BY <1>7, NoLockTyped DEF Finalize, ClearProjectLock, WriterTypeOK
<1>8. ASSUME NEW p \in Process, NEW r \in Run, MonitorEnds(p, r) PROVE WriterTypeOK'
  BY <1>8, NoLockTyped DEF MonitorEnds, ClearProjectLock, WriterTypeOK, Status
<1>9. ASSUME NEW p \in Process, ProcessDies(p) PROVE WriterTypeOK'
  BY <1>9 DEF ProcessDies, WriterTypeOK
<1>10. ASSUME NEW p \in Process, Boot(p) PROVE WriterTypeOK'
  <2>1. ToResume(p) \subseteq Run /\ \A r \in ToResume(p) : owner[r] # None
    BY <1>10, StaleHaveAnOwner DEF ToResume, Interrupted, WriterTypeOK
  <2>2. status' \in [Run -> Status]
        /\ \A x \in Run : status'[x] # "none" => owner[x] # None
    <3>1. status' = [r \in Run |-> IF r \in ToResume(p) THEN "active" ELSE Interrupting(StaleRuns)[r]]
          /\ UNCHANGED owner
      BY <1>10 DEF Boot, Interrupted
    <3>2. /\ Interrupting(StaleRuns) \in [Run -> Status]
          /\ \A x \in Run : Interrupting(StaleRuns)[x] # "none" => owner[x] # None
      BY InterruptTyped, StaleHaveAnOwner DEF WriterTypeOK
    <3> HIDE DEF WriterTypeOK
    <3>3. "active" \in Status
      BY DEF Status
    <3> QED BY <2>1, <3>1, <3>2, <3>3
  <2>3. lock' \in [run : Run \cup {None}, owner : Process \cup {None}]
    BY <1>10, <2>1, NoLockTyped DEF Boot, WriterTypeOK
  <2>4. task' \in [Process -> [Run -> {"none", "created", "running", "ended"}]]
    BY <1>10 DEF Boot, WriterTypeOK
  <2> QED BY <1>10, <2>2, <2>3, <2>4 DEF Boot, WriterTypeOK
<1>11. CASE UNCHANGED writerVars
  BY <1>11 DEF writerVars, WriterTypeOK
<1> QED BY <1>1, <1>2, <1>3, <1>4, <1>5, <1>6, <1>7, <1>8, <1>9, <1>10, <1>11 DEF WriterNext

\* No run disappears, and a task is of the run it was started for.
LEMMA KnownStep == ASSUME WriterAssumptions, TypeInv, [WriterNext]_writerVars PROVE Known'
<1> USE DEF WriterAssumptions, TypeInv
<1>1. ASSUME NEW p \in Process, NEW r \in Run, Admit(p, r) PROVE Known'
  BY <1>1, InterruptTyped DEF Admit, Known, StaleRuns
<1>2. ASSUME NEW p \in Process, Launch(p) PROVE Known'
  BY <1>2 DEF Launch, StartTask, WriterTypeOK, Known
<1>3. ASSUME NEW p \in Process, NEW r \in Run, Resume(p, r) PROVE Known'
  BY <1>3 DEF Resume, StartTask, WriterTypeOK, Known
<1>4. ASSUME NEW p \in Process, NEW r \in Run, Terminate(p, r) PROVE Known'
  BY <1>4 DEF Terminate, WriterTypeOK, Known
<1>5. ASSUME NEW p \in Process, NEW r \in Run, Begin(p, r) PROVE Known'
  BY <1>5 DEF Begin, WriterTypeOK, Known
<1>6. ASSUME NEW p \in Process, NEW r \in Run, TaskEnds(p, r) PROVE Known'
  BY <1>6 DEF TaskEnds, WriterTypeOK, Known
<1>7. ASSUME NEW p \in Process, NEW r \in Run, Finalize(p, r) PROVE Known'
  BY <1>7 DEF Finalize, WriterTypeOK, Known
<1>8. ASSUME NEW p \in Process, NEW r \in Run, MonitorEnds(p, r) PROVE Known'
  BY <1>8 DEF MonitorEnds, WriterTypeOK, Known
<1>9. ASSUME NEW p \in Process, ProcessDies(p) PROVE Known'
  BY <1>9 DEF ProcessDies, WriterTypeOK, Known
<1>10. ASSUME NEW p \in Process, Boot(p) PROVE Known'
  <2>1. status' = [r \in Run |-> IF r \in ToResume(p) THEN "active" ELSE Interrupting(StaleRuns)[r]]
    BY <1>10 DEF Boot, Interrupted
  <2>2. \A r \in Run : status[r] # "none" => status'[r] # "none"
    BY <2>1, InterruptTyped DEF StaleRuns
  <2>3. \A q \in Process : \A r \in Run :
          task'[q][r] # "none" => task[q][r] # "none" \/ status'[r] = "active"
    BY <1>10, <2>1 DEF Boot, WriterTypeOK
  <2> QED BY <2>2, <2>3 DEF Known
<1>11. CASE UNCHANGED writerVars
  BY <1>11 DEF writerVars, Known
<1> QED BY <1>1, <1>2, <1>3, <1>4, <1>5, <1>6, <1>7, <1>8, <1>9, <1>10, <1>11 DEF WriterNext

\* Every variable has its type, for any processes and runs and whatever resumes.
THEOREM WriterTypeCorrect == ASSUME WriterAssumptions PROVE WriterSpec => []WriterTypeOK
<1>1. WriterInit => TypeInv
  BY TypeInit
<1>2. TypeInv /\ [WriterNext]_writerVars => TypeInv'
  BY TypeStep, KnownStep DEF TypeInv
<1>3. TypeInv => WriterTypeOK
  BY DEF TypeInv
<1> QED BY <1>1, <1>2, <1>3, PTL DEF WriterSpec

-----------------------------------------------------------------------------
(* What a process that is up knows of the others, and of its own runs.     *)

LEMMA OthersAreDown ==
  ASSUME WriterInv, NEW p \in Process, Up(p), NEW q \in Process, q # p
  PROVE  ~Up(q) /\ admitted[q] = None /\ \A r \in Run : task[q][r] = "none"
BY DEF WriterInv, OnlyUp

LEMMA LiveIsAlone ==
  ASSUME WriterInv, NEW p \in Process, NEW r \in Run, LiveTask(p, r)
  PROVE  /\ Up(p) /\ status[r] = "active"
         /\ \A x \in Run : x # r => ~IsActive(x)
         /\ \A q \in Process : \A x \in Run : LiveTask(q, x) => q = p /\ x = r
<1>1. Up(p)
  BY DEF WriterInv, OnlyUp, LiveTask
<1>2. status[r] = "active" /\ \A x \in Run : x # r => ~IsActive(x)
  BY DEF WriterInv, LiveIsActive, OneActive, IsActive, ActiveRunStatuses
<1>3. ASSUME NEW q \in Process, NEW x \in Run, LiveTask(q, x) PROVE q = p /\ x = r
  <2>1. q = p
    BY <1>1, <1>3, OthersAreDown DEF LiveTask
  <2>2. IsActive(x)
    BY <1>3 DEF WriterInv, LiveIsActive, IsActive, ActiveRunStatuses
  <2> QED BY <1>2, <2>1, <2>2
<1> QED BY <1>1, <1>2, <1>3

\* A request finds no run that is stale: what is active is owned by who serves it.
LEMMA QuietIsTidy ==
  ASSUME OneServer, WriterInv, NEW p \in Process, Quiet(p)
  PROVE  /\ Up(p) /\ admitted[p] = None /\ StaleRuns = {}
         /\ \A r \in Run : IsActive(r) => OwnerIsLive(r)
         /\ \A r \in Run : LiveTask(p, r) => task[p][r] = "running"
<1>1. Up(p) /\ admitted[p] = None /\ \A r \in Run : task[p][r] # "created"
  BY DEF Quiet, OneServer
<1>2. \A r \in Run : IsActive(r) => OwnerIsLive(r)
  BY <1>1 DEF WriterInv, OwnedHere, OwnerIsLive
<1> QED BY <1>1, <1>2 DEF StaleRuns, LiveTask

Rest == OnlyUp /\ LiveIsActive /\ OneActive /\ OwnedHere /\ Admitted /\ NotLeft /\ Holds

-----------------------------------------------------------------------------
(* The steps.                                                              *)

LEMMA AdmitRest ==
  ASSUME OneServer, WriterInv, NEW p \in Process, NEW r \in Run, Admit(p, r)
  PROVE  Rest'
<1>1. /\ Up(p) /\ admitted[p] = None /\ StaleRuns = {} /\ task[p][r] = "none"
      /\ \A x \in Run : IsActive(x) => OwnerIsLive(x)
      /\ UNCHANGED <<owner, task, phase>>
  BY QuietIsTidy DEF Admit
<1>2. status' = status
  BY <1>1 DEF Admit, Interrupting, WriterInv, TypeInv, WriterTypeOK
<1>3. Holds'
  <2> SUFFICES ASSUME NEW q \in Process, NEW x \in Run, task[q][x] = "running"
               PROVE  lock' = [run |-> x, owner |-> q] /\ owner[x] = q
    BY <1>1 DEF Holds
  <2>1. lock = [run |-> x, owner |-> q] /\ owner[x] = q /\ status[x] = "active"
    BY DEF WriterInv, Holds, LiveIsActive, LiveTask
  <2>2. OwnerIsLive(lock.run)
    BY <1>1, <2>1 DEF IsActive, ActiveRunStatuses
  <2>3. lock' = lock
    BY <2>2 DEF Admit, CleanedLock
  <2> QED BY <2>1, <2>3
<1>4. Admitted'
  <2> SUFFICES ASSUME NEW q \in Process, admitted'[q] # None
               PROVE  /\ \A x \in Run : ~LiveTask(q, x)'
                      /\ \A x \in Run : x # admitted'[q] => ~IsActive(x)'
    BY DEF Admitted
  <2>1. q = p /\ admitted'[q] = r /\ ~\E x \in Run : Blocker(x, r)
    BY <1>1, OthersAreDown DEF Admit, WriterInv, TypeInv, WriterTypeOK
  <2>2. \A x \in Run : x # r => ~IsActive(x)
    BY <1>1, <2>1 DEF Blocker
  <2>3. \A x \in Run : ~LiveTask(p, x)
    BY <1>1, <2>2 DEF WriterInv, LiveIsActive, LiveTask, IsActive, ActiveRunStatuses
  <2> QED BY <1>1, <1>2, <2>1, <2>2, <2>3 DEF LiveTask, IsActive
<1>5. OnlyUp'
  <2>1. \A q \in Process : q # p => admitted'[q] = admitted[q]
    BY DEF Admit, WriterInv, TypeInv, WriterTypeOK
  <2> QED BY <1>1, <2>1 DEF WriterInv, OnlyUp, Up
<1>6. LiveIsActive' /\ OneActive' /\ OwnedHere' /\ NotLeft'
  BY <1>1, <1>2 DEF WriterInv, LiveIsActive, LiveTask, OneActive, IsActive, OwnedHere, Up, NotLeft
<1> QED BY <1>3, <1>4, <1>5, <1>6 DEF Rest

\* A task is created for a run while no other run is active.
LEMMA StartedRest ==
  ASSUME OneServer, WriterInv, NEW p \in Process, NEW r \in Run, Up(p),
         \A x \in Run : ~LiveTask(p, x), \A x \in Run : x # r => ~IsActive(x),
         status' = [status EXCEPT ![r] = "active"], StartTask(p, r),
         admitted' = [admitted EXCEPT ![p] = None], UNCHANGED phase
  PROVE  Rest'
<1>1. /\ status'[r] = "active" /\ \A x \in Run : x # r => status'[x] = status[x]
      /\ admitted'[p] = None /\ \A q \in Process : q # p => admitted'[q] = admitted[q]
      /\ task'[p][r] = "created" /\ \A x \in Run : x # r => task'[p][x] = task[p][x]
      /\ \A q \in Process : q # p => task'[q] = task[q]
  BY DEF StartTask, WriterInv, TypeInv, WriterTypeOK
<1>2. \A q \in Process : q # p =>
        ~Up(q) /\ admitted'[q] = None /\ \A x \in Run : task'[q][x] = "none"
  BY <1>1, OthersAreDown
<1>3. \A q \in Process : Up(q)' <=> Up(q)
  BY DEF Up
<1>4. \A q \in Process : \A x \in Run : LiveTask(q, x)' => q = p /\ x = r
  BY <1>1, <1>2 DEF LiveTask
<1>5. \A x \in Run : IsActive(x)' => x = r
  BY <1>1 DEF IsActive
<1>6. OnlyUp'
  BY <1>2, <1>3
  DEF OnlyUp
<1>7. LiveIsActive' /\ OneActive'
  BY <1>1, <1>4, <1>5 DEF LiveIsActive, OneActive
<1>8. OwnedHere'
  BY <1>1, <1>2, <1>3, <1>5 DEF OwnedHere
<1>9. Admitted'
  BY <1>1, <1>2 DEF Admitted
<1>10. NotLeft'
  BY <1>1 DEF WriterInv, NotLeft, OneServer, WriterAssumptions
<1>11. Holds'
  BY <1>1, <1>4 DEF Holds, LiveTask
<1> QED BY <1>6, <1>7, <1>8, <1>9, <1>10, <1>11 DEF Rest

LEMMA LaunchRest ==
  ASSUME OneServer, WriterInv, NEW p \in Process, Launch(p)
  PROVE  Rest'
<1>1. Up(p) /\ admitted[p] \in Run /\ admitted[p] # None
  BY DEF Launch, WriterInv, TypeInv, WriterTypeOK
<1>2. /\ \A x \in Run : ~LiveTask(p, x)
      /\ \A x \in Run : x # admitted[p] => ~IsActive(x)
  BY <1>1 DEF WriterInv, Admitted
<1> QED BY <1>1, <1>2, StartedRest DEF Launch

LEMMA ResumeRest ==
  ASSUME OneServer, WriterInv, NEW p \in Process, NEW r \in Run, Resume(p, r)
  PROVE  Rest'
<1>1. Up(p) /\ admitted[p] = None /\ task[p][r] = "none"
      /\ \A x \in Run : x # r => ~IsActive(x)
  BY QuietIsTidy DEF Resume, OneServer
<1>2. \A x \in Run : ~LiveTask(p, x)
  BY <1>1 DEF WriterInv, LiveIsActive, LiveTask, IsActive, ActiveRunStatuses
<1>3. admitted' = [admitted EXCEPT ![p] = None]
  BY <1>1 DEF Resume, WriterInv, TypeInv, WriterTypeOK
<1> QED BY <1>1, <1>2, <1>3, StartedRest DEF Resume

\* The lock is only cleared when it names a run that nobody executes.
LEMMA ClearedLock ==
  ASSUME WriterInv, NEW p \in Process, NEW x \in Run, task[p][x] = "running",
         NEW r \in Run, r # x
  PROVE  ClearProjectLock(r, lock) = lock
BY DEF WriterInv, Holds, ClearProjectLock

\* A run that is not executed, or is no more, ends or begins to wait.
LEMMA EndedRest ==
  ASSUME OneServer, WriterInv, NEW p \in Process, NEW r \in Run, Up(p), admitted[p] = None,
         NEW s \in {"ended", "waiting_input"}, status' = [status EXCEPT ![r] = s],
         s = "waiting_input" => owner[r] = p /\ IsActive(r),
         task'[p] \in [Run -> {"none", "created", "running", "ended"}],
         \A q \in Process : q # p => task'[q] = task[q],
         \A x \in Run : x # r => task'[p][x] = task[p][x],
         ~(task'[p][r] \in {"created", "running"}),
         lock' = lock \/ lock' = ClearProjectLock(r, lock),
         UNCHANGED <<owner, admitted, phase>>
  PROVE  Rest'
<1>1. status'[r] = s /\ \A x \in Run : x # r => status'[x] = status[x]
  BY DEF WriterInv, TypeInv, WriterTypeOK
<1>2. \A q \in Process : q # p =>
        ~Up(q) /\ admitted[q] = None /\ \A x \in Run : task'[q][x] = "none"
  BY OthersAreDown
<1>3. \A q \in Process : \A x \in Run : LiveTask(q, x)' => q = p /\ x # r /\ LiveTask(p, x)
  BY <1>2 DEF LiveTask
<1>4. \A x \in Run : IsActive(x)' => IsActive(x)
  BY <1>1 DEF IsActive, ActiveRunStatuses
<1>5. OnlyUp'
  BY <1>2 DEF OnlyUp, Up
<1>6. LiveIsActive' /\ OneActive'
  BY <1>1, <1>3, <1>4 DEF WriterInv, LiveIsActive, OneActive
<1>7. OwnedHere'
  <2> SUFFICES ASSUME NEW q \in Process, NEW x \in Run, Up(q), IsActive(x)'
               PROVE  owner[x] = q \/ task'[q][x] = "created"
    BY DEF OwnedHere, Up
  <2>1. q = p
    BY <1>2
  <2>2. CASE x = r
    BY <1>1, <2>1, <2>2 DEF IsActive, ActiveRunStatuses
  <2>3. CASE x # r
    BY <1>4, <2>1, <2>3 DEF WriterInv, OwnedHere
  <2> QED BY <2>2, <2>3
<1>8. Admitted'
  BY <1>2 DEF Admitted
<1>9. NotLeft'
  BY <1>1 DEF WriterInv, NotLeft, OneServer, WriterAssumptions
<1>10. Holds'
  <2> SUFFICES ASSUME NEW q \in Process, NEW x \in Run, task'[q][x] = "running"
               PROVE  lock' = [run |-> x, owner |-> q] /\ owner[x] = q
    BY DEF Holds
  <2>1. q = p /\ x # r /\ task[p][x] = "running"
    BY <1>2
  <2>2. lock' = lock
    BY <2>1, ClearedLock
  <2> QED BY <2>1, <2>2 DEF WriterInv, Holds
<1> QED BY <1>5, <1>6, <1>7, <1>8, <1>9, <1>10 DEF Rest

LEMMA TerminateRest ==
  ASSUME OneServer, WriterInv, NEW p \in Process, NEW r \in Run, Terminate(p, r)
  PROVE  Rest'
<1>1. Up(p) /\ admitted[p] = None /\ (LiveTask(p, r) => task[p][r] = "running")
  BY QuietIsTidy DEF Terminate
<1>2. status' = [status EXCEPT ![r] = "ended"] /\ UNCHANGED <<owner, admitted, phase>>
      /\ (lock' = lock \/ lock' = ClearProjectLock(r, lock))
  BY <1>1 DEF Terminate
<1>3. /\ task'[p] \in [Run -> {"none", "created", "running", "ended"}]
      /\ \A q \in Process : q # p => task'[q] = task[q]
      /\ \A x \in Run : x # r => task'[p][x] = task[p][x]
      /\ ~(task'[p][r] \in {"created", "running"})
  BY DEF Terminate, LiveTask, WriterInv, TypeInv, WriterTypeOK
<1> QED BY <1>1, <1>2, <1>3, EndedRest

LEMMA TaskEndsRest ==
  ASSUME OneServer, WriterInv, NEW p \in Process, NEW r \in Run, TaskEnds(p, r)
  PROVE  Rest'
<1>1. Up(p) /\ admitted[p] = None /\ LiveTask(p, r) /\ task[p][r] = "running"
  BY DEF TaskEnds, LiveTask
<1>2. IsActive(r) /\ owner[r] = p
  BY <1>1 DEF WriterInv, LiveIsActive, Holds, IsActive, ActiveRunStatuses
<1>3. PICK s \in {"ended", "waiting_input"} : status' = [status EXCEPT ![r] = s]
  BY <1>2 DEF TaskEnds
<1>4. UNCHANGED <<owner, lock, admitted, phase>>
  BY DEF TaskEnds
<1>5. /\ task'[p] \in [Run -> {"none", "created", "running", "ended"}]
      /\ \A q \in Process : q # p => task'[q] = task[q]
      /\ \A x \in Run : x # r => task'[p][x] = task[p][x]
      /\ ~(task'[p][r] \in {"created", "running"})
  BY DEF TaskEnds, WriterInv, TypeInv, WriterTypeOK
<1> QED BY <1>1, <1>2, <1>3, <1>4, <1>5, EndedRest

LEMMA MonitorRest ==
  ASSUME OneServer, WriterInv, NEW p \in Process, NEW r \in Run, MonitorEnds(p, r)
  PROVE  Rest'
<1>1. Up(p) /\ admitted[p] = None
  BY QuietIsTidy DEF MonitorEnds
<1>2. status' = [status EXCEPT ![r] = "ended"] /\ UNCHANGED <<owner, task, admitted, phase>>
      /\ lock' = ClearProjectLock(r, lock)
  BY DEF MonitorEnds
<1>3. task[p] \in [Run -> {"none", "created", "running", "ended"}]
      /\ ~(task[p][r] \in {"created", "running"})
  BY DEF MonitorEnds, LiveTask, WriterInv, TypeInv, WriterTypeOK
<1> QED BY <1>1, <1>2, <1>3, EndedRest

LEMMA BeginRest ==
  ASSUME OneServer, WriterInv, NEW p \in Process, NEW r \in Run, Begin(p, r)
  PROVE  Rest'
<1>1. Up(p) /\ admitted[p] = None /\ LiveTask(p, r)
  BY DEF Begin, LiveTask
<1>2. /\ status[r] = "active" /\ \A x \in Run : x # r => ~IsActive(x)
      /\ \A q \in Process : \A x \in Run : LiveTask(q, x) => q = p /\ x = r
  BY <1>1, LiveIsAlone
<1>3. PICK l \in {"running", "ended"} : task' = [task EXCEPT ![p][r] = l]
  BY DEF Begin, LeaseAnswer
<1>4. /\ lock' = [run |-> r, owner |-> p] /\ status' = status
      /\ owner' = [owner EXCEPT ![r] = p] /\ UNCHANGED <<admitted, phase>>
  BY <1>2 DEF Begin, WriterInv, TypeInv, WriterTypeOK
<1>5. /\ task'[p][r] = l /\ \A x \in Run : x # r => task'[p][x] = task[p][x]
      /\ \A q \in Process : q # p => task'[q] = task[q]
      /\ owner'[r] = p
  BY <1>3, <1>4 DEF WriterInv, TypeInv, WriterTypeOK
<1>6. \A q \in Process : \A x \in Run : LiveTask(q, x)' => q = p /\ x = r
  BY <1>2, <1>5 DEF LiveTask
<1>7. \A q \in Process : q # p =>
        ~Up(q) /\ admitted[q] = None /\ \A x \in Run : task'[q][x] = "none"
  BY <1>1, <1>5, OthersAreDown
<1>8. \A x \in Run : IsActive(x)' => x = r
  BY <1>2, <1>4 DEF IsActive
<1>14. \A q \in Process : Up(q)' <=> Up(q)
  BY <1>4 DEF Up
<1>9. OnlyUp'
  BY <1>1, <1>4, <1>7, <1>14 DEF OnlyUp
<1>10. LiveIsActive' /\ OneActive' /\ NotLeft'
  BY <1>2, <1>4, <1>6, <1>8 DEF WriterInv, LiveIsActive, OneActive, NotLeft
<1>11. OwnedHere'
  BY <1>4, <1>5, <1>7, <1>8 DEF OwnedHere, Up
<1>12. Admitted'
  BY <1>1, <1>4, <1>7 DEF Admitted
<1>13. Holds'
  BY <1>4, <1>5, <1>6 DEF Holds, LiveTask
<1> QED BY <1>9, <1>10, <1>11, <1>12, <1>13 DEF Rest

LEMMA FinalizeRest ==
  ASSUME OneServer, WriterInv, NEW p \in Process, NEW r \in Run, Finalize(p, r)
  PROVE  Rest'
<1>1. Up(p) /\ admitted[p] = None /\ task[p][r] = "ended"
      /\ UNCHANGED <<status, owner, admitted, phase>>
      /\ (lock' = lock \/ lock' = ClearProjectLock(r, lock))
  BY DEF Finalize
<1>2. /\ task'[p][r] = "none" /\ \A x \in Run : x # r => task'[p][x] = task[p][x]
      /\ \A q \in Process : q # p => task'[q] = task[q]
  BY DEF Finalize, WriterInv, TypeInv, WriterTypeOK
<1>3. \A q \in Process : \A x \in Run : LiveTask(q, x)' => LiveTask(q, x)
  BY <1>2 DEF LiveTask
<1>4. OnlyUp'
  BY <1>1, <1>2 DEF WriterInv, OnlyUp, Up
<1>5. LiveIsActive' /\ OneActive' /\ NotLeft'
  BY <1>1, <1>3 DEF WriterInv, LiveIsActive, OneActive, IsActive, NotLeft
<1>6. OwnedHere'
  BY <1>1, <1>2 DEF WriterInv, OwnedHere, IsActive, Up
<1>7. Admitted'
  BY <1>1, <1>3 DEF WriterInv, Admitted, IsActive
<1>8. Holds'
  <2> SUFFICES ASSUME NEW q \in Process, NEW x \in Run, task'[q][x] = "running"
               PROVE  lock' = [run |-> x, owner |-> q] /\ owner[x] = q
    BY <1>1 DEF Holds
  <2>1. q = p /\ x # r /\ task[p][x] = "running"
    BY <1>1, <1>2, OthersAreDown
  <2>2. lock' = lock
    BY <1>1, <2>1, ClearedLock
  <2> QED BY <2>1, <2>2 DEF WriterInv, Holds
<1> QED BY <1>4, <1>5, <1>6, <1>7, <1>8 DEF Rest

LEMMA CrashRest ==
  ASSUME OneServer, WriterInv, NEW p \in Process, ProcessDies(p)
  PROVE  Rest'
<1>1. Up(p) /\ UNCHANGED <<status, owner, lock>>
  BY DEF ProcessDies
<1>2. \A q \in Process :
        ~Up(q)' /\ admitted'[q] = None /\ \A x \in Run : task'[q][x] = "none"
  <2> SUFFICES ASSUME NEW q \in Process
               PROVE  phase'[q] # "up" /\ admitted'[q] = None
                      /\ \A x \in Run : task'[q][x] = "none"
    BY DEF Up
  <2>1. CASE q = p
    BY <2>1 DEF ProcessDies, WriterInv, TypeInv, WriterTypeOK
  <2>2. CASE q # p
    BY <1>1, <2>2, OthersAreDown DEF ProcessDies, WriterInv, TypeInv, WriterTypeOK, Up
  <2> QED BY <2>1, <2>2
<1>3. OnlyUp' /\ OwnedHere' /\ Admitted'
  BY <1>2 DEF OnlyUp, OwnedHere, Admitted
<1>4. LiveIsActive' /\ Holds'
  BY <1>2 DEF LiveIsActive, LiveTask, Holds
<1>5. OneActive' /\ NotLeft'
  BY <1>1 DEF WriterInv, OneActive, IsActive, NotLeft
<1> QED BY <1>3, <1>4, <1>5 DEF Rest

\* A start resumes the one unattended run that was active, if there was one.
LEMMA BootRest ==
  ASSUME OneServer, WriterInv, NEW p \in Process, Boot(p)
  PROVE  Rest'
<1>1. \A q \in Process : ~Up(q)
  <2>1. IsFiniteSet({q \in Process : Up(q)})
    BY FS_Subset DEF OneServer
  <2>2. Cardinality({q \in Process : Up(q)}) = 0
    BY <2>1, FS_CardinalityType DEF Boot, OneServer
  <2> QED BY <2>1, <2>2, FS_EmptySet
<1>2. StaleRuns = {r \in Run : IsActive(r)}
  <2>1. \A r \in Run : IsActive(r) => owner[r] \in Process
    BY DEF WriterInv, TypeInv, WriterTypeOK, IsActive, ActiveRunStatuses
  <2> QED BY <1>1, <2>1 DEF StaleRuns, OwnerIsLive
<1>3. ToResume(p) = {r \in Unattended : IsActive(r)}
  BY <1>2 DEF ToResume, Interrupted, OneServer, WriterAssumptions, WriterInv, NotLeft
<1>4. \A r \in Run : status'[r] =
        IF r \in ToResume(p) THEN "active"
        ELSE IF IsActive(r) THEN "interrupted" ELSE status[r]
  BY <1>2 DEF Boot, Interrupted, Interrupting
<1>5. \A r \in Run : IsActive(r)' => r \in ToResume(p) /\ IsActive(r)
  BY <1>3, <1>4 DEF IsActive, ActiveRunStatuses
<1>6. /\ \A q \in Process : q # p => task'[q] = task[q]
      /\ \A r \in Run : task'[p][r] = IF r \in ToResume(p) THEN "created" ELSE "none"
      /\ \A q \in Process : Up(q)' <=> q = p
      /\ UNCHANGED <<owner, admitted>>
  BY <1>1 DEF Boot, Up, WriterInv, TypeInv, WriterTypeOK
<1>7. \A q \in Process : admitted[q] = None /\ \A r \in Run : task[q][r] = "none"
  BY <1>1 DEF WriterInv, OnlyUp
<1>8. OnlyUp' /\ Admitted'
  BY <1>6, <1>7 DEF OnlyUp, Admitted
<1>9. LiveIsActive' /\ Holds'
  BY <1>4, <1>6, <1>7 DEF LiveIsActive, LiveTask, Holds
<1>10. OneActive' /\ OwnedHere'
  BY <1>5, <1>6 DEF WriterInv, OneActive, OwnedHere
<1>11. NotLeft'
  BY <1>3, <1>4 DEF WriterInv, NotLeft, OneServer, WriterAssumptions
<1> QED BY <1>8, <1>9, <1>10, <1>11 DEF Rest

-----------------------------------------------------------------------------
LEMMA InvInit == ASSUME OneServer, WriterInit PROVE WriterInv
<1>1. TypeInv
  BY TypeInit DEF OneServer
<1>2. /\ \A p \in Process : ~Up(p) /\ admitted[p] = None
      /\ \A p \in Process : \A r \in Run : task[p][r] = "none"
      /\ \A r \in Run : status[r] = "none"
  BY DEF WriterInit, Up
<1>3. OnlyUp /\ OwnedHere /\ Admitted
  BY <1>2 DEF OnlyUp, OwnedHere, Admitted
<1>4. LiveIsActive /\ Holds
  BY <1>2 DEF LiveIsActive, LiveTask, Holds
<1>5. OneActive /\ NotLeft
  BY <1>2 DEF OneActive, IsActive, ActiveRunStatuses, NotLeft, OneServer, WriterAssumptions
<1> QED BY <1>1, <1>3, <1>4, <1>5 DEF WriterInv

LEMMA WriterStep == ASSUME OneServer, WriterInv, [WriterNext]_writerVars PROVE WriterInv'
<1>1. TypeInv'
  BY TypeStep, KnownStep DEF OneServer, WriterInv, TypeInv
<1>2. ASSUME UNCHANGED writerVars PROVE Rest'
  BY <1>2 DEF writerVars, WriterInv, Rest, OnlyUp, Up, LiveIsActive, LiveTask, OneActive, IsActive,
              OwnedHere, Admitted, NotLeft, Holds
<1>3. ASSUME NEW p \in Process, Launch(p) \/ ProcessDies(p) \/ Boot(p) PROVE Rest'
  BY <1>3, LaunchRest, CrashRest, BootRest
<1>4. ASSUME NEW p \in Process, NEW r \in Run,
             Admit(p, r) \/ Resume(p, r) \/ Terminate(p, r) PROVE Rest'
  BY <1>4, AdmitRest, ResumeRest, TerminateRest
<1>5. ASSUME NEW p \in Process, NEW r \in Run,
             Begin(p, r) \/ TaskEnds(p, r) \/ Finalize(p, r) \/ MonitorEnds(p, r) PROVE Rest'
  BY <1>5, BeginRest, TaskEndsRest, FinalizeRest, MonitorRest
<1>6. Rest'
  BY <1>2, <1>3, <1>4, <1>5 DEF WriterNext
<1> QED BY <1>1, <1>6 DEF WriterInv, Rest

LEMMA WriterAlways == ASSUME OneServer PROVE WriterSpec => []WriterInv
<1>1. WriterInit => WriterInv
  BY InvInit
<1>2. WriterInv /\ [WriterNext]_writerVars => WriterInv'
  BY WriterStep
<1> QED BY <1>1, <1>2, PTL DEF WriterSpec

\* No two tasks execute runs of the project at the same time.
THEOREM OneWriter == ASSUME OneServer PROVE WriterSpec => []OneWriterPerProject
<1>1. WriterInv => OneWriterPerProject
  <2> SUFFICES ASSUME WriterInv, NEW v \in Writers, NEW w \in Writers PROVE v = w
    BY DEF OneWriterPerProject
  <2>1. /\ v \in Process \X Run /\ w \in Process \X Run
        /\ LiveTask(v[1], v[2]) /\ LiveTask(w[1], w[2])
    BY DEF Writers, LiveTask
  <2>2. v[1] = w[1] /\ v[2] = w[2]
    BY <2>1, LiveIsAlone
  <2> QED BY <2>1, <2>2
<1> QED BY <1>1, WriterAlways, PTL

\* Whoever executes a run holds the lock, and the record says so.
THEOREM WritersHoldTheLock == ASSUME OneServer PROVE WriterSpec => []WriterHoldsLock
<1>1. WriterInv => WriterHoldsLock
  BY DEF WriterInv, Holds, LiveIsActive, LiveTask, WriterHoldsLock, Writers
<1> QED BY <1>1, WriterAlways, PTL

\* One run is executed at a time, and its task holds the lock: what the run shared
\* checks, for any number of runs and processes.
THEOREM TheWriterHoldsTheLock == ASSUME OneServer PROVE WriterSpec => []OneWriterHoldsLock
<1>1. OneWriterPerProject /\ WriterHoldsLock => OneWriterHoldsLock
  BY DEF OneWriterHoldsLock
<1> QED BY <1>1, OneWriter, WritersHoldTheLock, PTL

-----------------------------------------------------------------------------
(* The processes of the agents.                                            *)

AtWork == {"up", "closing"}
Registry == [Key -> Agent \cup {NoAgent}]
Reaping == (SUBSET Agent) \cup {NotReaping}

\* One server at a time; only servers start, close and reap.
ControllersAre ==
  /\ \A c, d \in Server : Live(c) /\ Live(d) => c = d
  /\ \A c \in Parent : life[c] \in {"booting", "closing"} => c \in Server
  /\ \A c \in Parent : life[c] \notin {"booting", "up"} \/ c \notin Server => reap[c] = NotReaping

\* An open call has a controller at work; one is lost with its controller.
CallsAre ==
  \A a \in Agent :
    /\ call[a] = "none" <=> os[a] = "none"
    /\ call[a] # "none" => by[a] \in Parent /\ life[by[a]] # "off"
    /\ call[a] \in Open => life[by[a]] \in AtWork
    /\ call[a] = "lost" => life[by[a]] = "gone"

\* The id of a process that is up is nobody else's.
PidsAre ==
  \A a \in Agent : os[a] = "up" =>
    pid[a] \in Pid \ stranger /\ \A b \in Agent : os[b] = "up" /\ pid[b] = pid[a] => b = a

\* Every table names, under the key of a run, an agent of that run that was
\* started; the handles of a controller are its open calls.
RecordsAre ==
  \A k \in Key :
    /\ registryFile[k] # NoAgent => KeyOf[registryFile[k]] = k /\ call[registryFile[k]] # "none"
    /\ \A c \in Parent :
         /\ records[c][k] # NoAgent => KeyOf[records[c][k]] = k /\ call[records[c][k]] # "none"
         /\ handle[c][k] # NoAgent => /\ KeyOf[handle[c][k]] = k /\ by[handle[c][k]] = c
                                      /\ call[handle[c][k]] \in Open

\* Whom a reaper is about to end has lost its controller.
ReapedAre ==
  \A c \in Parent : reap[c] # NotReaping => \A a \in reap[c] :
    call[a] # "none" /\ life[by[a]] = "gone"

\* Its id is nobody else's, even if it is dead by now, unless it was given away
\* since the reaper looked.
IdsAreTheirs ==
  \A c \in Parent : reap[c] # NotReaping => \A a \in reap[c] : pid[a] \notin late =>
    pid[a] \notin stranger /\ \A b \in Agent : os[b] = "up" /\ pid[b] = pid[a] => b = a

\* The inductive invariant of any system, disturbed or not.
ProcInv == ProcessTypeOK /\ ControllersAre /\ CallsAre /\ PidsAre /\ RecordsAre /\ ReapedAre

Ours == Open \cup {"lost"}

\* As long as nothing disturbs the registry: an open call is in the handles of its
\* controller, and an agent that runs in every table, on disk and in memory.
Handled == \A a \in Agent : call[a] \in Open => handle[by[a]][KeyOf[a]] = a
Recognised ==
  \A a \in Agent : call[a] \in Ours /\ os[a] = "up" =>
    registryFile[KeyOf[a]] = a /\ \A c \in Server : Live(c) => records[c][KeyOf[a]] = a
EntriesAreOurs ==
  \A k \in Key :
    /\ registryFile[k] # NoAgent => call[registryFile[k]] \in Ours
    /\ \A c \in Server : Live(c) /\ records[c][k] # NoAgent => call[records[c][k]] \in Ours

\* A server at work has no orphans, and one that starts reaps those there are.
OrphansAreReaped ==
  \A c \in Server :
    /\ life[c] \in AtWork => /\ reap[c] \in {NotReaping, {}}
                             /\ \A a \in Agent : call[a] = "lost" => os[a] # "up"
    /\ life[c] = "booting" /\ reap[c] # NotReaping =>
         /\ \A a \in Agent : call[a] = "lost" /\ os[a] = "up" => a \in reap[c]
         /\ \A a \in reap[c] : records[c][KeyOf[a]] = a

Kept == ~TwoOfARun /\ Handled /\ Recognised /\ EntriesAreOurs /\ OrphansAreReaped
KeptInv == Undisturbed => Kept

\* Every agent is registered under a key.
LEMMA KeysAre == \A a \in Agent : KeyOf[a] \in Key
BY DEF Key

\* What the end of a call does to the registry: it only takes out its own agent.
LEMMA FinishIs ==
  ASSUME {handle, records} \subseteq [Parent -> Registry], registryFile \in Registry,
         NEW a \in Agent, by[a] \in Parent, Unregister(by[a], a)
  PROVE  /\ {handle', records'} \subseteq [Parent -> Registry] /\ registryFile' \in Registry
         /\ \A c \in Parent, k \in Key :
              /\ handle'[c][k] \in {handle[c][k], NoAgent} /\ records'[c][k] \in {records[c][k], NoAgent}
              /\ c # by[a] \/ k # KeyOf[a] =>
                   handle'[c][k] = handle[c][k] /\ records'[c][k] = records[c][k]
         /\ \A k \in Key : registryFile'[k] \in {registryFile[k], records'[by[a]][k]}
         /\ handle'[by[a]][KeyOf[a]] # a \/ a = NoAgent
         /\ handle[by[a]][KeyOf[a]] = a =>
              registryFile' = records'[by[a]] /\ records'[by[a]][KeyOf[a]] = NoAgent
<1>1. CASE handle[by[a]][KeyOf[a]] = a
  <2>1. /\ handle' = [handle EXCEPT ![by[a]][KeyOf[a]] = NoAgent]
        /\ records' = [records EXCEPT ![by[a]] = [records[by[a]] EXCEPT ![KeyOf[a]] = NoAgent]]
        /\ registryFile' = [records[by[a]] EXCEPT ![KeyOf[a]] = NoAgent]
    BY <1>1 DEF Unregister, PersistRecords
  <2>2. [records[by[a]] EXCEPT ![KeyOf[a]] = NoAgent] \in Registry
    BY DEF Registry
  <2>3. /\ handle' \in [Parent -> Registry] /\ records' \in [Parent -> Registry]
        /\ registryFile' \in Registry
    BY <2>1, <2>2 DEF Registry
  <2>4. records'[by[a]] = registryFile'
    BY <2>1
  <2> QED BY <1>1, <2>1, <2>3, <2>4, KeysAre DEF Registry
<1>2. CASE handle[by[a]][KeyOf[a]] # a
  <2>1. UNCHANGED registryVars
    BY <1>2 DEF Unregister
  <2> QED BY <1>2, <2>1, KeysAre DEF registryVars
<1> QED BY <1>1, <1>2

\* The orphans of a controller, and its records without the stale ones.
LEMMA ReapIs ==
  ASSUME records \in [Parent -> Registry], NEW c \in Parent
  PROVE  /\ Recorded(c) \subseteq Agent
         /\ Orphans(c) = {a \in Recorded(c) : os[a] = "up" /\ ~swapped[a] /\ PidAlive(pid[a]) /\ ~Live(by[a])}
         /\ Without(records[c], Stale(c)) \in Registry
         /\ \A a \in Recorded(c) : \E k \in Key : records[c][k] = a
         /\ \A k \in Key : records[c][k] # NoAgent => records[c][k] \in Recorded(c)
         /\ \A a \in Stale(c) : ~(os[a] = "up" /\ ~swapped[a])
         /\ \A k \in Key :
              LET left == Without(records[c], Stale(c))[k] IN
              /\ left \in {records[c][k], NoAgent}
              /\ records[c][k] # NoAgent => left = records[c][k] \/ records[c][k] \in Stale(c)
<1>1. Recorded(c) \subseteq Agent
  BY DEF Recorded, Registry
<1>2. Orphans(c) = {a \in Recorded(c) : os[a] = "up" /\ ~swapped[a] /\ PidAlive(pid[a]) /\ ~Live(by[a])}
  BY DEF Orphans, Stale, IdentityMatches
<1>3. \A k \in Key : /\ records[c][k] \in Agent \cup {NoAgent}
                     /\ Without(records[c], Stale(c))[k] = IF records[c][k] \in Stale(c) THEN NoAgent ELSE records[c][k]
  BY DEF Registry, Without
<1>4. Without(records[c], Stale(c)) \in Registry
  BY <1>3 DEF Without, Registry
<1>5. /\ \A a \in Recorded(c) : \E k \in Key : records[c][k] = a
      /\ \A k \in Key : records[c][k] # NoAgent => records[c][k] \in Recorded(c)
  BY DEF Recorded
<1>6. \A a \in Stale(c) : ~(os[a] = "up" /\ ~swapped[a])
  BY <1>1 DEF Stale, IdentityMatches, PidAlive
<1> QED BY <1>1, <1>2, <1>3, <1>4, <1>5, <1>6

\* Every step keeps the invariant.
LEMMA ProcInvStep ==
  ASSUME ProcessAssumptions, ProcInv, Moves, crowded' \in BOOLEAN, late' \subseteq Pid PROVE ProcInv'
<1> USE KeysAre DEF ProcessAssumptions, Live, Open, AtWork, osVars, Parent, Registry
<1>0. Empty \in Registry /\ \A k \in Key : Empty[k] = NoAgent
  BY DEF Empty
<1>1. /\ ProcessTypeOK /\ ControllersAre /\ CallsAre /\ PidsAre /\ RecordsAre /\ ReapedAre
      /\ {handle, records} \subseteq [Parent -> Registry] /\ registryFile \in Registry
      /\ reap \in [Parent -> Reaping]
  BY DEF ProcInv, ProcessTypeOK, Reaping
<1>t. /\ os \in [Agent -> {"none", "up", "dead"}] /\ pid \in [Agent -> Pid \cup {0}]
      /\ call \in [Agent -> {"none", "done", "lost"} \cup Open]
      /\ {kids, swapped, stopped} \subseteq [Agent -> BOOLEAN]
  BY <1>1 DEF ProcessTypeOK
<1>a. NotReaping \in Reaping /\ \A A \in SUBSET Agent : A \in Reaping
  BY DEF Reaping
<1>c. ASSUME NEW A \in Reaping PROVE A \in SUBSET Agent \/ A = NotReaping
  BY <1>c, Zenon DEF Reaping
<1>b. \A d \in Parent : reap[d] # NotReaping => \A o \in reap[d] : o \in Agent
  BY <1>1, <1>c
<1>2. ASSUME NEW c \in Parent, BootController(c) PROVE ProcInv'
  <2>1. ProcessTypeOK'
    BY <1>1, <1>2 DEF ProcessTypeOK, CallsAre, RecordsAre, BootController
  <2>2. ControllersAre' /\ CallsAre'
    BY <1>1, <1>2 DEF ControllersAre, CallsAre, BootController
  <2>3. PidsAre' /\ ReapedAre'
    BY <1>1, <1>2 DEF PidsAre, ReapedAre, BootController
  <2>4. RecordsAre'
    BY <1>1, <1>2 DEF ProcessTypeOK, RecordsAre, CallsAre, BootController
  <2> QED BY <2>1, <2>2, <2>3, <2>4 DEF ProcInv
<1>3. ASSUME NEW c \in Parent, ShutdownBegins(c) PROVE ProcInv'
  <2>1. ProcessTypeOK'
    BY <1>1, <1>3 DEF ProcessTypeOK, ShutdownBegins, registryVars
  <2>2. ControllersAre' /\ CallsAre'
    BY <1>1, <1>3 DEF ControllersAre, CallsAre, ShutdownBegins, CallsOf
  <2>3. PidsAre' /\ ReapedAre'
    BY <1>1, <1>3 DEF PidsAre, ReapedAre, ShutdownBegins
  <2>4. RecordsAre'
    BY <1>1, <1>3 DEF RecordsAre, ShutdownBegins, registryVars
  <2> QED BY <2>1, <2>2, <2>3, <2>4 DEF ProcInv
<1>4. ASSUME NEW c \in Parent, NEW a \in Agent, ReapKill(c, a) PROVE ProcInv'
  <2>0. /\ reap[c] # NotReaping /\ reap' = [reap EXCEPT ![c] = @ \ {a}]
        /\ stranger' \subseteq stranger
        /\ records' = records \/ records' = [records EXCEPT ![c][KeyOf[a]] = NoAgent]
        /\ UNCHANGED <<life, call, by, kids, pid, swapped, stopped, handle, registryFile>>
    BY <1>4 DEF ReapKill
  <2>1. ProcessTypeOK'
    <3>1. os' \in [Agent -> {"none", "up", "dead"}]
      BY <1>t, <1>4 DEF ReapKill
    <3>2. reap' \in [Parent -> Reaping]
      <4>1. reap[c] \in SUBSET Agent
        BY <1>1, <1>c, <2>0
      <4> QED BY <1>1, <1>a, <2>0, <4>1
    <3>3. {handle', records'} \subseteq [Parent -> Registry]
      <4>1. [records[c] EXCEPT ![KeyOf[a]] = NoAgent] \in Registry
        BY <1>1
      <4>2. records' = records \/ records' = [records EXCEPT ![c] = [records[c] EXCEPT ![KeyOf[a]] = NoAgent]]
        BY <2>0
      <4>3. records \in [Parent -> Registry] /\ handle' \in [Parent -> Registry]
        BY <1>1, <2>0
      <4>4. records' \in [Parent -> Registry]
        BY <4>1, <4>2, <4>3
      <4> QED BY <4>3, <4>4
    <3>4. /\ life' \in [Parent -> {"off", "booting", "up", "closing", "gone"}]
          /\ by' \in [Agent -> Parent \cup {NoAgent}] /\ stranger' \subseteq Pid
          /\ kids' \in [Agent -> BOOLEAN] /\ swapped' \in [Agent -> BOOLEAN]
          /\ stopped' \in [Agent -> BOOLEAN] /\ pid' \in [Agent -> Pid \cup {0}]
          /\ call' \in [Agent -> {"none", "done", "lost"} \cup Open]
          /\ registryFile' \in Registry
      BY <1>1, <2>0 DEF ProcessTypeOK
    <3> QED BY <3>1, <3>2, <3>3, <3>4 DEF ProcessTypeOK, Reaping
  <2>2. ControllersAre' /\ CallsAre'
    BY <1>1, <1>4 DEF ControllersAre, CallsAre, ReapedAre, ReapKill
  <2>3. PidsAre' /\ ReapedAre'
    BY <1>1, <1>4 DEF PidsAre, ReapedAre, ReapKill
  <2>4. RecordsAre'
    BY <1>1, <1>4 DEF ProcessTypeOK, RecordsAre, CallsAre, ReapKill
  <2> QED BY <2>1, <2>2, <2>3, <2>4 DEF ProcInv
<1>5. ASSUME NEW c \in Parent, NEW k \in Key, TerminateRun(c, k) PROVE ProcInv'
  <2>1. ProcessTypeOK'
    BY <1>1, <1>5 DEF ProcessTypeOK, TerminateRun, Same, registryVars
  <2>2. ControllersAre' /\ CallsAre'
    BY <1>1, <1>5 DEF ControllersAre, CallsAre, TerminateRun, Same
  <2>3. PidsAre' /\ ReapedAre'
    BY <1>1, <1>5 DEF PidsAre, ReapedAre, TerminateRun, Same
  <2>4. RecordsAre'
    BY <1>1, <1>5 DEF RecordsAre, TerminateRun, Same, registryVars
  <2> QED BY <2>1, <2>2, <2>3, <2>4 DEF ProcInv
<1>6. ASSUME NEW a \in Agent, Feed(a) PROVE ProcInv'
  <2>1. ProcessTypeOK'
    BY <1>1, <1>6 DEF ProcessTypeOK, Feed, Same, GoOn, registryVars
  <2>2. ControllersAre' /\ CallsAre'
    BY <1>1, <1>6 DEF ControllersAre, CallsAre, Feed, Same, GoOn
  <2>3. PidsAre' /\ ReapedAre'
    BY <1>1, <1>6 DEF PidsAre, ReapedAre, Feed, Same, GoOn
  <2>4. RecordsAre'
    BY <1>1, <1>6 DEF RecordsAre, Feed, Same, GoOn, registryVars
  <2> QED BY <2>1, <2>2, <2>3, <2>4 DEF ProcInv
<1>7. ASSUME NEW c \in Parent, ReapEnds(c) PROVE ProcInv'
  <2>1. records[c] \in Registry /\ records' = records /\ registryFile' = records[c]
    BY <1>1, <1>7 DEF ReapEnds, PersistRecords
  <2>2. /\ UNCHANGED <<call, by, handle, stopped, os, kids, pid, swapped, stranger>>
        /\ life' = [life EXCEPT ![c] = "up"] /\ reap' = [reap EXCEPT ![c] = NotReaping]
        /\ life[c] \in {"booting", "up"}
    BY <1>7 DEF ReapEnds
  <2>3. ProcessTypeOK'
    <3>1. reap' \in [Parent -> Reaping]
      BY <1>1, <1>a, <2>2
    <3> QED BY <1>1, <2>1, <2>2, <3>1 DEF ProcessTypeOK, Reaping
  <2>4. ControllersAre' /\ CallsAre'
    BY <1>1, <2>2 DEF ProcessTypeOK, ControllersAre, CallsAre
  <2>5. PidsAre' /\ ReapedAre'
    BY <1>1, <2>2 DEF ProcessTypeOK, PidsAre, ReapedAre
  <2>6. RecordsAre'
    BY <1>1, <2>1, <2>2 DEF RecordsAre
  <2> QED BY <2>3, <2>4, <2>5, <2>6 DEF ProcInv
<1>8. ASSUME NEW c \in Parent, NEW a \in Agent, Spawn(c, a) PROVE ProcInv'
  <2>1. PICK p \in FreePid : pid' = [pid EXCEPT ![a] = p]
    BY <1>8 DEF Spawn
  <2>2. /\ UNCHANGED <<life, kids, swapped, stopped, stranger, reap>>
        /\ life[c] = "up" /\ call[a] = "none"
        /\ os' = [os EXCEPT ![a] = "up"] /\ by' = [by EXCEPT ![a] = c]
        /\ call' = [call EXCEPT ![a] = "feeding"]
        /\ handle' = [handle EXCEPT ![c][KeyOf[a]] = a]
        /\ registryFile' = [records[c] EXCEPT ![KeyOf[a]] = a]
        /\ records' = [records EXCEPT ![c] = registryFile']
    BY <1>8 DEF Spawn, Register, PersistRecords
  <2>3. /\ p \in Pid /\ p \notin stranger /\ \A b \in Agent : ~(os[b] = "up" /\ pid[b] = p)
    BY DEF FreePid, PidAlive
  <2>4. ProcessTypeOK'
    BY <1>1, <2>1, <2>2, <2>3 DEF ProcessTypeOK
  <2>5. ControllersAre' /\ CallsAre'
    BY <1>1, <2>2 DEF ProcessTypeOK, ControllersAre, CallsAre
  <2>6. PidsAre'
    BY <1>1, <2>1, <2>2, <2>3 DEF ProcessTypeOK, PidsAre
  <2>7. ReapedAre'
    <3> SUFFICES ASSUME NEW d \in Parent, reap[d] # NotReaping, NEW o \in reap[d]
                 PROVE  call'[o] # "none" /\ life'[by'[o]] = "gone"
      BY <2>2 DEF ReapedAre
    <3>1. o \in Agent /\ o # a
      BY <1>1, <1>b, <2>2 DEF ReapedAre
    <3> QED BY <1>1, <2>2, <3>1 DEF ProcessTypeOK, ReapedAre
  <2>8. RecordsAre'
    BY <1>1, <2>2 DEF ProcessTypeOK, RecordsAre
  <2> QED BY <2>4, <2>5, <2>6, <2>7, <2>8 DEF ProcInv
<1>9. ASSUME NEW c \in Parent, ControllerDies(c) \/ ShutdownEnds(c) PROVE ProcInv'
  <2>1. call' = Dropped(c)
    BY <1>9 DEF ControllerDies, ShutdownEnds
  <2>2. /\ call' \in [Agent -> {"none", "done", "lost"} \cup Open]
        /\ \A a \in Agent : call'[a] = IF by[a] = c /\ call[a] \in Open THEN "lost" ELSE call[a]
    BY <1>1, <2>1 DEF ProcessTypeOK, Dropped, CallsOf
  <2>3. /\ life' = [life EXCEPT ![c] = "gone"] /\ life[c] \notin {"off", "gone"}
        /\ handle' = [handle EXCEPT ![c] = Empty]
        /\ UNCHANGED <<by, stopped, pid, swapped, stranger>>
    BY <1>9 DEF ControllerDies, ShutdownEnds
  <2>4. reap' = [reap EXCEPT ![c] = NotReaping] \/ (reap' = reap /\ life[c] = "closing")
    BY <1>9 DEF ControllerDies, ShutdownEnds
  <2>5. /\ os' \in [Agent -> {"none", "up", "dead"}] /\ kids' \in [Agent -> BOOLEAN]
        /\ \A a \in Agent : os'[a] = os[a] \/ (os[a] = "up" /\ os'[a] = "dead")
    <3>1. CASE ControllerDies(c)
      BY <1>t, <3>1 DEF ControllerDies
    <3>2. CASE ShutdownEnds(c)
      BY <1>t, <3>2 DEF ShutdownEnds
    <3> QED BY <1>9, <3>1, <3>2
  <2>6. \/ UNCHANGED <<records, registryFile>>
        \/ records' = [records EXCEPT ![c] = Empty] /\ registryFile' = Empty
    BY <1>9 DEF ControllerDies, ShutdownEnds, PersistRecords
  <2>7. ProcessTypeOK'
    <3>1. /\ reap' \in [Parent -> Reaping] /\ {handle', records'} \subseteq [Parent -> Registry]
          /\ registryFile' \in Registry
      <4>1. reap' \in [Parent -> Reaping]
        BY <1>1, <1>a, <2>4
      <4>2. handle' \in [Parent -> Registry]
        BY <1>0, <1>1, <2>3
      <4>3. records' \in [Parent -> Registry] /\ registryFile' \in Registry
        BY <1>0, <1>1, <2>6
      <4> QED BY <4>1, <4>2, <4>3
    <3>2. /\ life' \in [Parent -> {"off", "booting", "up", "closing", "gone"}]
          /\ by' \in [Agent -> Parent \cup {NoAgent}] /\ stranger' \subseteq Pid
          /\ swapped' \in [Agent -> BOOLEAN] /\ stopped' \in [Agent -> BOOLEAN]
          /\ pid' \in [Agent -> Pid \cup {0}]
      BY <1>1, <2>3 DEF ProcessTypeOK
    <3> QED BY <2>2, <2>5, <3>1, <3>2 DEF ProcessTypeOK, Reaping
  <2>8. ControllersAre' /\ CallsAre'
    BY <1>1, <2>2, <2>3, <2>4, <2>5 DEF ProcessTypeOK, ControllersAre, CallsAre
  <2>9. PidsAre'
    BY <1>1, <2>3, <2>5 DEF PidsAre
  <2>10. ReapedAre'
    <3>1. \A d \in Parent : reap'[d] # NotReaping => reap'[d] = reap[d]
      BY <1>1, <2>4
    <3> QED BY <1>1, <1>b, <2>2, <2>3, <2>5, <3>1 DEF ProcessTypeOK, ReapedAre, CallsAre
  <2>11. RecordsAre'
    BY <1>0, <1>1, <2>2, <2>3, <2>6 DEF ProcessTypeOK, RecordsAre
  <2> QED BY <2>7, <2>8, <2>9, <2>10, <2>11 DEF ProcInv
<1>11. ASSUME NEW c \in Parent, ReapBegins(c) PROVE ProcInv'
  <2>1. /\ Orphans(c) \subseteq Agent
        /\ \A a \in Orphans(c) : os[a] = "up" /\ ~Live(by[a])
    BY <1>1, ReapIs
  <2>2. /\ records' \in [Parent -> Registry] /\ registryFile' \in Registry
        /\ \A d \in Parent, k \in Key : records'[d][k] \in {records[d][k], NoAgent}
        /\ \A k \in Key : registryFile'[k] \in {registryFile[k], records[c][k], NoAgent}
    <3>1. CASE UNCHANGED <<records, registryFile>>
      BY <1>1, <3>1
    <3>2. CASE PersistRecords(c, Without(records[c], Stale(c)))
      BY <1>1, <3>2, ReapIs DEF PersistRecords
    <3> QED BY <1>11, <3>1, <3>2 DEF ReapBegins
  <2>3. UNCHANGED <<life, call, by, handle, stopped, os, kids, pid, swapped, stranger>>
        /\ reap' = [reap EXCEPT ![c] = Orphans(c)] /\ c \in Server /\ life[c] \in {"booting", "up"}
    BY <1>11 DEF ReapBegins
  <2>4. ProcessTypeOK'
    BY <1>1, <2>1, <2>2, <2>3 DEF ProcessTypeOK
  <2>5. ControllersAre' /\ CallsAre' /\ PidsAre'
    BY <1>1, <2>3 DEF ProcessTypeOK, ControllersAre, CallsAre, PidsAre
  <2>6. ReapedAre'
    BY <1>1, <2>1, <2>3 DEF ProcessTypeOK, ReapedAre, CallsAre, PidsAre
  <2>7. RecordsAre'
    BY <1>1, <2>2, <2>3 DEF RecordsAre
  <2> QED BY <2>4, <2>5, <2>6, <2>7 DEF ProcInv
<1>12. ASSUME NEW a \in Agent, GivesUp(a) \/ Cancel(a) \/ Kill(a) \/ Ends(a) PROVE ProcInv'
  <2>1. /\ call[a] \in Open /\ by[a] \in Parent
        /\ UNCHANGED <<life, by, reap, pid, swapped, stranger>>
        /\ stopped' = stopped \/ stopped' = [stopped EXCEPT ![a] = TRUE]
        /\ kids' = kids \/ \E b \in BOOLEAN : kids' = [kids EXCEPT ![a] = b]
        /\ os' = os \/ os' = [os EXCEPT ![a] = "dead"]
    <3>1. CASE GivesUp(a)
      BY <1>1, <3>1 DEF CallsAre, GivesUp, TerminateTree, Same
    <3>2. CASE Cancel(a)
      BY <1>1, <3>2 DEF CallsAre, Cancel, TerminateTree, Same
    <3>3. CASE Kill(a)
      BY <1>1, <3>3 DEF ProcessTypeOK, CallsAre, Kill, Same
    <3>4. CASE Ends(a)
      BY <1>1, <3>4 DEF CallsAre, Ends, Same
    <3> QED BY <1>12, <3>1, <3>2, <3>3, <3>4
  <2>2. \/ call' = [call EXCEPT ![a] = "killing"] /\ UNCHANGED registryVars
        \/ call' = [call EXCEPT ![a] = "done"] /\ Unregister(by[a], a)
    BY <1>12 DEF GivesUp, Cancel, Kill, Ends, TerminateTree, FinishCall, GoOn
  <2>3. /\ {handle', records'} \subseteq [Parent -> Registry] /\ registryFile' \in Registry
        /\ \A d \in Parent, k \in Key :
             /\ handle'[d][k] \in {handle[d][k], NoAgent} /\ records'[d][k] \in {records[d][k], NoAgent}
             /\ handle'[d][k] = a => call'[a] \in Open
        /\ \A k \in Key : registryFile'[k] \in {registryFile[k], records'[by[a]][k]}
    <3>1. CASE call' = [call EXCEPT ![a] = "killing"] /\ UNCHANGED registryVars
      BY <1>1, <3>1 DEF registryVars, ProcessTypeOK
    <3>2. CASE call' = [call EXCEPT ![a] = "done"] /\ Unregister(by[a], a)
      BY <1>1, <2>1, <3>2, FinishIs DEF RecordsAre
    <3> QED BY <2>2, <3>1, <3>2
  <2>4. /\ call' \in [Agent -> {"none", "done", "lost"} \cup Open] /\ call'[a] \in {"killing", "done"}
        /\ \A b \in Agent \ {a} : call'[b] = call[b]
    BY <1>1, <2>2 DEF ProcessTypeOK
  <2>5. ProcessTypeOK'
    <3>1. stopped' \in [Agent -> BOOLEAN]
      BY <1>t, <2>1
    <3>2. kids' \in [Agent -> BOOLEAN]
      BY <1>t, <2>1
    <3>3. os' \in [Agent -> {"none", "up", "dead"}]
      BY <1>t, <2>1
    <3> QED BY <1>1, <2>1, <2>3, <2>4, <3>1, <3>2, <3>3 DEF ProcessTypeOK
  <2>6. \A b \in Agent : os'[b] = os[b] \/ (os[b] # "none" /\ os'[b] = "dead")
    <3>1. os[a] # "none"
      BY <1>1, <2>1 DEF CallsAre
    <3> QED BY <1>t, <2>1, <3>1
  <2>7. ControllersAre' /\ CallsAre'
    BY <1>1, <2>1, <2>4, <2>6 DEF ControllersAre, CallsAre
  <2>8. PidsAre' /\ ReapedAre'
    BY <1>1, <1>b, <2>1, <2>4, <2>6 DEF PidsAre, ReapedAre
  <2>9. RecordsAre'
    <3>1. ASSUME NEW d \in Parent, NEW k \in Key, records'[d][k] # NoAgent
          PROVE  KeyOf[records'[d][k]] = k /\ call'[records'[d][k]] # "none"
      <4>1. records'[d][k] = records[d][k]
        BY <2>3, <3>1
      <4>2. /\ KeyOf[records[d][k]] = k /\ call[records[d][k]] # "none"
            /\ records[d][k] \in Agent
        BY <1>1, <3>1, <4>1 DEF RecordsAre
      <4> QED BY <2>4, <4>1, <4>2
    <3>2. ASSUME NEW k \in Key, registryFile'[k] # NoAgent
          PROVE  KeyOf[registryFile'[k]] = k /\ call'[registryFile'[k]] # "none"
      <4>1. CASE registryFile'[k] = registryFile[k]
        BY <1>1, <2>4, <3>2, <4>1 DEF RecordsAre
      <4>2. CASE registryFile'[k] = records'[by[a]][k]
        BY <2>1, <3>1, <3>2, <4>2
      <4> QED BY <2>3, <4>1, <4>2
    <3>3. ASSUME NEW d \in Parent, NEW k \in Key, handle'[d][k] # NoAgent
          PROVE  /\ KeyOf[handle'[d][k]] = k /\ by'[handle'[d][k]] = d
                 /\ call'[handle'[d][k]] \in Open
      <4>1. handle'[d][k] = handle[d][k]
        BY <2>3, <3>3
      <4>2. /\ KeyOf[handle[d][k]] = k /\ by[handle[d][k]] = d
            /\ call[handle[d][k]] \in Open /\ handle[d][k] \in Agent
        BY <1>1, <3>3, <4>1 DEF RecordsAre
      <4>3. by' = by /\ (handle'[d][k] = a => call'[a] \in Open)
        BY <2>1, <2>3
      <4> QED BY <2>4, <4>1, <4>2, <4>3
    <3> QED BY <3>1, <3>2, <3>3 DEF RecordsAre
  <2> QED BY <2>5, <2>7, <2>8, <2>9 DEF ProcInv
<1>13. ASSUME NEW a \in Agent, Forks(a) \/ Exec(a) \/ Exits(a) \/ KidsExit(a) PROVE ProcInv'
  <2>1. /\ UNCHANGED <<life, call, by, stopped, reap, handle, records, registryFile, pid, stranger>>
        /\ kids' = kids \/ \E b \in BOOLEAN : kids' = [kids EXCEPT ![a] = b]
        /\ swapped' = swapped \/ swapped' = [swapped EXCEPT ![a] = TRUE]
        /\ os' = os \/ (os[a] = "up" /\ os' = [os EXCEPT ![a] = "dead"])
    BY <1>13 DEF Forks, Exec, Exits, KidsExit, Unmoved, registryVars
  <2>2. ProcessTypeOK'
    <3>1. swapped' \in [Agent -> BOOLEAN]
      BY <1>t, <2>1
    <3>2. kids' \in [Agent -> BOOLEAN]
      BY <1>t, <2>1
    <3>3. os' \in [Agent -> {"none", "up", "dead"}]
      BY <1>t, <2>1
    <3> QED BY <1>1, <2>1, <3>1, <3>2, <3>3 DEF ProcessTypeOK
  <2>3. ControllersAre' /\ CallsAre' /\ PidsAre' /\ ReapedAre'
    BY <1>1, <2>1 DEF ProcessTypeOK, ControllersAre, CallsAre, PidsAre, ReapedAre
  <2>4. RecordsAre'
    BY <1>1, <2>1 DEF RecordsAre
  <2> QED BY <2>2, <2>3, <2>4 DEF ProcInv
<1>14. ASSUME NEW p \in Pid, StrangerComes(p) \/ StrangerGoes(p) PROVE ProcInv'
  <2>1. /\ UNCHANGED <<life, call, by, stopped, reap, handle, records, registryFile, os, kids, pid, swapped>>
        /\ stranger' \subseteq stranger \/ (p \in FreePid /\ stranger' = stranger \cup {p})
    BY <1>14 DEF StrangerComes, StrangerGoes, Unmoved, registryVars
  <2>2. ProcessTypeOK'
    BY <1>1, <2>1 DEF ProcessTypeOK
  <2>3. ControllersAre' /\ CallsAre'
    BY <1>1, <2>1 DEF ControllersAre, CallsAre
  <2>4. PidsAre'
    BY <1>1, <2>1 DEF PidsAre, FreePid, PidAlive
  <2>5. ReapedAre'
    BY <1>1, <2>1 DEF ReapedAre
  <2>6. RecordsAre'
    BY <1>1, <2>1 DEF RecordsAre
  <2> QED BY <2>2, <2>3, <2>4, <2>5, <2>6 DEF ProcInv
<1> QED BY <1>2, <1>3, <1>4, <1>5, <1>6, <1>7, <1>8, <1>9, <1>11, <1>12, <1>13, <1>14 DEF Moves, AgentMoves

\* Only an id that nobody has is given away, agents keep theirs, and who comes on a
\* list of orphans is up at that moment.
LEMMA IdsMove ==
  ASSUME ProcInv, Moves
  PROVE  /\ \A p \in stranger' : p \in stranger \/ ~PidAlive(p)
         /\ \A b \in Agent : os'[b] = "up" =>
              (os[b] = "up" /\ pid'[b] = pid[b]) \/ ~PidAlive(pid'[b])
         /\ \A b \in Agent : call[b] # "none" => pid'[b] = pid[b]
         /\ \A c \in Parent : reap'[c] # NotReaping =>
              \/ reap[c] # NotReaping /\ reap'[c] \subseteq reap[c]
              \/ (\A a \in reap'[c] : a \in Agent /\ os[a] = "up") /\ UNCHANGED <<os, pid, stranger>>
<1> DEFINE Goal ==
         /\ \A p \in stranger' : p \in stranger \/ ~PidAlive(p)
         /\ \A b \in Agent : os'[b] = "up" =>
              (os[b] = "up" /\ pid'[b] = pid[b]) \/ ~PidAlive(pid'[b])
         /\ \A b \in Agent : call[b] # "none" => pid'[b] = pid[b]
         /\ \A c \in Parent : reap'[c] # NotReaping =>
              \/ reap[c] # NotReaping /\ reap'[c] \subseteq reap[c]
              \/ (\A a \in reap'[c] : a \in Agent /\ os[a] = "up") /\ UNCHANGED <<os, pid, stranger>>
<1> USE DEF osVars, registryVars, Same, Unmoved
<1>1. /\ os \in [Agent -> {"none", "up", "dead"}] /\ pid \in [Agent -> Pid \cup {0}]
      /\ reap \in [Parent -> Reaping] /\ RecordsAre
      /\ records \in [Parent -> Registry]
  BY DEF ProcInv, ProcessTypeOK, Reaping, Registry
<1>2. ASSUME NEW c \in Parent, BootController(c) \/ ShutdownBegins(c) PROVE Goal
  BY <1>2 DEF BootController, ShutdownBegins
<1>3. ASSUME NEW c \in Parent, ControllerDies(c) \/ ReapEnds(c) PROVE Goal
  BY <1>1, <1>3 DEF ControllerDies, ReapEnds
<1>4. ASSUME NEW c \in Parent, ShutdownEnds(c) PROVE Goal
  BY <1>1, <1>4 DEF ShutdownEnds
<1>5. ASSUME NEW c \in Parent, ReapBegins(c) PROVE Goal
  <2>1. \A a \in Orphans(c) : a \in Agent /\ os[a] = "up"
    BY <1>1, ReapIs
  <2>2. UNCHANGED <<os, pid, stranger>> /\ reap' = [reap EXCEPT ![c] = Orphans(c)]
    BY <1>5 DEF ReapBegins
  <2> QED BY <1>1, <2>1, <2>2
<1>6. ASSUME NEW c \in Parent, NEW a \in Agent, Spawn(c, a) PROVE Goal
  BY <1>1, <1>6 DEF Spawn, FreePid
<1>7. ASSUME NEW c \in Parent, NEW a \in Agent, ReapKill(c, a) PROVE Goal
  <2>1. \A b \in Agent : os'[b] = "up" => os[b] = "up"
    BY <1>7 DEF ReapKill
  <2>2. stranger' \subseteq stranger /\ pid' = pid
    BY <1>7 DEF ReapKill
  <2>3. reap[c] # NotReaping /\ reap' = [reap EXCEPT ![c] = @ \ {a}]
    BY <1>7 DEF ReapKill
  <2> QED BY <1>1, <2>1, <2>2, <2>3
<1>8. ASSUME NEW c \in Parent, NEW k \in Key, TerminateRun(c, k) PROVE Goal
  BY <1>1, <1>8 DEF TerminateRun
<1>9. ASSUME NEW a \in Agent, GivesUp(a) \/ Cancel(a) PROVE Goal
  BY <1>9 DEF GivesUp, Cancel, TerminateTree
<1>10. ASSUME NEW a \in Agent, Kill(a) \/ Ends(a) \/ Feed(a) PROVE Goal
  BY <1>1, <1>10 DEF Kill, Ends, Feed
<1>11. ASSUME NEW a \in Agent, Forks(a) \/ Exec(a) \/ Exits(a) \/ KidsExit(a) PROVE Goal
  BY <1>1, <1>11 DEF Forks, Exec, Exits, KidsExit
<1>12. ASSUME NEW p \in Pid, StrangerComes(p) \/ StrangerGoes(p) PROVE Goal
  BY <1>12 DEF StrangerComes, StrangerGoes, FreePid
<1> QED BY <1>2, <1>3, <1>4, <1>5, <1>6, <1>7, <1>8, <1>9, <1>10, <1>11, <1>12 DEF Moves, AgentMoves

\* An id on a list that was not given away since is that of the orphan.
LEMMA IdsStep ==
  ASSUME ProcessAssumptions, ProcInv, ProcInv', IdsAreTheirs, ProcessNext PROVE IdsAreTheirs'
<1> SUFFICES ASSUME NEW c \in Parent, reap'[c] # NotReaping, NEW a \in reap'[c], pid'[a] \notin late'
             PROVE  /\ pid'[a] \notin stranger'
                    /\ \A b \in Agent : os'[b] = "up" /\ pid'[b] = pid'[a] => b = a
  BY DEF IdsAreTheirs
<1>1. /\ Moves /\ PidsAre /\ PidsAre' /\ ReapedAre /\ stranger' \subseteq Pid
      /\ late' = {p \in Pid \cap Listed' : p \in late \/ (PidAlive(p)' /\ ~PidAlive(p))}
      /\ reap' \in [Parent -> Reaping]
  BY DEF ProcessNext, ProcInv, ProcessTypeOK, Reaping
<1>2. a \in Agent
  <2>1. ASSUME NEW A \in Reaping PROVE A \in SUBSET Agent \/ A = NotReaping
    BY <2>1, Zenon DEF Reaping
  <2> QED BY <1>1, <2>1
<1> DEFINE Alive == pid'[a] \in stranger' \/ \E b \in Agent : os'[b] = "up" /\ pid'[b] = pid'[a]
<1>3. CASE ~Alive
  BY <1>3
<1>4. CASE Alive
  <2>1. pid'[a] \in Pid
    BY <1>1, <1>4 DEF PidsAre
  <2>2. pid'[a] \in Listed'
    BY DEF Listed
  <2>3. pid'[a] \notin late /\ PidAlive(pid'[a])
    <3>1. ASSUME NEW p \in Pid, p = pid'[a] PROVE p \notin late /\ PidAlive(p)
      <4>1. PidAlive(p)'
        BY <1>4, <3>1 DEF PidAlive
      <4>2. p \in Listed' /\ p \notin late'
        BY <2>2, <3>1
      <4> QED BY <1>1, <4>1, <4>2
    <3> QED BY <2>1, <3>1
  <2>4. CASE reap[c] # NotReaping /\ reap'[c] \subseteq reap[c]
    <3>1. call[a] # "none" /\ pid'[a] = pid[a]
      BY <1>1, <1>2, <2>4, IdsMove DEF ReapedAre
    <3>2. /\ pid[a] \notin stranger
          /\ \A b \in Agent : os[b] = "up" /\ pid[b] = pid[a] => b = a
      BY <2>3, <2>4, <3>1 DEF IdsAreTheirs
    <3> QED BY <1>1, <2>3, <3>1, <3>2, IdsMove
  <2>5. CASE os[a] = "up" /\ UNCHANGED <<os, pid, stranger>>
    BY <1>1, <1>2, <2>5 DEF PidsAre
  <2> QED BY <1>1, <2>4, <2>5, IdsMove
<1> QED BY <1>3, <1>4

\* A step of a system that stays undisturbed keeps the registry in order.
LEMMA KeptStep ==
  ASSUME ProcessAssumptions, ProcInv, ProcInv', Undisturbed, Undisturbed', ~TwoOfARun', Kept, Moves
  PROVE  Handled' /\ Recognised' /\ EntriesAreOurs' /\ OrphansAreReaped'
<1> DEFINE Goal == Handled' /\ Recognised' /\ EntriesAreOurs' /\ OrphansAreReaped'
<1> USE KeysAre DEF ProcessAssumptions, Live, Open, Ours, AtWork, osVars, Parent, Registry
<1>0. /\ Empty \in Registry /\ \A k \in Key : Empty[k] = NoAgent
      /\ NotReaping # {}
  BY DEF Empty, NotReaping
<1>1. /\ ControllersAre /\ CallsAre /\ PidsAre /\ RecordsAre /\ ReapedAre
      /\ Handled /\ Recognised /\ EntriesAreOurs /\ OrphansAreReaped
      /\ {handle, records} \subseteq [Parent -> Registry] /\ registryFile \in Registry
      /\ \A c \in Command : life[c] = "off" /\ life'[c] = "off"
      /\ \A a \in Agent : ~swapped[a] /\ ~swapped'[a]
      /\ \A a, b \in Agent : KeyOf[a] = KeyOf[b] /\ call[a] \in Open /\ call[b] \in Open => a = b
  BY DEF ProcInv, ProcessTypeOK, Kept, Undisturbed, TwoOfARun
<1>o. \A a, b \in Agent : KeyOf[a] = KeyOf[b] /\ call'[a] \in Open /\ call'[b] \in Open => a = b
  BY DEF TwoOfARun
<1>2. /\ os \in [Agent -> {"none", "up", "dead"}] /\ by \in [Agent -> Parent \cup {NoAgent}]
      /\ call \in [Agent -> {"none", "done", "lost"} \cup Open]
      /\ life \in [Parent -> {"off", "booting", "up", "closing", "gone"}]
      /\ reap \in [Parent -> (SUBSET Agent) \cup {NotReaping}]
  BY DEF ProcInv, ProcessTypeOK
<1>3. \A a \in Agent : call[a] # "none" => by[a] \in Server
  BY <1>1 DEF CallsAre
<1>4. ASSUME NEW c \in Parent, BootController(c) PROVE Goal
  <2>2. Handled'
    BY <1>1, <1>4 DEF Handled, BootController
  <2>3. Recognised'
    BY <1>1, <1>4 DEF Recognised, BootController
  <2>4. EntriesAreOurs'
    BY <1>1, <1>4 DEF EntriesAreOurs, BootController
  <2>5. OrphansAreReaped'
    BY <1>1, <1>4 DEF ControllersAre, OrphansAreReaped, BootController
  <2> QED BY <2>2, <2>3, <2>4, <2>5
<1>5. ASSUME NEW c \in Parent, ControllerDies(c) PROVE Goal
  <2>2. Handled'
    BY <1>1, <1>5 DEF Handled, ControllerDies, Dropped, CallsOf
  <2>3. Recognised'
    BY <1>1, <1>5 DEF Recognised, ControllerDies, Dropped, CallsOf
  <2>4. EntriesAreOurs'
    BY <1>1, <1>5 DEF EntriesAreOurs, ControllerDies, Dropped
  <2>5. OrphansAreReaped'
    BY <1>1, <1>2, <1>5 DEF ControllersAre, OrphansAreReaped, ControllerDies
  <2> QED BY <2>2, <2>3, <2>4, <2>5
<1>6. ASSUME NEW c \in Parent, ShutdownBegins(c) PROVE Goal
  <2>2. Handled'
    BY <1>1, <1>6 DEF Handled, ShutdownBegins, registryVars
  <2>3. Recognised'
    BY <1>1, <1>6 DEF Recognised, ShutdownBegins, registryVars
  <2>4. EntriesAreOurs'
    BY <1>1, <1>6 DEF EntriesAreOurs, ShutdownBegins, registryVars
  <2>5. OrphansAreReaped'
    BY <1>1, <1>6 DEF OrphansAreReaped, ShutdownBegins, registryVars
  <2> QED BY <2>2, <2>3, <2>4, <2>5
<1>7. ASSUME NEW c \in Parent, ShutdownEnds(c) PROVE Goal
  <2>2. Handled'
    BY <1>1, <1>7 DEF Handled, ShutdownEnds, Dropped, CallsOf
  <2>3. Recognised'
    BY <1>1, <1>7 DEF ControllersAre, CallsAre, Handled, Recognised, OrphansAreReaped,
                      ShutdownEnds, Dropped, CallsOf
  <2>4. EntriesAreOurs'
    BY <1>0, <1>1, <1>7 DEF EntriesAreOurs, ShutdownEnds, Dropped, PersistRecords
  <2>5. OrphansAreReaped'
    BY <1>1, <1>7 DEF Handled, OrphansAreReaped, ShutdownEnds, Dropped, CallsOf, PersistRecords
  <2> QED BY <2>2, <2>3, <2>4, <2>5
<1>8. ASSUME NEW c \in Parent, ReapBegins(c) PROVE Goal
  <2>1. /\ UNCHANGED <<life, call, by, handle, stopped, os, swapped>>
        /\ reap' = [reap EXCEPT ![c] = Orphans(c)] /\ c \in Server /\ life[c] \in {"booting", "up"}
    BY <1>8 DEF ReapBegins
  <2>2. /\ \A k \in Key : registryFile'[k] \in {registryFile[k], records'[c][k]}
        /\ \A d \in Parent \ {c} : records'[d] = records[d]
        /\ \A k \in Key : /\ records'[c][k] \in {records[c][k], NoAgent}
                          /\ records[c][k] # NoAgent =>
                               records'[c][k] = records[c][k] \/ records[c][k] \in Stale(c)
    <3>1. CASE UNCHANGED <<records, registryFile>>
      BY <3>1
    <3>2. CASE PersistRecords(c, Without(records[c], Stale(c)))
      BY <1>1, <3>2, ReapIs DEF PersistRecords
    <3> QED BY <1>8, <3>1, <3>2 DEF ReapBegins
  <2>3. Handled'
    BY <1>1, <2>1 DEF Handled
  <2>4. ASSUME NEW a \in Agent, call[a] \in Ours, os[a] = "up"
        PROVE  records'[c][KeyOf[a]] = a /\ registryFile'[KeyOf[a]] = a
    <3>1. records[c][KeyOf[a]] = a /\ registryFile[KeyOf[a]] = a
      BY <1>1, <2>1, <2>4 DEF Recognised
    <3>2. a \notin Stale(c) /\ ~swapped[a]
      BY <1>1, <2>4, ReapIs
    <3>3. records'[c][KeyOf[a]] = a
      BY <2>2, <3>1, <3>2, ProcessAssumptions
    <3> QED BY <2>2, <3>1, <3>3
  <2>5. \A d \in Server : Live(d) => d = c
    BY <1>1, <2>1 DEF ControllersAre
  <2>6. Recognised'
    BY <2>1, <2>4, <2>5 DEF Recognised
  <2>7. EntriesAreOurs'
    <3>1. ASSUME NEW k \in Key, records'[c][k] # NoAgent PROVE call'[records'[c][k]] \in Ours
      BY <1>1, <2>1, <2>2, <3>1 DEF EntriesAreOurs
    <3>2. ASSUME NEW k \in Key, registryFile'[k] # NoAgent PROVE call'[registryFile'[k]] \in Ours
      BY <1>1, <2>1, <2>2, <3>1, <3>2 DEF EntriesAreOurs
    <3> QED BY <2>1, <2>5, <3>1, <3>2 DEF EntriesAreOurs
  <2>8. \A a \in Orphans(c) : a \in Agent /\ call[a] = "lost" /\ os[a] = "up"
    <3> SUFFICES ASSUME NEW a \in Orphans(c) PROVE a \in Agent /\ call[a] = "lost" /\ os[a] = "up"
      OBVIOUS
    <3>1. /\ a \in Agent /\ os[a] = "up" /\ ~Live(by[a])
          /\ \E k \in Key : records[c][k] = a
      BY <1>1, ReapIs
    <3>2. call[a] \in Ours
      BY <1>1, <2>1, <3>1 DEF EntriesAreOurs
    <3> QED BY <1>1, <3>1, <3>2 DEF CallsAre
  <2>9. ASSUME NEW a \in Agent, call[a] = "lost", os[a] = "up" PROVE a \in Orphans(c)
    <3>1. records[c][KeyOf[a]] = a /\ ~Live(by[a])
      BY <1>1, <2>1, <2>9 DEF Recognised, CallsAre
    <3>2. PidAlive(pid[a]) /\ a \in Recorded(c)
      BY <1>1, <2>9, <3>1, ReapIs DEF PidAlive
    <3> QED BY <1>1, <2>9, <3>1, <3>2, ReapIs
  <2>10. OrphansAreReaped'
    <3>1. reap'[c] = Orphans(c)
      BY <1>2, <2>1
    <3>2. life[c] \in AtWork => Orphans(c) = {} /\ \A a \in Agent : call[a] = "lost" => os[a] # "up"
      BY <1>1, <2>1, <2>8 DEF OrphansAreReaped
    <3>3. \A a \in Orphans(c) : records'[c][KeyOf[a]] = a
      BY <2>4, <2>8
    <3> QED BY <2>1, <2>5, <2>9, <3>1, <3>2, <3>3 DEF OrphansAreReaped
  <2> QED BY <2>3, <2>6, <2>7, <2>10
<1>9. ASSUME NEW c \in Parent, ReapEnds(c) PROVE Goal
  <2>2. Handled'
    BY <1>1, <1>9 DEF Handled, ReapEnds
  <2>3. Recognised'
    BY <1>1, <1>9 DEF Recognised, ReapEnds, PersistRecords
  <2>4. EntriesAreOurs'
    BY <1>1, <1>9 DEF EntriesAreOurs, ReapEnds, PersistRecords
  <2>5. OrphansAreReaped'
    BY <1>0, <1>1, <1>9 DEF OrphansAreReaped, ReapEnds, PersistRecords
  <2> QED BY <2>2, <2>3, <2>4, <2>5
<1>10. ASSUME NEW c \in Parent, NEW a \in Agent, Spawn(c, a) PROVE Goal
  <2>1. /\ UNCHANGED <<life, swapped, stopped, reap>>
        /\ life[c] = "up" /\ call[a] = "none" /\ c \in Server
        /\ os' = [os EXCEPT ![a] = "up"] /\ by' = [by EXCEPT ![a] = c]
        /\ call' = [call EXCEPT ![a] = "feeding"]
        /\ handle' = [handle EXCEPT ![c][KeyOf[a]] = a]
        /\ registryFile' = [records[c] EXCEPT ![KeyOf[a]] = a]
        /\ records' = [records EXCEPT ![c] = registryFile']
    BY <1>1, <1>10 DEF Spawn, Register, PersistRecords
  <2>2. /\ call'[a] = "feeding" /\ by'[a] = c /\ handle'[c][KeyOf[a]] = a
        /\ registryFile'[KeyOf[a]] = a /\ records'[c] = registryFile'
        /\ \A b \in Agent \ {a} : call'[b] = call[b] /\ by'[b] = by[b] /\ os'[b] = os[b]
        /\ \A k \in Key \ {KeyOf[a]} : registryFile'[k] = records[c][k]
        /\ \A d \in Parent, k \in Key : d # c \/ k # KeyOf[a] => handle'[d][k] = handle[d][k]
    BY <1>1, <1>2, <2>1
  <2>3. ASSUME NEW b \in Agent \ {a}, call[b] \in Ours, os[b] = "up" \/ call[b] \in Open
        PROVE  KeyOf[b] # KeyOf[a]
    <3>1. CASE call[b] \in Open
      BY <1>o, <2>2, <3>1
    <3>2. CASE call[b] = "lost" /\ os[b] = "up"
      BY <1>1, <2>1, <3>2 DEF OrphansAreReaped
    <3> QED BY <2>3, <3>1, <3>2
  <2>4. Handled'
    <3> SUFFICES ASSUME NEW b \in Agent, call'[b] \in Open PROVE handle'[by'[b]][KeyOf[b]] = b
      BY DEF Handled
    <3>1. CASE b = a
      BY <2>2, <3>1
    <3>2. CASE b # a
      BY <1>1, <1>3, <2>2, <2>3, <3>2 DEF Handled
    <3> QED BY <3>1, <3>2
  <2>5. \A d \in Server : Live(d) => d = c
    BY <1>1, <2>1 DEF ControllersAre
  <2>6. Recognised'
    <3> SUFFICES ASSUME NEW b \in Agent, call'[b] \in Ours, os'[b] = "up"
                 PROVE  registryFile'[KeyOf[b]] = b
      BY <2>1, <2>2, <2>5 DEF Recognised
    <3>1. CASE b = a
      BY <2>2, <3>1
    <3>2. CASE b # a
      BY <1>1, <2>1, <2>2, <2>3, <3>2 DEF Recognised
    <3> QED BY <3>1, <3>2
  <2>7. EntriesAreOurs'
    BY <1>1, <2>1, <2>2 DEF EntriesAreOurs
  <2>8. OrphansAreReaped'
    BY <1>1, <2>1, <2>2, <2>5 DEF OrphansAreReaped
  <2> QED BY <2>4, <2>6, <2>7, <2>8
<1>11. ASSUME NEW c \in Parent, NEW a \in Agent, ReapKill(c, a) PROVE Goal
  <2>2. Handled'
    BY <1>1, <1>11 DEF Handled, ReapKill
  <2>3. Recognised'
    BY <1>1, <1>2, <1>11 DEF Recognised, OrphansAreReaped, ReapKill
  <2>4. EntriesAreOurs'
    BY <1>1, <1>11 DEF EntriesAreOurs, ReapKill
  <2>5. OrphansAreReaped'
    BY <1>1, <1>2, <1>11 DEF PidsAre, OrphansAreReaped, ReapKill
  <2> QED BY <2>2, <2>3, <2>4, <2>5
<1>12. ASSUME NEW c \in Parent, NEW k \in Key, TerminateRun(c, k) PROVE Goal
  <2>2. Handled'
    BY <1>1, <1>12 DEF Handled, TerminateRun, Same, registryVars
  <2>3. Recognised'
    BY <1>1, <1>12 DEF Recognised, TerminateRun, Same, registryVars
  <2>4. EntriesAreOurs'
    BY <1>1, <1>12 DEF EntriesAreOurs, TerminateRun, Same, registryVars
  <2>5. OrphansAreReaped'
    BY <1>1, <1>12 DEF OrphansAreReaped, TerminateRun, Same, registryVars
  <2> QED BY <2>2, <2>3, <2>4, <2>5
<1>13. ASSUME NEW a \in Agent, Feed(a) PROVE Goal
  <2>2. Handled'
    BY <1>1, <1>13 DEF Handled, Feed, GoOn, Same, registryVars
  <2>3. Recognised'
    BY <1>1, <1>13 DEF Recognised, Feed, GoOn, Same, registryVars
  <2>4. EntriesAreOurs'
    BY <1>1, <1>13 DEF EntriesAreOurs, Feed, GoOn, Same, registryVars
  <2>5. OrphansAreReaped'
    BY <1>1, <1>13 DEF OrphansAreReaped, Feed, GoOn, Same, registryVars
  <2> QED BY <2>2, <2>3, <2>4, <2>5
<1>14. ASSUME NEW a \in Agent, GivesUp(a) \/ Cancel(a) \/ Kill(a) \/ Ends(a) PROVE Goal
  <2>1. /\ call[a] \in Open /\ by[a] \in Server /\ life[by[a]] \in AtWork
        /\ UNCHANGED <<life, by, reap, swapped>>
        /\ os' = os \/ os' = [os EXCEPT ![a] = "dead"]
    <3>1. call[a] \in Open /\ UNCHANGED <<life, by, reap, swapped>>
      BY <1>14 DEF GivesUp, Cancel, Kill, Ends, Same
    <3>2. os' = os \/ os' = [os EXCEPT ![a] = "dead"]
      BY <1>14 DEF GivesUp, Cancel, Kill, Ends, TerminateTree
    <3> QED BY <1>1, <1>3, <3>1, <3>2 DEF CallsAre
  <2>2. \/ call' = [call EXCEPT ![a] = "killing"] /\ UNCHANGED registryVars
        \/ call' = [call EXCEPT ![a] = "done"] /\ Unregister(by[a], a)
    BY <1>14 DEF GivesUp, Cancel, Kill, Ends, TerminateTree, FinishCall, GoOn
  <2>3. \A b \in Agent \ {a} : call'[b] = call[b] /\ (os'[b] = "up" => os[b] = "up")
    BY <1>2, <2>1, <2>2
  <2>4. CASE call' = [call EXCEPT ![a] = "killing"] /\ UNCHANGED registryVars
    <3>1. call'[a] = "killing" /\ (os'[a] = "up" => os[a] = "up")
      BY <1>2, <2>1, <2>4
    <3>2. UNCHANGED <<handle, records, registryFile>>
      BY <2>4 DEF registryVars
    <3>3. \A b \in Agent : /\ call'[b] \in Open <=> call[b] \in Open
                           /\ call'[b] = "lost" <=> call[b] = "lost"
                           /\ os'[b] = "up" => os[b] = "up"
      BY <2>1, <2>3, <3>1
    <3>4. Handled'
      BY <1>1, <2>1, <3>2, <3>3 DEF Handled
    <3>5. Recognised'
      BY <1>1, <2>1, <3>2, <3>3 DEF Recognised
    <3>6. EntriesAreOurs'
      BY <1>1, <2>1, <3>2, <3>3 DEF EntriesAreOurs
    <3>7. OrphansAreReaped'
      BY <1>1, <2>1, <3>2, <3>3 DEF OrphansAreReaped
    <3> QED BY <3>4, <3>5, <3>6, <3>7
  <2>5. CASE call' = [call EXCEPT ![a] = "done"] /\ Unregister(by[a], a)
    <3>1. call'[a] = "done" /\ handle[by[a]][KeyOf[a]] = a
      BY <1>1, <1>2, <2>1, <2>5 DEF Handled
    <3>2. /\ \A d \in Parent, k \in Key :
               /\ records'[d][k] \in {records[d][k], NoAgent}
               /\ d # by[a] \/ k # KeyOf[a] =>
                    handle'[d][k] = handle[d][k] /\ records'[d][k] = records[d][k]
          /\ registryFile' = records'[by[a]] /\ records'[by[a]][KeyOf[a]] = NoAgent
      BY <1>1, <2>1, <2>5, <3>1, FinishIs
    <3>3. ASSUME NEW b \in Agent, call'[b] \in Ours, os[b] = "up" \/ call'[b] \in Open
          PROVE  b # a /\ call[b] = call'[b] /\ KeyOf[b] # KeyOf[a]
      <4>1. b # a /\ call[b] = call'[b]
        BY <2>3, <3>1, <3>3
      <4>2. CASE call[b] \in Open
        BY <1>1, <2>1, <4>1, <4>2
      <4>3. CASE call[b] = "lost" /\ os[b] = "up"
        BY <1>1, <2>1, <4>3 DEF OrphansAreReaped
      <4> QED BY <3>3, <4>1, <4>2, <4>3
    <3>4. \A d \in Server : Live(d) => d = by[a]
      BY <1>1, <2>1 DEF ControllersAre
    <3>5. Handled'
      BY <1>1, <1>3, <2>1, <3>2, <3>3 DEF Handled
    <3>6. Recognised'
      <4> SUFFICES ASSUME NEW b \in Agent, call'[b] \in Ours, os'[b] = "up"
                   PROVE  registryFile'[KeyOf[b]] = b
        BY <2>1, <3>2, <3>4 DEF Recognised
      <4>1. b # a /\ os[b] = "up" /\ call[b] \in Ours
        BY <2>3, <3>1
      <4>2. KeyOf[b] # KeyOf[a]
        BY <3>3, <4>1
      <4> QED BY <1>1, <2>1, <3>2, <4>1, <4>2 DEF Recognised
    <3>7. EntriesAreOurs'
      <4>1. ASSUME NEW k \in Key, records'[by[a]][k] # NoAgent PROVE call'[records'[by[a]][k]] \in Ours
        <5>1. k # KeyOf[a] /\ records'[by[a]][k] = records[by[a]][k] /\ records[by[a]][k] \in Agent
          BY <1>1, <2>1, <3>2, <4>1
        <5>2. records[by[a]][k] # a /\ call[records[by[a]][k]] \in Ours
          BY <1>1, <2>1, <4>1, <5>1 DEF RecordsAre, EntriesAreOurs
        <5> QED BY <2>3, <5>1, <5>2
      <4> QED BY <2>1, <3>2, <3>4, <4>1 DEF EntriesAreOurs
    <3>8. OrphansAreReaped'
      <4>1. \A b \in Agent : call'[b] = "lost" => call[b] = "lost" /\ (os'[b] = "up" => os[b] = "up")
        BY <2>3, <3>1
      <4>2. \A d \in Server : life[d] # "booting"
        BY <2>1, <3>4
      <4> QED BY <1>1, <2>1, <4>1, <4>2 DEF OrphansAreReaped
    <3> QED BY <3>5, <3>6, <3>7, <3>8
  <2> QED BY <2>2, <2>4, <2>5
<1>15. ASSUME NEW a \in Agent, Forks(a) \/ Exec(a) \/ Exits(a) \/ KidsExit(a) PROVE Goal
  <2>2. Handled'
    BY <1>1, <1>15 DEF Handled, Forks, Exec, Exits, KidsExit, Unmoved, registryVars
  <2>3. Recognised'
    BY <1>1, <1>2, <1>15 DEF Recognised, Forks, Exec, Exits, KidsExit, Unmoved, registryVars
  <2>4. EntriesAreOurs'
    BY <1>1, <1>15 DEF EntriesAreOurs, Forks, Exec, Exits, KidsExit, Unmoved, registryVars
  <2>5. OrphansAreReaped'
    BY <1>1, <1>2, <1>15 DEF OrphansAreReaped, Forks, Exec, Exits, KidsExit, Unmoved,
                             registryVars
  <2> QED BY <2>2, <2>3, <2>4, <2>5
<1>16. ASSUME NEW p \in Pid, StrangerComes(p) \/ StrangerGoes(p) PROVE Goal
  <2>2. Handled'
    BY <1>1, <1>16 DEF Handled, StrangerComes, StrangerGoes, Unmoved, registryVars
  <2>3. Recognised'
    BY <1>1, <1>16 DEF Recognised, StrangerComes, StrangerGoes, Unmoved, registryVars
  <2>4. EntriesAreOurs'
    BY <1>1, <1>16 DEF EntriesAreOurs, StrangerComes, StrangerGoes, Unmoved, registryVars
  <2>5. OrphansAreReaped'
    BY <1>1, <1>16 DEF OrphansAreReaped, StrangerComes, StrangerGoes, Unmoved, registryVars
  <2> QED BY <2>2, <2>3, <2>4, <2>5
<1> QED BY <1>4, <1>5, <1>6, <1>7, <1>8, <1>9, <1>10, <1>11, <1>12, <1>13, <1>14, <1>15, <1>16 DEF Moves, AgentMoves

\* Nothing that disturbs the registry is ever undone.
LEMMA OnceDisturbed ==
  ASSUME ProcessTypeOK, Moves, crowded' = (crowded \/ TwoOfARun'), Undisturbed'
  PROVE  Undisturbed /\ ~TwoOfARun'
<1>1. ~crowded /\ ~TwoOfARun'
  BY DEF Undisturbed
<1>2. \A c \in Parent : life'[c] = "off" => life[c] = "off"
  <2> USE DEF osVars, registryVars, Same, Unmoved
  <2>1. life' = life \/ \E c \in Parent, v \in {"booting", "up", "closing", "gone"} : life' = [life EXCEPT ![c] = v]
    BY DEF Moves, AgentMoves, BootController, ControllerDies, ShutdownBegins, ShutdownEnds,
           ReapBegins, ReapEnds, Spawn, ReapKill, TerminateRun, Feed, GivesUp, Cancel, Kill, Ends,
           Forks, Exec, Exits, KidsExit, StrangerComes, StrangerGoes
  <2>2. life \in [Parent -> {"off", "booting", "up", "closing", "gone"}]
    BY DEF ProcessTypeOK
  <2> QED BY <2>1, <2>2
<1>3. \A a \in Agent : swapped[a] => swapped'[a]
  <2> USE DEF osVars, registryVars, Same, Unmoved
  <2>1. swapped' = swapped \/ \E a \in Agent : swapped' = [swapped EXCEPT ![a] = TRUE]
    BY DEF Moves, AgentMoves, BootController, ControllerDies, ShutdownBegins, ShutdownEnds,
           ReapBegins, ReapEnds, Spawn, ReapKill, TerminateRun, Feed, GivesUp, Cancel, Kill, Ends,
           Forks, Exec, Exits, KidsExit, StrangerComes, StrangerGoes
  <2>2. swapped \in [Agent -> BOOLEAN]
    BY DEF ProcessTypeOK
  <2> QED BY <2>1, <2>2
<1> QED BY <1>1, <1>2, <1>3 DEF Undisturbed, Parent

\* A call that is over left no process that is up, unless it was cancelled in
\* the grace period of its own kill.
LEMMA CallsEndStep ==
  ASSUME ProcInv, CallsEndTheirAgents, ~CancelInGrace, Moves
  PROVE  CallsEndTheirAgents'
<1> USE DEF CallsEndTheirAgents, Open, osVars, registryVars, Same, Unmoved
<1>1. /\ os \in [Agent -> {"none", "up", "dead"}]
      /\ call \in [Agent -> {"none", "done", "lost"} \cup Open]
  BY DEF ProcInv, ProcessTypeOK
<1>2. ASSUME NEW c \in Parent, ControllerDies(c) PROVE CallsEndTheirAgents'
  BY <1>1, <1>2 DEF ControllerDies, Dropped, CallsOf
<1>3. ASSUME NEW c \in Parent, ShutdownEnds(c) PROVE CallsEndTheirAgents'
  BY <1>1, <1>3 DEF ShutdownEnds, Dropped, CallsOf
<1>4. ASSUME NEW c \in Parent, NEW a \in Agent, Spawn(c, a) PROVE CallsEndTheirAgents'
  BY <1>1, <1>4 DEF Spawn
<1>5. ASSUME NEW c \in Parent, NEW a \in Agent, ReapKill(c, a) PROVE CallsEndTheirAgents'
  BY <1>1, <1>5 DEF ReapKill
<1>6. ASSUME NEW c \in Parent, NEW k \in Key, TerminateRun(c, k) PROVE CallsEndTheirAgents'
  BY <1>1, <1>6 DEF TerminateRun
<1>7. ASSUME NEW c \in Parent, BootController(c) \/ ShutdownBegins(c) \/ ReapBegins(c) \/ ReapEnds(c)
      PROVE  CallsEndTheirAgents'
  BY <1>7 DEF BootController, ShutdownBegins, ReapBegins, ReapEnds
<1>8. ASSUME NEW a \in Agent, GivesUp(a) \/ Cancel(a) PROVE CallsEndTheirAgents'
  BY <1>1, <1>8 DEF GivesUp, Cancel, TerminateTree, GoOn, FinishCall
<1>9. ASSUME NEW a \in Agent, Kill(a) \/ Ends(a) \/ Feed(a) PROVE CallsEndTheirAgents'
  BY <1>1, <1>9 DEF Kill, Ends, Feed, GoOn, FinishCall
<1>10. ASSUME NEW a \in Agent, Forks(a) \/ Exec(a) \/ Exits(a) \/ KidsExit(a) PROVE CallsEndTheirAgents'
  BY <1>1, <1>10 DEF Forks, Exec, Exits, KidsExit
<1>11. ASSUME NEW p \in Pid, StrangerComes(p) \/ StrangerGoes(p) PROVE CallsEndTheirAgents'
  BY <1>11 DEF StrangerComes, StrangerGoes
<1> QED BY <1>2, <1>3, <1>4, <1>5, <1>6, <1>7, <1>8, <1>9, <1>10, <1>11 DEF Moves, AgentMoves

\* The inductive invariant of a system that nothing has disturbed so far.
LEMMA KeptInvStep ==
  ASSUME ProcessAssumptions, ProcInv, ProcInv', KeptInv, ProcessNext
  PROVE  KeptInv'
<1>1. SUFFICES ASSUME Undisturbed' PROVE Kept'
  BY DEF KeptInv
<1>2. Moves /\ crowded' = (crowded \/ TwoOfARun')
  BY DEF ProcessNext
<1>3. Undisturbed /\ ~TwoOfARun'
  BY <1>1, <1>2, OnceDisturbed DEF ProcInv
<1>4. Handled' /\ Recognised' /\ EntriesAreOurs' /\ OrphansAreReaped'
  BY <1>1, <1>2, <1>3, KeptStep DEF KeptInv
<1> QED BY <1>3, <1>4 DEF Kept

\* All of it holds at the start.
LEMMA ProcessStarts ==
  ASSUME ProcessAssumptions, ProcessInit PROVE ProcInv /\ IdsAreTheirs /\ KeptInv /\ CallsEndTheirAgents
<1> USE KeysAre DEF ProcessInit, Parent, Empty, Open, Live
<1>1. ProcessTypeOK
  BY DEF ProcessTypeOK
<1>2. ControllersAre /\ CallsAre /\ PidsAre /\ RecordsAre /\ ReapedAre /\ IdsAreTheirs
  BY DEF ControllersAre, CallsAre, PidsAre, RecordsAre, ReapedAre, IdsAreTheirs
<1>3. ~TwoOfARun /\ Handled /\ Recognised /\ EntriesAreOurs /\ OrphansAreReaped
  BY DEF TwoOfARun, Handled, Recognised, EntriesAreOurs, OrphansAreReaped, Ours, AtWork
<1> QED BY <1>1, <1>2, <1>3 DEF ProcInv, KeptInv, Kept, CallsEndTheirAgents

\* The two invariants hold for any controllers, agents, runs and ids.
LEMMA ProcessInvariant ==
  ASSUME ProcessAssumptions PROVE ProcessSpec => [](ProcInv /\ IdsAreTheirs /\ KeptInv)
<1>1. ProcessInit => ProcInv /\ IdsAreTheirs /\ KeptInv
  BY ProcessStarts
<1>2. ProcInv /\ IdsAreTheirs /\ KeptInv /\ [ProcessNext]_processVars
        => (ProcInv /\ IdsAreTheirs /\ KeptInv)'
  <2> SUFFICES ASSUME ProcInv, IdsAreTheirs, KeptInv, [ProcessNext]_processVars
               PROVE  (ProcInv /\ IdsAreTheirs /\ KeptInv)'
    OBVIOUS
  <2>1. CASE ProcessNext
    <3>1. crowded' \in BOOLEAN /\ late' \subseteq Pid /\ Moves
      BY <2>1 DEF ProcessNext, ProcInv, ProcessTypeOK, TwoOfARun
    <3>2. ProcInv'
      BY <3>1, ProcInvStep
    <3> QED BY <2>1, <3>2, IdsStep, KeptInvStep
  <2>2. CASE UNCHANGED processVars
    <3>1. ProcInv' /\ IdsAreTheirs'
      BY <2>2 DEF processVars, ProcInv, ProcessTypeOK, ControllersAre, CallsAre, PidsAre,
                  RecordsAre, ReapedAre, IdsAreTheirs, Live
    <3>2. Undisturbed' = Undisturbed /\ Kept' = Kept
      BY <2>2 DEF processVars, Undisturbed, Kept, TwoOfARun, Handled, Recognised,
                  EntriesAreOurs,
                  OrphansAreReaped, Live
    <3> QED BY <3>1, <3>2 DEF KeptInv
  <2> QED BY <2>1, <2>2
<1> QED BY <1>1, <1>2, PTL DEF ProcessSpec

\* The calls, processes, records and reapers keep their types, for any servers
\* and commands, agents and process ids (process_registry.py).
THEOREM ProcessTypeCorrect ==
  ASSUME ProcessAssumptions PROVE ProcessSpec => []ProcessTypeOK
BY ProcessInvariant, PTL DEF ProcInv

\* Whatever crashes, forks, replaces its image or takes over an id: as long as the id
\* is not given away between the look and the signal, reap_orphans ends no stranger
\* and no agent of a controller that is alive (process_registry.py:107).
THEOREM ReaperHarmsNobody ==
  ASSUME ProcessAssumptions PROVE ProcessSpec => []NoHarm
<1>1. ProcInv /\ IdsAreTheirs => NoHarm
  <2> SUFFICES ASSUME ProcInv, IdsAreTheirs,
                      NEW c \in Parent, reap[c] # NotReaping, NEW a \in reap[c], pid[a] \notin late
               PROVE  /\ pid[a] \notin stranger
                      /\ \A b \in Agent : os[b] = "up" /\ pid[b] = pid[a] => b = a /\ ~Live(by[b])
    BY DEF NoHarm
  <2> QED BY DEF ProcInv, ReapedAre, IdsAreTheirs, Live
<1> QED BY <1>1, ProcessInvariant, PTL

\* As long as no call is cancelled in the grace period of its own kill, a call
\* that ended has left no agent; and in a system that nothing has disturbed, an
\* open call's agent is on disk, and no orphan lives beside a server at work
\* (process_supervisor.py:153, main.py:29).
THEOREM ProcessesEnd ==
  ASSUME ProcessAssumptions, ~CancelInGrace PROVE ProcessSpec => []NoProcessIsLeft
<1>1. ProcessInit => CallsEndTheirAgents
  BY ProcessStarts
<1>2. ProcInv /\ CallsEndTheirAgents /\ [ProcessNext]_processVars => CallsEndTheirAgents'
  BY CallsEndStep DEF ProcessNext, processVars, CallsEndTheirAgents
<1>3. ProcInv /\ KeptInv /\ CallsEndTheirAgents => NoProcessIsLeft
  <2> SUFFICES ASSUME ProcInv, Kept PROVE LiveAgentsAreOnDisk /\ OrphansEndFirst
    BY DEF KeptInv, NoProcessIsLeft
  <2>1. LiveAgentsAreOnDisk
    BY DEF Kept, Recognised, LiveAgentsAreOnDisk, Ours
  <2>2. OrphansEndFirst
    BY DEF Kept, OrphansAreReaped, OrphansEndFirst, AtWork
  <2> QED BY <2>1, <2>2
<1> QED BY <1>1, <1>2, <1>3, ProcessInvariant, PTL DEF ProcessSpec
=============================================================================
