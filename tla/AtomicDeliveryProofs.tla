------------------------ MODULE AtomicDeliveryProofs ------------------------
(***************************************************************************)
(* Atomic deliveries, proved for any number of files, of controllers that  *)
(* follow one another, of crashes and of restarts.                         *)
(*                                                                         *)
(* The journal is what everybody goes by who finds a delivery unfinished,  *)
(* and so what its status says of the project has to be true whenever      *)
(* somebody can find it (JournalIsSound). Between that, a controller is    *)
(* at a place that says how far the files are (AtPlace); it is alone       *)
(* (OneActive), its lease is alive (LeaseIsKept), and what the monitor     *)
(* remembers of the run was not its end (MonitorSaw).                      *)
(*                                                                         *)
(* Where users edit too, and leases may run out, the journal promises      *)
(* less: what was there before never came from the agent, and a rollback   *)
(* that cannot put back a file can never come to its end (EditedInv).      *)
(***************************************************************************)
EXTENDS AtomicDelivery, TLAPS

\* What is assumed of the constants of AtomicDelivery and of RunLease.
Setting ==
  /\ Assumptions
  /\ Nobody \notin Controller
  /\ TTL \in Nat \ {0} /\ MaxToken \in Nat

\* What is assumed of the deployment: one controller at a time, heartbeats in
\* time, and no crash after one that interrupted a rollback.
Sheltered ==
  Setting /\ OneAtATime /\ Punctual /\ LastInRollback

-----------------------------------------------------------------------------
(* The invariant.                                                          *)

InApply == {"apply", "persist_op"}
InRollback == {"rollback", "persist_rollback"}

\* Where in the list of operations a controller may be.
InPlace(a) ==
  /\ a.pc \in InApply \cup {"persist_rollback"} => a.pos \in File
  /\ a.pc = "rollback" => a.pos \in 0..NumFiles

TypeInv == TypeOK /\ \A c \in Controller : InPlace(act[c])

OneActive ==
  \A c, d \in Controller : ~At(c, "idle") /\ ~At(d, "idle") => c = d

Resumable == {"prepared", "applying", "verifying"}

NoneUndone(j) == \A f \in File : j.op[f] # "rolled_back"

\* No rollback has worked on this journal, or the last crash was in one.
Whole(j) == NoneUndone(j) \/ crashes = MaxCrashes

\* A rollback worked on these operations, and nothing has been applied since.
StillUndone(j) == \A f \in File : j.op[f] = "rolled_back" => file[f] = Old[f]

JournalIsSound ==
  /\ disk.before = Old
  /\ \A f \in File : file[f] \in {Old[f], New[f]}
  /\ disk.status = "none" => file = Old /\ NoneUndone(disk)
  /\ disk.status \in {"verifying", "committed"} => file = New
  /\ disk.status = "rolled_back" => file = Old
  /\ disk.status # "none" => backup = Old
  /\ disk.status \in Resumable => Whole(disk)
  /\ disk.status = "rolling_back" =>
       crashes = MaxCrashes \/ \E c \in Controller : act[c].pc \in InRollback
  /\ StillUndone(disk) \/ \E c \in Controller : act[c].pc = "persist_op"

\* Of a run that was delivered, or that is done, the journal is committed.
RunIsTrue == run.delivery \/ run.status = "done" => disk.status = "committed"

Executes(c) == ~At(c, "idle") /\ act[c].why # "monitor"

Kept(c) ==
  Executes(c) =>
    /\ run.status = "active"
    /\ run.lease.owner = c /\ run.lease.token = act[c].token /\ run.lease.left > 0
    /\ act[c].fence \in {0, act[c].token}

LeaseIsKept == \A c \in Controller : Kept(c)

Saw(c) ==
  act[c].why = "monitor" =>
    /\ act[c].pc \in InRollback \cup {"begin_rollback", "note_rolled_back"}
    /\ act[c].seen.status # "done" /\ ~act[c].seen.delivery

MonitorSaw == \A c \in Controller : Saw(c)

\* The journal in memory, from where it is complete to where it is undone.
Elsewhere == {"note_rolled_back", "failing", "finishing", "running"}

HasJournal(c) ==
  /\ act[c].j.before = Old
  /\ act[c].pc \notin Elsewhere => StillUndone(act[c].j)
  /\ act[c].pc \notin Elsewhere \cup InRollback => Whole(act[c].j)

StatusAt(pc) ==
  CASE pc \in {"check", "hash", "backup", "prepare"}   -> {"none"}
    [] pc = "note_prepared"                            -> {"prepared"}
    [] pc \in {"begin_apply", "begin_rollback"}        -> Resumable \cup {"rolling_back"}
    [] pc \in InApply \cup {"end_apply"}               -> {"applying"}
    [] pc \in {"note_applied", "verify", "commit"}     -> {"verifying"}
    [] pc \in {"note_committed", "record", "finishing"} -> {"committed"}
    [] pc \in InRollback                               -> {"rolling_back"}
    [] pc = "note_rolled_back"                         -> {"rolled_back"}
    [] OTHER                                           -> JournalStatus

\* How far the files are, and the list of what was done to them.
Progress(c) ==
  LET a == act[c] IN
  /\ a.pc = "prepare" => backup = Old
  /\ a.pc \in InApply \cup InRollback \cup {"end_apply"} => a.j.status = disk.status
  /\ a.pc = "apply" => \A f \in File : f < a.pos => file[f] = New[f]
  /\ a.pc = "persist_op" => \A f \in File : f <= a.pos => file[f] = New[f]
  /\ a.pc = "end_apply" => file = New
  /\ a.pc = "rollback" => \A f \in File : f > a.pos => file[f] = Old[f]
  /\ a.pc = "persist_rollback" => \A f \in File : f >= a.pos => file[f] = Old[f]

Placed(c) ==
  ~At(c, "idle") =>
    HasJournal(c) /\ disk.status \in StatusAt(act[c].pc) /\ Progress(c)

AtPlace == \A c \in Controller : Placed(c)

IInv ==
  /\ OneActive /\ JournalIsSound /\ RunIsTrue /\ LeaseIsKept /\ MonitorSaw /\ AtPlace

-----------------------------------------------------------------------------
(* Types.                                                                  *)

LEMMA LeaseTyped ==
  ASSUME Setting
  PROVE  /\ L!NoLease \in L!LeaseRec
         /\ \A l \in L!LeaseRec : Aged(l) \in L!LeaseRec
         /\ \A r \in RunRec : \A c \in Controller :
              LET l == L!Acquired(r.lease, r.last, r.epoch, c) IN
              /\ l.token <= MaxToken => l \in L!LeaseRec
              /\ l.owner = c /\ l.left = TTL
<1> USE DEF Setting, L!LeaseRec
<1>1. L!NoLease \in L!LeaseRec
  BY DEF L!NoLease
<1>2. \A l \in L!LeaseRec : Aged(l) \in L!LeaseRec
  BY DEF Aged
<1>3. ASSUME NEW r \in RunRec, NEW c \in Controller
      PROVE  LET l == L!Acquired(r.lease, r.last, r.epoch, c) IN
             /\ l.token <= MaxToken => l \in L!LeaseRec
             /\ l.owner = c /\ l.left = TTL
  <2> DEFINE l == L!Acquired(r.lease, r.last, r.epoch, c)
  <2>1. r.lease \in L!LeaseRec /\ r.last \in Nat /\ r.epoch \in Nat
    BY DEF RunRec
  <2>2. l.owner = c /\ l.left = TTL /\ l.token \in Nat
    BY <2>1 DEF L!Acquired, L!NextFencingToken, L!LargerOf
  <2>3. l.token <= MaxToken => l \in L!LeaseRec
    BY <2>2 DEF L!Acquired
  <2> QED BY <2>2, <2>3
<1> QED BY <1>1, <1>2, <1>3

LEMMA NewTyped ==
  ASSUME Setting
  PROVE  /\ NoJournal \in Journal /\ NewRun \in RunRec
         /\ Idle \in ActRec /\ InPlace(Idle)
<1>1. NoJournal \in Journal
  BY DEF Setting, Assumptions, NoJournal, Journal, JournalStatus, OpStatus, Content
<1>2. NewRun \in RunRec
  BY LeaseTyped DEF Setting, NewRun, RunRec, JournalStatus
<1>3. Idle \in ActRec
  BY <1>1, <1>2, LeaseTyped DEF Setting, Assumptions, Idle, ActRec, Pc
<1> QED BY <1>1, <1>2, <1>3 DEF Idle, InPlace, InApply

LEMMA RetiredTyped == ASSUME Setting, NEW r \in RunRec PROVE Retired(r) \in RunRec
BY LeaseTyped DEF Retired, RunRec, L!LeaseRec

LEMMA RepairedTyped == ASSUME Setting, NEW r \in RunRec PROVE Repaired(r) \in RunRec
BY RetiredTyped DEF Repaired, RunRec

\* A controller's step leaves a record of the right type in its place.
LEMMA SetTyped ==
  ASSUME TypeInv, NEW c \in Controller, NEW a \in ActRec, InPlace(a), Set(c, a)
  PROVE  act' \in [Controller -> ActRec] /\ \A d \in Controller : InPlace(act'[d])
BY DEF TypeInv, TypeOK, Set

LEMMA ActTyped ==
  ASSUME TypeInv, NEW c \in Controller
  PROVE  /\ act[c] \in ActRec /\ InPlace(act[c])
         /\ act[c].j \in Journal /\ act[c].lease \in L!LeaseRec /\ act[c].seen \in RunRec
         /\ disk \in Journal /\ run \in RunRec /\ run.lease \in L!LeaseRec
BY DEF TypeInv, TypeOK, ActRec, RunRec

\* The journal of a record is only ever changed in its status and its list.
LEMMA JournalTyped ==
  ASSUME NEW j \in Journal
  PROVE  /\ \A s \in JournalStatus : [j EXCEPT !.status = s] \in Journal
         /\ \A f \in File : \A o \in OpStatus : [j EXCEPT !.op[f] = o] \in Journal
BY DEF Journal

\* Where the list of operations begins and ends, and the place before and
\* after another.
LEMMA Places ==
  ASSUME Setting
  PROVE  /\ 1 \in File /\ NumFiles \in 0..NumFiles /\ File \subseteq 0..NumFiles + 1
         /\ 0..NumFiles \subseteq 0..NumFiles + 1
         /\ \A p \in File : /\ p - 1 \in 0..NumFiles /\ p + 1 \in 0..NumFiles + 1
                            /\ p # NumFiles => p + 1 \in File
BY DEF Setting, Assumptions, File

LEMMA StartTyped ==
  ASSUME Setting, TypeInv, NEW c \in Controller, Start(c) PROVE TypeInv'
<1> DEFINE l == L!Acquired(run.lease, run.last, run.epoch, c)
           a == [Idle EXCEPT !.pc = "running", !.token = l.token]
<1>1. l.token <= MaxToken /\ Set(c, a) /\ UNCHANGED <<file, backup, disk, crashes, edits>>
      /\ run' = [run EXCEPT !.status = "active", !.lease = l, !.epoch = l.token]
  BY DEF Start
<1>2. l \in L!LeaseRec /\ l.token \in 0..MaxToken
  BY <1>1, LeaseTyped, ActTyped DEF L!LeaseRec
<1>3. a \in ActRec /\ InPlace(a)
  BY <1>2, NewTyped DEF ActRec, InPlace, InApply, Pc, Idle
<1>4. run' \in RunRec
  BY <1>1, <1>2, ActTyped DEF RunRec
<1> HIDE DEF l, a
<1> QED BY <1>1, <1>3, <1>4, SetTyped DEF TypeInv, TypeOK

LEMMA GotoTyped ==
  ASSUME Setting, TypeInv, NEW c \in Controller, NEW pc \in Pc,
         pc \notin InApply \cup InRollback, Goto(c, pc)
  PROVE  act' \in [Controller -> ActRec] /\ \A d \in Controller : InPlace(act'[d])
<1> DEFINE a == [act[c] EXCEPT !.pc = pc]
<1>1. a \in ActRec /\ InPlace(a)
  BY ActTyped DEF ActRec, InPlace, InRollback
<1> QED BY <1>1, SetTyped DEF Goto

\* The note of a journal's status in the run record.
LEMMA NoteTyped ==
  ASSUME Setting, TypeInv, NEW c \in Controller, NEW next \in Pc, NEW refused \in Pc,
         {next, refused} \cap (InApply \cup InRollback) = {}, Note(c, next, refused)
  PROVE  /\ run' \in RunRec /\ act' \in [Controller -> ActRec]
         /\ \A d \in Controller : InPlace(act'[d])
<1>1. CASE DeliveryAsserts(run.lease, act[c].fence)
  <2> DEFINE a == [act[c] EXCEPT !.pc = next, !.lease = run.lease]
  <2>1. Set(c, a) /\ run' = [run EXCEPT !.txn = act[c].j.status]
    BY <1>1 DEF Note
  <2>2. a \in ActRec /\ InPlace(a)
    BY ActTyped DEF ActRec, InPlace, InRollback
  <2>3. act[c].j.status \in JournalStatus
    BY ActTyped DEF Journal
  <2>4. run' \in RunRec
    BY <2>1, <2>3, ActTyped DEF RunRec
  <2> HIDE DEF a
  <2> QED BY <2>1, <2>2, <2>4, SetTyped
<1>2. CASE ~DeliveryAsserts(run.lease, act[c].fence)
  <2> DEFINE a == [act[c] EXCEPT !.pc = refused,
                     !.why = IF refused = "begin_rollback" THEN "fenced" ELSE @]
  <2>1. Set(c, a) /\ run' = run
    BY <1>2 DEF Note
  <2>2. a \in ActRec /\ InPlace(a)
    BY ActTyped DEF ActRec, InPlace, InRollback
  <2> HIDE DEF a
  <2> QED BY <2>1, <2>2, ActTyped, SetTyped
<1> QED BY <1>1, <1>2

\* The steps of a delivery up to its first journal.
LEMMA PreparationTyped ==
  ASSUME Setting, TypeInv, NEW c \in Controller,
         Deliver(c) \/ CheckBaseline(c) \/ HashTargets(c) \/ BackUp(c) \/ Prepare(c) \/ NotePrepared(c)
  PROVE  TypeInv'
<1> USE DEF TypeInv, TypeOK
<1>1. CASE Deliver(c)
  <2> DEFINE pc == IF run.delivery THEN "finishing"
                   ELSE IF ~DeliveryAsserts(run.lease, run.lease.token) THEN "failing"
                   ELSE ResumeAt(disk.status)
             a == [act[c] EXCEPT !.j = disk, !.lease = run.lease, !.fence = run.lease.token, !.pc = pc]
  <2>1. Set(c, a) /\ UNCHANGED <<file, backup, disk, run, crashes, edits>>
    BY <1>1 DEF Deliver
  <2>2. pc \in Pc /\ pc \notin InApply \cup InRollback
    BY DEF ResumeAt, Pc, InApply, InRollback
  <2>3. run.lease.token \in 0..MaxToken
    BY ActTyped DEF L!LeaseRec
  <2>4. a \in ActRec /\ InPlace(a)
    BY <2>2, <2>3, ActTyped DEF ActRec, InPlace, InRollback
  <2> HIDE DEF a
  <2> QED BY <2>1, <2>4, SetTyped
<1>2. CASE CheckBaseline(c)
  BY <1>2, GotoTyped DEF CheckBaseline, Pc, InApply, InRollback
<1>3. CASE HashTargets(c)
  <2> DEFINE a == [act[c] EXCEPT !.pc = "backup", !.j.before = file]
  <2>1. Set(c, a) /\ UNCHANGED <<file, backup, disk, run, crashes, edits>>
    BY <1>3 DEF HashTargets
  <2>2. [act[c].j EXCEPT !.before = file] \in Journal
    BY ActTyped DEF Journal
  <2>3. a \in ActRec /\ InPlace(a)
    BY <2>2, ActTyped DEF ActRec, InPlace, InApply, Pc
  <2> HIDE DEF a
  <2> QED BY <2>1, <2>3, SetTyped
<1>4. CASE BackUp(c)
  BY <1>4, GotoTyped DEF BackUp, Pc, InApply, InRollback
<1>5. CASE Prepare(c)
  <2> DEFINE j == [act[c].j EXCEPT !.status = "prepared"]
             a == [act[c] EXCEPT !.j = j, !.pc = "note_prepared"]
  <2>1. Set(c, a) /\ disk' = j /\ UNCHANGED <<file, backup, run, crashes, edits>>
    BY <1>5 DEF Prepare, Persist
  <2>2. j \in Journal
    BY ActTyped, JournalTyped DEF JournalStatus
  <2>3. a \in ActRec /\ InPlace(a)
    BY <2>2, ActTyped DEF ActRec, InPlace, InApply, Pc
  <2> HIDE DEF a, j
  <2> QED BY <2>1, <2>2, <2>3, SetTyped
<1>6. CASE NotePrepared(c)
  BY <1>6, NoteTyped DEF NotePrepared, Pc, InApply, InRollback
<1> QED BY <1>1, <1>2, <1>3, <1>4, <1>5, <1>6

\* The application, the validation and the commit.
LEMMA ApplicationTyped ==
  ASSUME Setting, TypeInv, NEW c \in Controller,
         \/ ApplyBegins(c) \/ ApplyOp(c) \/ PersistOp(c) \/ ApplyEnds(c) \/ NoteApplied(c)
         \/ Verify(c) \/ Commit(c) \/ NoteCommitted(c) \/ Record(c)
  PROVE  TypeInv'
<1> USE DEF TypeInv, TypeOK
<1>1. CASE ApplyBegins(c)
  <2> DEFINE j == [act[c].j EXCEPT !.status = "applying"]
             a == [act[c] EXCEPT !.j = j, !.pc = "apply", !.pos = 1]
  <2>1. Set(c, a) /\ disk' = j /\ UNCHANGED <<file, backup, run, crashes, edits>>
    BY <1>1 DEF ApplyBegins
  <2>2. j \in Journal
    BY ActTyped, JournalTyped DEF JournalStatus
  <2>3. a \in ActRec /\ InPlace(a)
    BY <2>2, ActTyped, Places DEF ActRec, InPlace, InApply, InRollback, Pc
  <2> HIDE DEF a, j
  <2> QED BY <2>1, <2>2, <2>3, SetTyped
<1>2. CASE ApplyOp(c)
  <2> DEFINE f == act[c].pos
             a == [act[c] EXCEPT !.pc = "persist_op", !.j.op[f] = "applied"]
  <2>1. f \in File
    BY <1>2, ActTyped DEF ApplyOp, At, InPlace, InApply
  <2>2. CASE IsApplied(f) \/ IsBaseline(act[c].j, f)
    <3>1. Set(c, a) /\ file' = [file EXCEPT ![f] = New[f]]
          /\ UNCHANGED <<backup, disk, run, crashes, edits>>
      BY <1>2, <2>2 DEF ApplyOp
    <3>2. [act[c].j EXCEPT !.op[f] = "applied"] \in Journal
      BY <2>1, ActTyped, JournalTyped DEF OpStatus
    <3>3. a \in ActRec /\ InPlace(a)
      BY <2>1, <3>2, ActTyped DEF ActRec, InPlace, InApply, InRollback, Pc
    <3>4. file' \in [File -> Content]
      BY <2>1, <3>1 DEF Setting, Assumptions, Content
    <3> HIDE DEF a
    <3> QED BY <3>1, <3>3, <3>4, SetTyped
  <2>3. CASE ~(IsApplied(f) \/ IsBaseline(act[c].j, f))
    BY <1>2, <2>3, GotoTyped DEF ApplyOp, Pc, InApply, InRollback
  <2> QED BY <2>2, <2>3
<1>3. CASE PersistOp(c)
  <2> DEFINE pos == act[c].pos + 1
             pc == IF act[c].pos = NumFiles THEN "end_apply" ELSE "apply"
             a == [act[c] EXCEPT !.pos = pos, !.pc = pc]
  <2>1. Set(c, a) /\ disk' = act[c].j /\ UNCHANGED <<file, backup, run, crashes, edits>>
    BY <1>3 DEF PersistOp
  <2>2. act[c].pos \in File
    BY <1>3, ActTyped DEF PersistOp, At, InPlace, InApply
  <2>3. pos \in 0 .. NumFiles + 1 /\ (pc = "apply" => pos \in File) /\ pc \in {"end_apply", "apply"}
    BY <2>2, Places
  <2> HIDE DEF pos, pc
  <2>4. act[c] \in ActRec /\ pc \in Pc
    BY <2>3, ActTyped DEF Pc
  <2>5. a \in ActRec /\ a.pos = pos /\ a.pc = pc
    BY <2>3, <2>4 DEF ActRec
  <2> HIDE DEF a
  <2>6. InPlace(a)
    BY <2>3, <2>5 DEF InPlace, InApply
  <2> QED BY <2>1, <2>5, <2>6, ActTyped, SetTyped
<1>4. CASE ApplyEnds(c)
  <2> DEFINE j == [act[c].j EXCEPT !.status = "verifying"]
             a == [act[c] EXCEPT !.j = j, !.pc = "note_applied"]
  <2>1. Set(c, a) /\ disk' = j /\ UNCHANGED <<file, backup, run, crashes, edits>>
    BY <1>4 DEF ApplyEnds, Persist
  <2>2. j \in Journal
    BY ActTyped, JournalTyped DEF JournalStatus
  <2>3. a \in ActRec /\ InPlace(a)
    BY <2>2, ActTyped DEF ActRec, InPlace, InApply, Pc
  <2> HIDE DEF a, j
  <2> QED BY <2>1, <2>2, <2>3, SetTyped
<1>5. CASE NoteApplied(c)
  BY <1>5, NoteTyped DEF NoteApplied, Pc, InApply, InRollback
<1>6. CASE Verify(c)
  <2>1. UNCHANGED <<file, backup, disk, run, crashes, edits>>
    BY <1>6 DEF Verify
  <2>2. CASE Goto(c, "commit")
    BY <2>1, <2>2, GotoTyped DEF Pc, InApply, InRollback
  <2>3. CASE Set(c, [act[c] EXCEPT !.pc = "begin_rollback", !.why = "rejected"])
    <3> DEFINE a == [act[c] EXCEPT !.pc = "begin_rollback", !.why = "rejected"]
    <3>1. a \in ActRec /\ InPlace(a)
      BY ActTyped DEF ActRec, InPlace, InApply, Pc
    <3> QED BY <2>1, <2>3, <3>1, SetTyped
  <2> QED BY <1>6, <2>2, <2>3 DEF Verify
<1>7. CASE Commit(c)
  <2>1. CASE DeliveryAsserts(act[c].lease, act[c].fence)
    <3> DEFINE j == [act[c].j EXCEPT !.status = "committed",
                       !.op = [f \in File |-> IF @[f] = "applied" THEN "committed" ELSE @[f]]]
               a == [act[c] EXCEPT !.j = j, !.pc = "note_committed"]
    <3>1. Set(c, a) /\ disk' = j /\ UNCHANGED <<file, backup, run, crashes, edits>>
      BY <1>7, <2>1 DEF Commit, Persist
    <3>2. j \in Journal
      BY ActTyped DEF Journal, JournalStatus, OpStatus
    <3>3. a \in ActRec /\ InPlace(a)
      BY <3>2, ActTyped DEF ActRec, InPlace, InApply, Pc
    <3> HIDE DEF a, j
    <3> QED BY <3>1, <3>2, <3>3, SetTyped
  <2>2. CASE ~DeliveryAsserts(act[c].lease, act[c].fence)
    <3> DEFINE a == [act[c] EXCEPT !.pc = "begin_rollback", !.why = "fenced"]
    <3>1. Set(c, a) /\ UNCHANGED <<file, backup, disk, run, crashes, edits>>
      BY <1>7, <2>2 DEF Commit
    <3>2. a \in ActRec /\ InPlace(a)
      BY ActTyped DEF ActRec, InPlace, InApply, Pc
    <3> HIDE DEF a
    <3> QED BY <3>1, <3>2, SetTyped
  <2> QED BY <2>1, <2>2
<1>8. CASE NoteCommitted(c)
  BY <1>8, NoteTyped DEF NoteCommitted, Pc, InApply, InRollback
<1>9. CASE Record(c)
  <2>1. PICK pc \in {"finishing", "failing"} : Goto(c, pc)
    BY <1>9 DEF Record
  <2>2. act' \in [Controller -> ActRec] /\ \A d \in Controller : InPlace(act'[d])
    BY <2>1, GotoTyped DEF Pc, InApply, InRollback
  <2>3. run' = run \/ run' = [run EXCEPT !.delivery = TRUE, !.txn = "committed"]
    BY <1>9 DEF Record
  <2>4. run' \in RunRec
    BY <2>3, ActTyped DEF RunRec, JournalStatus
  <2> QED BY <1>9, <2>2, <2>4 DEF Record
<1> QED BY <1>1, <1>2, <1>3, <1>4, <1>5, <1>6, <1>7, <1>8, <1>9

\* The rollback.
LEMMA RollbackTyped ==
  ASSUME Setting, TypeInv, NEW c \in Controller,
         \/ RollbackBegins(c) \/ RollbackOp(c) \/ PersistRollback(c) \/ RollbackEnds(c)
         \/ NoteRolledBack(c)
  PROVE  TypeInv'
<1> USE DEF TypeInv, TypeOK
<1>1. CASE RollbackBegins(c)
  <2> DEFINE j == [act[c].j EXCEPT !.status = "rolling_back"]
             a == [act[c] EXCEPT !.j = j, !.pc = "rollback", !.pos = NumFiles]
  <2>1. Set(c, a) /\ disk' = j /\ UNCHANGED <<file, backup, run, crashes, edits>>
    BY <1>1 DEF RollbackBegins
  <2>2. j \in Journal
    BY ActTyped, JournalTyped DEF JournalStatus
  <2>3. a \in ActRec /\ InPlace(a)
    BY <2>2, ActTyped, Places DEF ActRec, InPlace, InApply, InRollback, Pc
  <2> HIDE DEF a, j
  <2> QED BY <2>1, <2>2, <2>3, SetTyped
<1>2. CASE RollbackOp(c)
  <2> DEFINE f == act[c].pos
             less == [act[c] EXCEPT !.pos = @ - 1]
             marked == [act[c] EXCEPT !.pc = "persist_rollback", !.j.op[f] = "rolled_back"]
  <2>1. f \in File /\ act[c].pc = "rollback"
    BY <1>2, ActTyped DEF Setting, Assumptions, RollbackOp, At, InPlace, File
  <2>2. less \in ActRec /\ InPlace(less)
    BY <2>1, ActTyped, Places DEF ActRec, InPlace, InApply, Pc
  <2>3. [act[c].j EXCEPT !.op[f] = "rolled_back"] \in Journal
    BY <2>1, ActTyped, JournalTyped DEF OpStatus
  <2>4. marked \in ActRec /\ InPlace(marked)
    <3>1. act[c] \in ActRec
      BY ActTyped
    <3>2. marked = [act[c] EXCEPT !.pc = "persist_rollback",
                                  !.j = [act[c].j EXCEPT !.op[f] = "rolled_back"]]
      BY <3>1 DEF ActRec
    <3>3. marked \in ActRec
      BY <2>3, <3>1, <3>2 DEF ActRec, Pc
    <3>4. marked.pc = "persist_rollback" /\ marked.pos = f
      BY <3>1 DEF ActRec
    <3> QED BY <2>1, <3>3, <3>4 DEF InPlace
  <2>5. act' \in [Controller -> ActRec] /\ \A d \in Controller : InPlace(act'[d])
    <3>1. Set(c, less) \/ Set(c, marked) \/ Goto(c, "failing")
      BY <1>2 DEF RollbackOp
    <3> HIDE DEF less, marked
    <3> QED BY <2>2, <2>4, <3>1, SetTyped, GotoTyped DEF Pc, InApply, InRollback
  <2>6. file' = file \/ file' = [file EXCEPT ![f] = act[c].j.before[f]]
    BY <1>2 DEF RollbackOp
  <2>7. act[c].j.before \in [File -> Content]
    BY ActTyped DEF Journal
  <2>8. file' \in [File -> Content]
    BY <2>1, <2>6, <2>7
  <2> QED BY <1>2, <2>5, <2>8 DEF RollbackOp
<1>3. CASE PersistRollback(c)
  <2> DEFINE pos == act[c].pos - 1
             a == [act[c] EXCEPT !.pos = pos, !.pc = "rollback"]
  <2>1. Set(c, a) /\ disk' = act[c].j /\ UNCHANGED <<file, backup, run, crashes, edits>>
    BY <1>3 DEF PersistRollback
  <2>2. act[c].pos \in File
    BY <1>3, ActTyped DEF PersistRollback, At, InPlace, InApply
  <2>3. pos \in 0 .. NumFiles /\ pos \in 0 .. NumFiles + 1
    BY <2>2, Places
  <2> HIDE DEF pos
  <2>4. act[c] \in ActRec /\ "rollback" \in Pc
    BY ActTyped DEF Pc
  <2>5. a \in ActRec /\ a.pos = pos /\ a.pc = "rollback"
    BY <2>3, <2>4 DEF ActRec
  <2> HIDE DEF a
  <2>6. InPlace(a)
    BY <2>3, <2>5 DEF InPlace, InApply
  <2> QED BY <2>1, <2>5, <2>6, ActTyped, SetTyped
<1>4. CASE RollbackEnds(c)
  <2> DEFINE j == [act[c].j EXCEPT !.status = "rolled_back"]
             a == [act[c] EXCEPT !.j = j, !.pc = "note_rolled_back"]
  <2>1. Set(c, a) /\ disk' = j /\ UNCHANGED <<file, backup, run, crashes, edits>>
    BY <1>4 DEF RollbackEnds, Persist
  <2>2. j \in Journal
    BY ActTyped, JournalTyped DEF JournalStatus
  <2>3. a \in ActRec /\ InPlace(a)
    BY <2>2, ActTyped DEF ActRec, InPlace, InApply, Pc
  <2> HIDE DEF a, j
  <2> QED BY <2>1, <2>2, <2>3, SetTyped
<1>5. CASE NoteRolledBack(c)
  BY <1>5, NoteTyped DEF NoteRolledBack, Pc, InApply, InRollback
<1> QED BY <1>1, <1>2, <1>3, <1>4, <1>5

LEMMA ReleasedTyped ==
  ASSUME Setting, NEW r \in RunRec, NEW c PROVE Released(r, c) \in RunRec
BY RetiredTyped DEF Released

\* The monitor, and the end of an execution.
LEMMA EndTyped ==
  ASSUME Setting, TypeInv, NEW c \in Controller,
         MonitorRepairs(c) \/ MonitorRollback(c) \/ MonitorSaves(c) \/ Fail(c) \/ Finish(c)
  PROVE  TypeInv'
<1> USE DEF TypeInv, TypeOK
<1>1. CASE MonitorRepairs(c)
  BY <1>1, ActTyped, RepairedTyped DEF MonitorRepairs
<1>2. CASE MonitorRollback(c)
  <2> DEFINE a == [Idle EXCEPT !.pc = "begin_rollback", !.j = disk, !.seen = run,
                               !.why = "monitor"]
  <2>1. Set(c, a) /\ UNCHANGED <<file, backup, disk, run, crashes, edits>>
    BY <1>2 DEF MonitorRollback
  <2>2. a \in ActRec /\ InPlace(a)
    BY NewTyped, ActTyped DEF ActRec, InPlace, InApply, Pc
  <2> HIDE DEF a
  <2> QED BY <2>1, <2>2, SetTyped
<1>3. CASE MonitorSaves(c)
  <2> DEFINE fixed == Repaired(act[c].seen)
  <2>1. fixed \in RunRec /\ run \in RunRec
    BY ActTyped, RepairedTyped
  <2>2. Set(c, Idle) /\ UNCHANGED <<file, backup, disk, crashes, edits>>
        /\ run' \in {[fixed EXCEPT !.txn = "rolled_back"], run, fixed}
    BY <1>3 DEF MonitorSaves
  <2>3. [fixed EXCEPT !.txn = "rolled_back"] \in RunRec
    BY <2>1 DEF RunRec, JournalStatus
  <2> HIDE DEF fixed
  <2> QED BY <2>1, <2>2, <2>3, NewTyped, SetTyped
<1>4. CASE Fail(c)
  <2>1. Set(c, Idle) /\ UNCHANGED <<file, backup, disk, crashes, edits>>
        /\ run' \in {run, Released([run EXCEPT !.status = "failed"], c)}
    BY <1>4 DEF Fail
  <2>2. [run EXCEPT !.status = "failed"] \in RunRec
    BY ActTyped DEF RunRec
  <2>3. run' \in RunRec
    BY <2>1, <2>2, ActTyped, ReleasedTyped
  <2> QED BY <2>1, <2>3, NewTyped, SetTyped
<1>5. CASE Finish(c)
  <2>1. CASE run.status = "failed"
    BY <1>5, <2>1, GotoTyped DEF Finish, Pc, InApply, InRollback
  <2>2. CASE run.status # "failed"
    <3>1. [run EXCEPT !.status = "done"] \in RunRec
      BY ActTyped DEF RunRec
    <3>2. run' \in RunRec
      BY <1>5, <2>2, <3>1, ReleasedTyped DEF Finish
    <3> QED BY <1>5, <2>2, <3>2, NewTyped, SetTyped DEF Finish
  <2> QED BY <2>1, <2>2
<1> QED BY <1>1, <1>2, <1>3, <1>4, <1>5

\* What interrupts a delivery, and time.
LEMMA EnvironmentTyped ==
  ASSUME Setting, TypeInv,
         \/ \E c \in Controller : Heartbeat(c) \/ Stop(c) \/ Crash(c)
         \/ Interrupt \/ (\E f \in File : UserEdits(f)) \/ Tick
  PROVE  TypeInv'
<1> USE DEF TypeInv, TypeOK
<1>1. ASSUME NEW c \in Controller, Heartbeat(c) PROVE TypeInv'
  <2>1. run' = run \/ run' = [run EXCEPT !.lease.left = TTL]
    BY <1>1 DEF Heartbeat
  <2>2. [run.lease EXCEPT !.left = TTL] \in L!LeaseRec
    BY ActTyped DEF Setting, L!LeaseRec
  <2>3. run' \in RunRec
    BY <2>1, <2>2, ActTyped DEF RunRec
  <2>4. act' = act \/ Goto(c, "failing")
    BY <1>1 DEF Heartbeat
  <2>5. act' \in [Controller -> ActRec] /\ \A d \in Controller : InPlace(act'[d])
    BY <2>4, GotoTyped DEF Pc, InApply, InRollback
  <2> QED BY <1>1, <2>3, <2>5 DEF Heartbeat
<1>2. ASSUME NEW c \in Controller, Stop(c) PROVE TypeInv'
  BY <1>2, GotoTyped DEF Stop, Pc, InApply, InRollback
<1>3. ASSUME NEW c \in Controller, Crash(c) PROVE TypeInv'
  <2>1. crashes' \in 0..MaxCrashes
    BY <1>3 DEF Crash, Setting, Assumptions
  <2> QED BY <1>3, <2>1, NewTyped, SetTyped DEF Crash
<1>4. CASE Interrupt
  <2>1. run' \in RunRec
    BY <1>4 DEF Interrupt, RunRec
  <2> QED BY <1>4, <2>1 DEF Interrupt
<1>5. ASSUME NEW f \in File, UserEdits(f) PROVE TypeInv'
  <2>1. edits' \in 0..MaxEdits
    BY <1>5 DEF UserEdits, Setting, Assumptions
  <2>2. file' \in [File -> Content]
    BY <1>5 DEF UserEdits, Content
  <2> QED BY <1>5, <2>1, <2>2 DEF UserEdits
<1>6. CASE Tick
  <2>1. \A c \in Controller : act'[c] \in ActRec /\ InPlace(act'[c])
    <3> SUFFICES ASSUME NEW c \in Controller PROVE act'[c] \in ActRec /\ InPlace(act'[c])
      OBVIOUS
    <3>1. act'[c] = [act[c] EXCEPT !.lease = Aged(@)]
      BY <1>6 DEF Tick
    <3>2. Aged(act[c].lease) \in L!LeaseRec
      BY ActTyped, LeaseTyped
    <3> QED BY <3>1, <3>2, ActTyped DEF ActRec, InPlace
  <2>2. run' \in RunRec
    <3>1. Aged(run.lease) \in L!LeaseRec
      BY LeaseTyped DEF RunRec
    <3> QED BY <1>6, <3>1 DEF Tick, RunRec
  <2> QED BY <1>6, <2>1, <2>2 DEF Tick
<1> QED BY <1>1, <1>2, <1>3, <1>4, <1>5, <1>6

LEMMA StepTyped == ASSUME Setting, TypeInv, [Next]_vars PROVE TypeInv'
<1>1. CASE UNCHANGED vars
  BY <1>1 DEF vars, TypeInv, TypeOK, InPlace, InApply
<1>2. CASE Next
  BY <1>2, StartTyped, PreparationTyped, ApplicationTyped, RollbackTyped, EndTyped,
     EnvironmentTyped
  DEF Next, Work
<1> QED BY <1>1, <1>2

LEMMA InitTyped == ASSUME Setting, Init PROVE TypeInv
BY NewTyped DEF Setting, Assumptions, Init, TypeInv, TypeOK, Content

\* Every variable of a delivery has its type in every reachable state,
\* whatever crashes, edits and late heartbeats there are.
THEOREM DeliveryTypeCorrect == ASSUME Setting PROVE Spec => []TypeOK
<1>1. TypeInv => TypeOK
  BY DEF TypeInv
<1> QED BY <1>1, InitTyped, StepTyped, PTL DEF Spec

-----------------------------------------------------------------------------
(* The invariant is kept.                                                  *)

Others(c) == \A d \in Controller \ {c} : At(d, "idle")

\* Nobody is between two writes of one operation, or in a rollback.
Calm == \A c \in Controller : act[c].pc \notin InRollback \cup {"persist_op"}

\* No user has edited yet, nor does in this step.
Unedited == edits = 0 /\ edits' = 0

\* A journal a controller can go on with.
Resumed(j) == Whole(j) /\ StillUndone(j)

\* What is known when controller c, or the monitor in its process, is at work.
LEMMA ActiveFacts ==
  ASSUME TypeInv, IInv, NEW c \in Controller, ~At(c, "idle")
  PROVE  /\ Others(c) /\ JournalIsSound /\ RunIsTrue
         /\ Kept(c) /\ Saw(c) /\ HasJournal(c) /\ disk.status \in StatusAt(act[c].pc)
         /\ Progress(c)
         /\ disk.status = "rolling_back" => act[c].pc \in InRollback \/ crashes = MaxCrashes
         /\ act[c].pc # "persist_op" => StillUndone(disk)
         /\ act[c].pc \notin InRollback \cup {"persist_op"} => Calm
BY DEF IInv, OneActive, Others, LeaseIsKept, MonitorSaw, AtPlace, Placed, JournalIsSound,
       At, InRollback, Calm

\* The same, place by place.
LEMMA PlaceFacts ==
  ASSUME TypeInv, IInv, NEW c \in Controller, ~At(c, "idle")
  PROVE  LET pc == act[c].pc IN
         /\ act[c].j.before = Old
         /\ pc \notin Elsewhere => StillUndone(act[c].j)
         /\ pc \notin Elsewhere \cup InRollback => Resumed(act[c].j)
         /\ pc \in {"check", "hash", "backup", "prepare"} => disk.status = "none" /\ file = Old
         /\ pc = "prepare" => backup = Old
         /\ pc = "note_prepared" => disk.status = "prepared"
         /\ pc \in {"begin_apply", "begin_rollback"} => disk.status \in Resumable \cup {"rolling_back"}
         /\ pc \in InApply \cup {"end_apply"} => disk.status = "applying"
         /\ pc \in {"note_applied", "verify", "commit"} => disk.status = "verifying"
         /\ pc \in {"note_committed", "record", "finishing"} => disk.status = "committed"
         /\ pc \in InRollback => disk.status = "rolling_back"
         /\ pc = "note_rolled_back" => disk.status = "rolled_back"
         /\ pc \in InApply \cup InRollback \cup {"end_apply"} => act[c].j.status = disk.status
<1>1. JournalIsSound /\ HasJournal(c) /\ disk.status \in StatusAt(act[c].pc) /\ Progress(c)
  BY ActiveFacts
<1>2. /\ disk.status = "none" => file = Old
      /\ act[c].pc = "prepare" => backup = Old
      /\ act[c].pc \in InApply \cup InRollback \cup {"end_apply"} =>
           act[c].j.status = disk.status
  BY <1>1 DEF JournalIsSound, Progress
<1>3. /\ act[c].pc \notin Elsewhere => StillUndone(act[c].j)
      /\ act[c].pc \notin Elsewhere \cup InRollback => Resumed(act[c].j)
  BY <1>1 DEF HasJournal, Resumed
<1> QED BY <1>1, <1>2, <1>3 DEF HasJournal, StatusAt, InApply, InRollback

\* Only the controller that moves has to be looked at.
LEMMA OneMoves ==
  ASSUME TypeInv, IInv, NEW c \in Controller, Others(c), NEW a, Set(c, a),
         JournalIsSound', RunIsTrue', Kept(c)', Saw(c)', Placed(c)'
  PROVE  IInv'
<1>1. act' = [act EXCEPT ![c] = a] /\ act \in [Controller -> ActRec]
  BY DEF Set, TypeInv, TypeOK
<1>2. ASSUME NEW d \in Controller, d # c
      PROVE  act'[d] = act[d] /\ act[d].pc = "idle" /\ act[d].why # "monitor"
  <2>1. act'[d] = act[d] /\ act[d].pc = "idle"
    BY <1>1, <1>2 DEF Others, At
  <2> QED BY <2>1, <1>2 DEF IInv, MonitorSaw, Saw, InRollback
<1>3. OneActive'
  BY <1>2 DEF OneActive, At
<1>4. \A d \in Controller : Kept(d)' /\ Saw(d)' /\ Placed(d)'
  BY <1>2 DEF Kept, Executes, Saw, Placed, At
<1> QED BY <1>3, <1>4 DEF IInv, LeaseIsKept, MonitorSaw, AtPlace

\* Nothing happens to the project or to its journal.
LEMMA Rests ==
  ASSUME JournalIsSound, UNCHANGED <<file, backup, disk, crashes>>, Calm
  PROVE  JournalIsSound'
BY DEF JournalIsSound, Whole, StillUndone, NoneUndone, Calm

LEMMA KeepsLease ==
  ASSUME NEW c, Kept(c), Executes(c), run'.status = run.status, run'.lease = run.lease,
         act'[c].token = act[c].token, act'[c].fence = act[c].fence
  PROVE  Kept(c)'
BY DEF Kept, Executes

\* The lease of a controller at work is never found wanting.
LEMMA LeaseAsserted ==
  ASSUME TypeInv, NEW c \in Controller, Kept(c), Executes(c)
  PROVE  DeliveryAsserts(run.lease, act[c].fence)
<1>1. run.lease.left > 0 /\ run.lease.token = act[c].token /\ act[c].fence \in {0, act[c].token}
  BY DEF Kept
<1> QED BY <1>1 DEF DeliveryAsserts, L!Asserts, L!HeldBy, L!Expired

\* A step as ProjectDelivery allows it.
Delivered == [Delivery!Next]_(Delivery!vars)

LEMMA NothingDelivered ==
  ASSUME Unedited, file' = file,
         disk'.status = disk.status \/ {disk.status, disk'.status} \cap Settled = {}
  PROVE  Delivered
BY DEF Unedited, Delivered, Delivery!vars, Settled

LEMMA FileDelivered ==
  ASSUME Unedited, disk.status \notin Settled, disk' = disk, NEW f \in File,
         NEW content \in {Old[f], New[f]}, file' = [file EXCEPT ![f] = content]
  PROVE  Delivered
<1>1. Delivery!Change(f)
  BY DEF Delivery!Change, Settled
<1> QED BY <1>1 DEF Unedited, Delivered, Delivery!Next

LEMMA StartKeeps ==
  ASSUME Sheltered, TypeInv, IInv, Unedited, NEW c \in Controller, Start(c)
  PROVE  IInv' /\ Delivered
<1> DEFINE l == L!Acquired(run.lease, run.last, run.epoch, c)
           a == [Idle EXCEPT !.pc = "running", !.token = l.token]
<1>1. Set(c, a) /\ UNCHANGED <<file, backup, disk, crashes, edits>>
      /\ run' = [run EXCEPT !.status = "active", !.lease = l, !.epoch = l.token]
      /\ run.status # "done" /\ act[c].pc = "idle" /\ Others(c)
  BY DEF Start, Sheltered, Alone, Others, At
<1>2. l.owner = c /\ l.left = TTL
  BY LeaseTyped, ActTyped DEF Sheltered
<1>3. Calm
  BY <1>1 DEF Calm, Others, At, InRollback
<1>4. JournalIsSound'
  BY <1>1, <1>3, Rests DEF IInv
<1>5. act'[c] = a /\ run' \in [status : {"active"}, delivery : {run.delivery}, txn : {run.txn},
                              lease : {l}, last : {run.last}, epoch : {l.token}]
  BY <1>1, ActTyped DEF Set, TypeInv, TypeOK, RunRec
<1>6. RunIsTrue'
  BY <1>1, <1>5 DEF IInv, RunIsTrue
<1>7. Kept(c)' /\ Saw(c)' /\ Placed(c)'
  <2>1. Kept(c)'
    BY <1>2, <1>5 DEF Kept, Idle, Sheltered, Setting
  <2>2. Saw(c)'
    BY <1>5 DEF Saw, Idle
  <2>3. Placed(c)'
    <3>1. disk'.status \in JournalStatus
      BY <1>1, ActTyped DEF Journal
    <3> QED BY <1>5, <3>1
        DEF Placed, HasJournal, Elsewhere, Progress, StatusAt, Idle, NoJournal, InApply,
            InRollback
  <2> QED BY <2>1, <2>2, <2>3
<1> HIDE DEF a
<1> QED BY <1>1, <1>4, <1>6, <1>7, OneMoves, NothingDelivered

\* A step that leaves the project, the journal and the lease alone.
LEMMA QuietStep ==
  ASSUME TypeInv, IInv, Unedited, NEW c \in Controller, ~At(c, "idle"), Executes(c), NEW a,
         Set(c, a), act[c].pc \notin InRollback \cup {"persist_op"},
         UNCHANGED <<file, backup, disk, crashes>>,
         run' = run \/ \E txn \in JournalStatus : run' = [run EXCEPT !.txn = txn],
         a.token = act[c].token, a.fence = act[c].fence, a.why # "monitor",
         Placed(c)'
  PROVE  IInv' /\ Delivered
<1>1. act'[c] = a
  BY DEF Set, TypeInv, TypeOK
<1>2. run'.status = run.status /\ run'.lease = run.lease /\ run'.delivery = run.delivery
  BY ActTyped DEF RunRec
<1>3. JournalIsSound' /\ RunIsTrue'
  BY <1>2, ActiveFacts, Rests DEF RunIsTrue
<1>4. Kept(c)' /\ Saw(c)'
  BY <1>1, <1>2, ActiveFacts, KeepsLease DEF Saw
<1> QED BY <1>3, <1>4, ActiveFacts, OneMoves, NothingDelivered

\* A controller gives up: there is nothing to say of the place it goes to.
LEMMA GivesUp ==
  ASSUME TypeInv, IInv, Unedited, NEW c \in Controller, ~At(c, "idle"), Executes(c),
         Goto(c, "failing"), act[c].pc \notin InRollback \cup {"persist_op"},
         UNCHANGED <<file, backup, disk, run, crashes>>
  PROVE  IInv' /\ Delivered
<1> DEFINE a == [act[c] EXCEPT !.pc = "failing"]
<1>1. Set(c, a) /\ act'[c] = a
  BY DEF Goto, Set, TypeInv, TypeOK
<1>2. a.pc = "failing" /\ a.token = act[c].token /\ a.fence = act[c].fence /\ a.j = act[c].j
      /\ a.why = act[c].why
  BY ActTyped DEF ActRec
<1>3. Placed(c)'
  <2>1. disk'.status \in JournalStatus
    BY ActTyped DEF Journal
  <2>2. act[c].j.before = Old
    BY ActiveFacts DEF HasJournal
  <2> QED BY <1>1, <1>2, <2>1, <2>2
      DEF Placed, HasJournal, Elsewhere, Progress, StatusAt, InApply, InRollback
<1> HIDE DEF a
<1> QED BY <1>1, <1>2, <1>3, QuietStep DEF Executes

\* The note of the journal's status is never refused.
LEMMA NoteGoesOn ==
  ASSUME TypeInv, IInv, Unedited, NEW c \in Controller, ~At(c, "idle"), Executes(c),
         NEW next \in Pc, NEW refused, Note(c, next, refused),
         next \notin InApply \cup InRollback \cup {"idle", "prepare", "end_apply"},
         act[c].pc \notin InRollback \cup {"persist_op"}, UNCHANGED <<file, backup, disk, crashes>>,
         disk.status \in StatusAt(next), Resumed(act[c].j) \/ next = "failing"
  PROVE  IInv' /\ Delivered
<1> DEFINE a == [act[c] EXCEPT !.pc = next, !.lease = run.lease]
<1>1. DeliveryAsserts(run.lease, act[c].fence)
  BY ActiveFacts, LeaseAsserted
<1>2. Set(c, a) /\ act'[c] = a /\ run' = [run EXCEPT !.txn = act[c].j.status]
  BY <1>1 DEF Note, Set, TypeInv, TypeOK
<1>3. a.pc = next /\ a.token = act[c].token /\ a.fence = act[c].fence /\ a.j = act[c].j
      /\ a.why = act[c].why
  BY ActTyped DEF ActRec
<1>4. act[c].j.status \in JournalStatus
  BY ActTyped DEF Journal
<1>5. act[c].j.before = Old
  BY ActiveFacts DEF HasJournal
<1> HIDE DEF a
<1>6. Placed(c)'
  BY <1>2, <1>3, <1>5
  DEF Placed, HasJournal, Resumed, Whole, StillUndone, NoneUndone, Elsewhere, Progress,
      InApply, InRollback
<1> QED BY <1>2, <1>3, <1>4, <1>6, QuietStep DEF Executes, InRollback

LEMMA PreparationKeeps ==
  ASSUME Sheltered, TypeInv, IInv, Unedited, NEW c \in Controller,
         Deliver(c) \/ CheckBaseline(c) \/ HashTargets(c) \/ BackUp(c) \/ Prepare(c) \/ NotePrepared(c)
  PROVE  IInv' /\ Delivered
<1>1. ~At(c, "idle") /\ act[c].pc \notin InRollback \cup {"persist_op"}
      /\ act[c].pc \in {"running", "check", "hash", "backup", "prepare", "note_prepared"}
  BY DEF Deliver, CheckBaseline, HashTargets, BackUp, Prepare, NotePrepared, At, InRollback
<1>2. Executes(c)
  BY <1>1, ActiveFacts DEF Saw, Executes, InRollback
<1>3. CASE Deliver(c)
  <2> DEFINE next == IF run.delivery THEN "finishing"
                     ELSE IF ~DeliveryAsserts(run.lease, run.lease.token) THEN "failing"
                     ELSE ResumeAt(disk.status)
             a == [act[c] EXCEPT !.j = disk, !.lease = run.lease, !.fence = run.lease.token, !.pc = next]
  <2>1. Set(c, a) /\ act'[c] = a /\ UNCHANGED <<file, backup, disk, run, crashes, edits>>
        /\ act[c].pc = "running"
    BY <1>3 DEF Deliver, Set, TypeInv, TypeOK, At
  <2>2. a.pc = next /\ a.token = act[c].token /\ a.fence = run.lease.token /\ a.j = disk
        /\ a.why = act[c].why
    BY ActTyped DEF ActRec
  <2>3. /\ next \in {"finishing", "failing", "check", "begin_apply"}
        /\ next \in {"check", "begin_apply"} => Resumed(disk)
        /\ disk.status \in StatusAt(next)
    <3>1. disk.status = "rolling_back" => crashes = MaxCrashes
      BY <1>1, ActiveFacts
    <3>2. disk.status \in JournalStatus
      BY ActTyped DEF Journal
    <3>3. run.delivery => disk.status = "committed"
      BY <1>1, ActiveFacts DEF RunIsTrue
    <3>4. disk.status \in Resumable \cup {"none", "rolling_back"} => Resumed(disk)
      BY <1>1, <3>1, ActiveFacts DEF JournalIsSound, Resumed, Whole
    <3> QED BY <3>1, <3>2, <3>3, <3>4
        DEF ResumeAt, StatusAt, JournalStatus, Resumable, InApply, InRollback
  <2>4. Placed(c)'
    <3>1. disk.before = Old
      BY <1>1, ActiveFacts DEF JournalIsSound
    <3> HIDE DEF a, next
    <3> QED BY <2>1, <2>2, <2>3, <3>1
            DEF Placed, HasJournal, Resumed, Whole, StillUndone, NoneUndone, Elsewhere,
                Progress, InApply, InRollback
  <2>5. JournalIsSound' /\ RunIsTrue'
    BY <1>1, <2>1, ActiveFacts, Rests DEF RunIsTrue
  <2>6. Kept(c)' /\ Saw(c)'
    <3>1. Kept(c) /\ Saw(c)
      BY <1>1, ActiveFacts
    <3> HIDE DEF a, next
    <3> QED BY <1>2, <2>1, <2>2, <3>1 DEF Kept, Saw, Executes
  <2> HIDE DEF a
  <2> QED BY <1>1, <2>1, <2>4, <2>5, <2>6, ActiveFacts, OneMoves, NothingDelivered
<1>4. CASE CheckBaseline(c)
  <2>1. act[c].pc = "check" /\ disk.status = "none" /\ file = Old
        /\ act[c].j.before = Old /\ Resumed(act[c].j)
    BY <1>1, <1>4, PlaceFacts DEF Elsewhere, CheckBaseline, At, InRollback
  <2> DEFINE a == [act[c] EXCEPT !.pc = "hash"]
  <2>2. Set(c, a) /\ act'[c] = a /\ UNCHANGED <<file, backup, disk, run, crashes, edits>>
    BY <1>4, <2>1 DEF CheckBaseline, Goto, Set, TypeInv, TypeOK
  <2>3. a.pc = "hash" /\ a.token = act[c].token /\ a.fence = act[c].fence /\ a.j = act[c].j
        /\ a.why = act[c].why
    BY ActTyped DEF ActRec
  <2> HIDE DEF a
  <2>4. Placed(c)'
    BY <2>1, <2>2, <2>3
    DEF Placed, HasJournal, Resumed, Whole, StillUndone, NoneUndone, Elsewhere,
        Progress, StatusAt, InApply, InRollback
  <2> QED BY <1>1, <1>2, <2>2, <2>3, <2>4, QuietStep DEF Executes
<1>5. CASE HashTargets(c)
  <2>1. act[c].pc = "hash" /\ disk.status = "none" /\ file = Old /\ Resumed(act[c].j)
    BY <1>1, <1>5, PlaceFacts DEF Elsewhere, HashTargets, At, InRollback
  <2> DEFINE j == [act[c].j EXCEPT !.before = file]
             a == [act[c] EXCEPT !.pc = "backup", !.j.before = file]
  <2>2. Set(c, a) /\ act'[c] = a /\ UNCHANGED <<file, backup, disk, run, crashes, edits>>
    BY <1>5 DEF HashTargets, Set, TypeInv, TypeOK
  <2>3. a.pc = "backup" /\ a.token = act[c].token /\ a.fence = act[c].fence /\ a.j = j
        /\ a.why = act[c].why
    BY ActTyped DEF ActRec
  <2>4. j.before = Old /\ Resumed(j)
    BY <2>1, ActTyped DEF Journal, Resumed, Whole, StillUndone, NoneUndone
  <2> HIDE DEF a, j
  <2>5. Placed(c)'
    BY <2>1, <2>2, <2>3, <2>4
    DEF Placed, HasJournal, Resumed, Whole, StillUndone, NoneUndone, Elsewhere,
        Progress, StatusAt, InApply, InRollback
  <2> QED BY <1>1, <1>2, <2>2, <2>3, <2>5, QuietStep DEF Executes
<1>6. CASE BackUp(c)
  <2>1. act[c].pc = "backup" /\ disk.status = "none" /\ file = Old
        /\ act[c].j.before = Old /\ Resumed(act[c].j)
    BY <1>1, <1>6, PlaceFacts DEF Elsewhere, BackUp, At, InRollback
  <2> DEFINE a == [act[c] EXCEPT !.pc = "prepare"]
  <2>2. Set(c, a) /\ act'[c] = a /\ backup' = Old /\ UNCHANGED <<file, disk, run, crashes, edits>>
    BY <1>6, <2>1 DEF BackUp, Goto, Set, TypeInv, TypeOK
  <2>3. a.pc = "prepare" /\ a.token = act[c].token /\ a.fence = act[c].fence /\ a.j = act[c].j
        /\ a.why = act[c].why
    BY ActTyped DEF ActRec
  <2> HIDE DEF a
  <2>4. Placed(c)'
    BY <2>1, <2>2, <2>3
    DEF Placed, HasJournal, Resumed, Whole, StillUndone, NoneUndone, Elsewhere,
        Progress, StatusAt, InApply, InRollback
  <2>5. JournalIsSound' /\ RunIsTrue'
    BY <1>1, <2>1, <2>2, ActiveFacts
    DEF JournalIsSound, RunIsTrue, Resumed, Whole, StillUndone, NoneUndone
  <2>6. Kept(c)' /\ Saw(c)'
    BY <1>1, <1>2, <2>2, <2>3, ActiveFacts, KeepsLease DEF Saw, Executes
  <2> QED BY <1>1, <2>2, <2>4, <2>5, <2>6, ActiveFacts, OneMoves, NothingDelivered
<1>7. CASE Prepare(c)
  <2>1. act[c].pc = "prepare" /\ disk.status = "none" /\ file = Old /\ backup = Old
        /\ act[c].j.before = Old /\ Resumed(act[c].j)
    BY <1>1, <1>7, PlaceFacts DEF Elsewhere, Prepare, At, InRollback
  <2> DEFINE j == [act[c].j EXCEPT !.status = "prepared"]
             a == [act[c] EXCEPT !.j = j, !.pc = "note_prepared"]
  <2>2. Set(c, a) /\ act'[c] = a /\ disk' = j /\ UNCHANGED <<file, backup, run, crashes, edits>>
    BY <1>7 DEF Prepare, Persist, Set, TypeInv, TypeOK
  <2>3. a.pc = "note_prepared" /\ a.token = act[c].token /\ a.fence = act[c].fence /\ a.j = j
        /\ a.why = act[c].why
    BY ActTyped DEF ActRec
  <2>4. j.status = "prepared" /\ j.before = Old /\ Resumed(j)
    BY <2>1, ActTyped DEF Journal, Resumed, Whole, StillUndone, NoneUndone
  <2> HIDE DEF a, j
  <2>5. Placed(c)'
    BY <2>2, <2>3, <2>4
    DEF Placed, HasJournal, Resumed, Whole, StillUndone, NoneUndone, Elsewhere,
        Progress, StatusAt, InApply, InRollback
  <2>6. JournalIsSound' /\ RunIsTrue'
    BY <1>1, <2>1, <2>2, <2>4, ActiveFacts
    DEF JournalIsSound, RunIsTrue, Resumed, Whole, StillUndone, NoneUndone
  <2>7. Kept(c)' /\ Saw(c)'
    BY <1>1, <1>2, <2>2, <2>3, ActiveFacts, KeepsLease DEF Saw, Executes
  <2>8. Delivered
    BY <2>1, <2>2, <2>4, NothingDelivered DEF Settled
  <2> QED BY <1>1, <2>2, <2>5, <2>6, <2>7, <2>8, ActiveFacts, OneMoves
<1>8. CASE NotePrepared(c)
  <2>1. act[c].pc = "note_prepared" /\ disk.status = "prepared"
        /\ act[c].j.before = Old /\ Resumed(act[c].j)
    BY <1>1, <1>8, PlaceFacts DEF Elsewhere, NotePrepared, At, InRollback
  <2>2. disk.status \in StatusAt("begin_apply")
    BY <2>1 DEF StatusAt, Resumable, InApply, InRollback
  <2>3. Note(c, "begin_apply", "failing") /\ UNCHANGED <<file, backup, disk, crashes>>
    BY <1>8 DEF NotePrepared
  <2> QED BY <1>1, <1>2, <2>1, <2>2, <2>3, NoteGoesOn DEF Pc, InApply, InRollback
<1> QED BY <1>3, <1>4, <1>5, <1>6, <1>7, <1>8

\* A controller writes its journal, and the project stays as it is.
LEMMA JournalStep ==
  ASSUME TypeInv, IInv, NEW c \in Controller, ~At(c, "idle"), Executes(c), NEW a,
         Set(c, a), UNCHANGED <<file, backup, run, crashes>>, backup = Old,
         disk'.before = Old, Resumed(disk)', disk.status # "committed",
         disk'.status \in Resumable \cup {"committed"},
         disk'.status \in {"verifying", "committed"} => file = New,
         a.token = act[c].token, a.fence = act[c].fence, a.why # "monitor", Placed(c)'
  PROVE  IInv'
<1>1. act'[c] = a
  BY DEF Set, TypeInv, TypeOK
<1>2. JournalIsSound' /\ RunIsTrue'
  BY ActiveFacts
  DEF JournalIsSound, RunIsTrue, Resumable, Resumed, Whole, StillUndone, NoneUndone
<1>3. Kept(c)' /\ Saw(c)'
  BY <1>1, ActiveFacts, KeepsLease DEF Saw
<1> QED BY <1>2, <1>3, ActiveFacts, OneMoves

LEMMA ApplicationKeeps ==
  ASSUME Sheltered, TypeInv, IInv, Unedited, NEW c \in Controller,
         \/ ApplyBegins(c) \/ ApplyOp(c) \/ PersistOp(c) \/ ApplyEnds(c) \/ NoteApplied(c)
  PROVE  IInv' /\ Delivered
<1>1. ~At(c, "idle") /\ act[c].pc \notin InRollback
      /\ act[c].pc \in {"begin_apply", "apply", "persist_op", "end_apply", "note_applied"}
  BY DEF ApplyBegins, ApplyOp, PersistOp, ApplyEnds, NoteApplied, At, InRollback
<1>2. Executes(c)
  BY <1>1, ActiveFacts DEF Saw, Executes, InRollback
<1>3. /\ act[c].j.before = Old /\ Resumed(act[c].j) /\ backup = Old
      /\ disk.status \in Resumable \cup {"rolling_back"}
      /\ \A f \in File : file[f] \in {Old[f], New[f]}
  BY <1>1, ActiveFacts, PlaceFacts DEF Elsewhere, JournalIsSound, InRollback, InApply, Resumable
<1>4. file \in [File -> Content] /\ Old \in [File -> Content] /\ New \in [File -> Content]
      /\ NumFiles \in Nat \ {0} /\ File = 1..NumFiles
  BY DEF TypeInv, TypeOK, Sheltered, Setting, Assumptions, Content, File
<1>5. CASE ApplyBegins(c)
  <2> DEFINE j == [act[c].j EXCEPT !.status = "applying"]
             a == [act[c] EXCEPT !.j = j, !.pc = "apply", !.pos = 1]
  <2>1. Set(c, a) /\ act'[c] = a /\ disk' = j /\ UNCHANGED <<file, backup, run, crashes, edits>>
    BY <1>5 DEF ApplyBegins, Set, TypeInv, TypeOK
  <2>2. a.pc = "apply" /\ a.token = act[c].token /\ a.fence = act[c].fence /\ a.j = j
        /\ a.why = act[c].why /\ a.pos = 1
    BY ActTyped DEF ActRec
  <2>3. j.status = "applying" /\ j.before = Old /\ Resumed(j)
    BY <1>3, ActTyped DEF Journal, Resumed, Whole, StillUndone, NoneUndone
  <2> HIDE DEF a, j
  <2>4. Placed(c)'
    <3>1. HasJournal(c)' /\ disk'.status \in StatusAt(act'[c].pc)
      BY <2>1, <2>2, <2>3
      DEF HasJournal, Resumed, Whole, StillUndone, NoneUndone, Elsewhere, StatusAt,
          InApply, InRollback
    <3>2. Progress(c)'
      BY <1>4, <2>1, <2>2, <2>3 DEF Progress, InApply, InRollback
    <3> QED BY <3>1, <3>2 DEF Placed
  <2>5. Delivered
    BY <1>3, <2>1, <2>3, NothingDelivered DEF Settled, Resumable
  <2>6. disk'.before = Old /\ Resumed(disk)' /\ disk'.status = "applying"
        /\ disk.status # "committed"
    BY <1>3, <2>1, <2>3 DEF Resumed, Whole, StillUndone, NoneUndone, Resumable
  <2> QED BY <1>1, <1>2, <1>3, <2>1, <2>2, <2>4, <2>5, <2>6, JournalStep
          DEF Executes, Resumable
<1>6. CASE ApplyOp(c)
  <2> DEFINE f == act[c].pos
             j == [act[c].j EXCEPT !.op[f] = "applied"]
             a == [act[c] EXCEPT !.pc = "persist_op", !.j.op[f] = "applied"]
  <2>1. f \in File /\ act[c].pc = "apply" /\ disk.status = "applying"
        /\ act[c].j.status = disk.status
    BY <1>1, <1>6, ActTyped, PlaceFacts DEF ApplyOp, At, InPlace, InApply
  <2>2. IsApplied(f) \/ IsBaseline(act[c].j, f)
    BY <1>3, <2>1 DEF IsApplied, IsBaseline
  <2>3. Set(c, a) /\ act'[c] = a /\ file' = [file EXCEPT ![f] = New[f]]
        /\ UNCHANGED <<backup, disk, run, crashes, edits>>
    BY <1>6, <2>2 DEF ApplyOp, Set, TypeInv, TypeOK
  <2>4. a.pc = "persist_op" /\ a.token = act[c].token /\ a.fence = act[c].fence /\ a.j = j
        /\ a.why = act[c].why /\ a.pos = f
    BY ActTyped DEF ActRec
  <2>5. /\ j.status = "applying" /\ j.before = Old /\ Whole(j)
        /\ \A g \in File : j.op[g] = "rolled_back" => g # f /\ file[g] = Old[g]
    BY <1>3, <2>1, ActTyped DEF Journal, Resumed, Whole, StillUndone, NoneUndone
  <2>6. \A g \in File : g < f => file[g] = New[g]
    BY <1>1, <2>1, ActiveFacts DEF Progress
  <2> HIDE DEF a, j, f
  <2>7. Placed(c)'
    <3>1. HasJournal(c)' /\ disk'.status \in StatusAt(act'[c].pc)
      <4>1. StillUndone(act[c].j)' /\ Whole(act[c].j)'
        BY <1>4, <2>3, <2>4, <2>5 DEF StillUndone, Whole, NoneUndone
      <4> QED BY <2>1, <2>3, <2>4, <2>5, <4>1 DEF HasJournal, StatusAt, InApply, InRollback
    <3>2. \A g \in File : g <= f => file'[g] = New[g]
      BY <1>4, <2>1, <2>3, <2>6
    <3>3. Progress(c)'
      BY <2>1, <2>3, <2>4, <2>5, <3>2 DEF Progress, InApply, InRollback
    <3> QED BY <3>1, <3>3 DEF Placed
  <2>8. JournalIsSound' /\ RunIsTrue'
    BY <1>1, <1>3, <1>4, <2>1, <2>3, <2>4, ActiveFacts
    DEF JournalIsSound, RunIsTrue, Resumed, Whole, StillUndone, NoneUndone
  <2>9. Kept(c)' /\ Saw(c)'
    BY <1>1, <1>2, <2>3, <2>4, ActiveFacts, KeepsLease DEF Saw, Executes
  <2>10. Delivered
    BY <2>1, <2>3, FileDelivered DEF Settled
  <2> QED BY <1>1, <2>3, <2>7, <2>8, <2>9, <2>10, ActiveFacts, OneMoves
<1>7. CASE PersistOp(c)
  <2> DEFINE a == [act[c] EXCEPT !.pos = @ + 1,
                     !.pc = IF act[c].pos = NumFiles THEN "end_apply" ELSE "apply"]
  <2>1. act[c].pos \in File /\ act[c].pc = "persist_op" /\ disk.status = "applying"
        /\ act[c].j.status = disk.status
    BY <1>1, <1>7, ActTyped, PlaceFacts DEF PersistOp, At, InPlace, InApply
  <2>2. Set(c, a) /\ act'[c] = a /\ disk' = act[c].j
        /\ UNCHANGED <<file, backup, run, crashes, edits>>
    BY <1>7 DEF PersistOp, Set, TypeInv, TypeOK
  <2>3. a.pc = (IF act[c].pos = NumFiles THEN "end_apply" ELSE "apply")
        /\ a.token = act[c].token /\ a.fence = act[c].fence /\ a.j = act[c].j
        /\ a.why = act[c].why /\ a.pos = act[c].pos + 1
    BY ActTyped DEF ActRec
  <2>4. \A g \in File : g <= act[c].pos => file[g] = New[g]
    BY <1>1, <2>1, ActiveFacts DEF Progress
  <2> HIDE DEF a
  <2>5. Placed(c)'
    <3>1. HasJournal(c)' /\ disk'.status \in StatusAt(act'[c].pc)
      BY <1>3, <2>1, <2>2, <2>3
      DEF HasJournal, Resumed, Whole, StillUndone, NoneUndone, Elsewhere, StatusAt,
          InApply, InRollback
    <3>2. \A g \in File : g < act[c].pos + 1 => file[g] = New[g]
      BY <1>4, <2>1, <2>4
    <3>3. act[c].pos = NumFiles => file = New
      BY <1>4, <2>4
    <3>4. Progress(c)'
      BY <2>1, <2>2, <2>3, <3>2, <3>3 DEF Progress, InApply, InRollback
    <3> QED BY <3>1, <3>4 DEF Placed
  <2>6. disk'.before = Old /\ Resumed(disk)' /\ disk'.status = "applying"
    BY <1>3, <2>1, <2>2 DEF Resumed, Whole, StillUndone, NoneUndone
  <2>7. Delivered
    BY <2>1, <2>2, NothingDelivered
  <2> QED BY <1>1, <1>2, <1>3, <2>1, <2>2, <2>3, <2>5, <2>6, <2>7, JournalStep
          DEF Executes, Resumable
<1>8. CASE ApplyEnds(c)
  <2> DEFINE j == [act[c].j EXCEPT !.status = "verifying"]
             a == [act[c] EXCEPT !.j = j, !.pc = "note_applied"]
  <2>1. Set(c, a) /\ act'[c] = a /\ disk' = j /\ UNCHANGED <<file, backup, run, crashes, edits>>
    BY <1>8 DEF ApplyEnds, Persist, Set, TypeInv, TypeOK
  <2>2. a.pc = "note_applied" /\ a.token = act[c].token /\ a.fence = act[c].fence /\ a.j = j
        /\ a.why = act[c].why
    BY ActTyped DEF ActRec
  <2>3. j.status = "verifying" /\ j.before = Old /\ Resumed(j)
    BY <1>3, ActTyped DEF Journal, Resumed, Whole, StillUndone, NoneUndone
  <2>4. file = New
    BY <1>1, <1>8, ActiveFacts DEF Progress, ApplyEnds, At
  <2> HIDE DEF a, j
  <2>5. Placed(c)'
    BY <2>1, <2>2, <2>3
    DEF Placed, HasJournal, Resumed, Whole, StillUndone, NoneUndone, Elsewhere,
        Progress, StatusAt, InApply, InRollback
  <2>6. Delivered
    BY <1>3, <2>1, <2>3, NothingDelivered DEF Settled, Resumable
  <2>7. disk'.before = Old /\ Resumed(disk)' /\ disk'.status = "verifying"
        /\ disk.status # "committed"
    BY <1>3, <2>1, <2>3 DEF Resumed, Whole, StillUndone, NoneUndone, Resumable
  <2> QED BY <1>1, <1>2, <1>3, <2>1, <2>2, <2>4, <2>5, <2>6, <2>7, JournalStep
          DEF Executes, Resumable
<1>9. CASE NoteApplied(c)
  <2>1. disk.status = "verifying" /\ act[c].pc = "note_applied"
    BY <1>1, <1>9, PlaceFacts DEF NoteApplied, At
  <2>2. disk.status \in StatusAt("verify")
    BY <2>1 DEF StatusAt, InApply, InRollback
  <2>3. Note(c, "verify", "failing") /\ UNCHANGED <<file, backup, disk, crashes>>
    BY <1>9 DEF NoteApplied
  <2> QED BY <1>1, <1>2, <1>3, <2>1, <2>2, <2>3, NoteGoesOn DEF Pc, InApply, InRollback
<1> QED BY <1>5, <1>6, <1>7, <1>8, <1>9

LEMMA CommitKeeps ==
  ASSUME Sheltered, TypeInv, IInv, Unedited, NEW c \in Controller,
         Verify(c) \/ Commit(c) \/ NoteCommitted(c) \/ Record(c)
  PROVE  IInv' /\ Delivered
<1>1. ~At(c, "idle") /\ act[c].pc \notin InRollback \cup {"persist_op"}
      /\ act[c].pc \in {"verify", "commit", "note_committed", "record"}
  BY DEF Verify, Commit, NoteCommitted, Record, At, InRollback
<1>2. Executes(c)
  BY <1>1, ActiveFacts DEF Saw, Executes, InRollback
<1>3. /\ act[c].j.before = Old /\ Resumed(act[c].j) /\ backup = Old
      /\ disk.status \in {"verifying", "committed"} /\ file = New
  BY <1>1, ActiveFacts, PlaceFacts DEF Elsewhere, JournalIsSound, InRollback
\* A rejected or a fenced delivery is rolled back.
<1>4. ASSUME disk.status = "verifying", NEW why \in {"rejected", "fenced"},
             Set(c, [act[c] EXCEPT !.pc = "begin_rollback", !.why = why]),
             UNCHANGED <<file, backup, disk, run, crashes>>
      PROVE  IInv' /\ Delivered
  <2> DEFINE a == [act[c] EXCEPT !.pc = "begin_rollback", !.why = why]
  <2>1. Set(c, a) /\ act'[c] = a
    BY <1>4 DEF Set, TypeInv, TypeOK
  <2>2. a.pc = "begin_rollback" /\ a.token = act[c].token /\ a.fence = act[c].fence
        /\ a.j = act[c].j /\ a.why = why
    BY ActTyped DEF ActRec
  <2> HIDE DEF a
  <2>3. Placed(c)'
    BY <1>3, <1>4, <2>1, <2>2
    DEF Placed, HasJournal, Progress, StatusAt, Resumable, InApply, InRollback, Resumed,
        Whole, StillUndone, NoneUndone
  <2> QED BY <1>1, <1>2, <1>4, <2>1, <2>2, <2>3, QuietStep
<1>5. CASE Verify(c)
  <2>1. disk.status = "verifying" /\ UNCHANGED <<file, backup, disk, run, crashes>>
    BY <1>1, <1>5, PlaceFacts DEF Verify, At
  <2>2. CASE Goto(c, "commit")
    <3> DEFINE a == [act[c] EXCEPT !.pc = "commit"]
    <3>1. Set(c, a) /\ act'[c] = a
      BY <2>2 DEF Goto, Set, TypeInv, TypeOK
    <3>2. a.pc = "commit" /\ a.token = act[c].token /\ a.fence = act[c].fence
          /\ a.j = act[c].j /\ a.why = act[c].why
      BY ActTyped DEF ActRec
    <3> HIDE DEF a
    <3>3. Placed(c)'
      BY <1>3, <2>1, <3>1, <3>2
      DEF Placed, HasJournal, Progress, StatusAt, InApply, InRollback, Resumed, Whole,
          StillUndone, NoneUndone
    <3> QED BY <1>1, <1>2, <2>1, <3>1, <3>2, <3>3, QuietStep DEF Executes
  <2>3. CASE Set(c, [act[c] EXCEPT !.pc = "begin_rollback", !.why = "rejected"])
    BY <1>4, <2>1, <2>3
  <2> QED BY <1>5, <2>2, <2>3 DEF Verify
<1>6. CASE Commit(c)
  <2>1. disk.status = "verifying" /\ UNCHANGED <<file, backup, run, crashes>>
    BY <1>1, <1>6, PlaceFacts DEF Commit, At
  <2>2. CASE DeliveryAsserts(act[c].lease, act[c].fence)
    <3> DEFINE j == [act[c].j EXCEPT !.status = "committed",
                       !.op = [f \in File |-> IF @[f] = "applied" THEN "committed" ELSE @[f]]]
               a == [act[c] EXCEPT !.j = j, !.pc = "note_committed"]
    <3>1. Set(c, a) /\ act'[c] = a /\ disk' = j
      BY <1>6, <2>2 DEF Commit, Persist, Set, TypeInv, TypeOK
    <3>2. a.pc = "note_committed" /\ a.token = act[c].token /\ a.fence = act[c].fence
          /\ a.j = j /\ a.why = act[c].why
      BY ActTyped DEF ActRec
    <3>3. j.status = "committed" /\ j.before = Old /\ Resumed(j)
      BY <1>3, ActTyped DEF Journal, Resumed, Whole, StillUndone, NoneUndone
    <3> HIDE DEF a, j
    <3>4. Placed(c)'
      BY <2>1, <3>1, <3>2, <3>3
      DEF Placed, HasJournal, Resumed, Whole, StillUndone, NoneUndone, Elsewhere, Progress,
          StatusAt, InApply, InRollback
    <3>5. Delivered
      <4>1. Delivery!Keep
        BY <1>3, <2>1, <3>1, <3>3 DEF Delivery!Keep
      <4> QED BY <4>1 DEF Unedited, Delivered, Delivery!Next
    <3>6. disk'.before = Old /\ Resumed(disk)' /\ disk'.status = "committed"
      BY <2>1, <3>1, <3>3 DEF Resumed, Whole, StillUndone, NoneUndone
    <3> QED BY <1>1, <1>2, <1>3, <2>1, <3>1, <3>2, <3>4, <3>5, <3>6, JournalStep DEF Executes
  <2>3. CASE ~DeliveryAsserts(act[c].lease, act[c].fence)
    BY <1>4, <1>6, <2>1, <2>3 DEF Commit
  <2> QED BY <2>2, <2>3
<1>7. CASE NoteCommitted(c)
  <2>1. disk.status = "committed"
    BY <1>1, <1>7, PlaceFacts DEF NoteCommitted, At
  <2>2. disk.status \in StatusAt("record")
    BY <2>1 DEF StatusAt, InApply, InRollback
  <2>3. Note(c, "record", "begin_rollback") /\ UNCHANGED <<file, backup, disk, crashes>>
    BY <1>7 DEF NoteCommitted
  <2> QED BY <1>1, <1>2, <1>3, <2>2, <2>3, NoteGoesOn DEF Pc, InApply, InRollback
<1>8. CASE Record(c)
  <2> DEFINE a == [act[c] EXCEPT !.pc = "finishing"]
  <2>1. disk.status = "committed"
    BY <1>1, <1>8, PlaceFacts DEF Record, At
  <2>2. DeliveryAsserts(run.lease, act[c].fence)
    BY <1>1, <1>2, ActiveFacts, LeaseAsserted
  <2>3. Set(c, a) /\ act'[c] = a /\ UNCHANGED <<file, backup, disk, crashes>>
        /\ run' = [run EXCEPT !.delivery = TRUE, !.txn = "committed"]
    BY <1>8, <2>2 DEF Record, Goto, Set, TypeInv, TypeOK
  <2>4. a.pc = "finishing" /\ a.token = act[c].token /\ a.fence = act[c].fence
        /\ a.j = act[c].j /\ a.why = act[c].why
    BY ActTyped DEF ActRec
  <2> HIDE DEF a
  <2>5. Placed(c)'
    BY <1>3, <2>1, <2>3, <2>4
    DEF Placed, HasJournal, Progress, StatusAt, InApply, InRollback, Resumed, Whole,
        StillUndone, NoneUndone
  <2>6. run'.status = run.status /\ run'.lease = run.lease
    BY <2>3, ActTyped DEF RunRec
  <2>7. JournalIsSound' /\ RunIsTrue'
    BY <1>1, <2>1, <2>3, <2>6, ActiveFacts, Rests DEF RunIsTrue
  <2>8. Kept(c)' /\ Saw(c)'
    BY <1>1, <1>2, <2>3, <2>4, <2>6, ActiveFacts, KeepsLease DEF Saw, Executes
  <2> QED BY <1>1, <2>3, <2>5, <2>7, <2>8, ActiveFacts, OneMoves, NothingDelivered
<1> QED BY <1>5, <1>6, <1>7, <1>8

\* A rollback writes its journal.
LEMMA UndoStep ==
  ASSUME TypeInv, IInv, NEW c \in Controller, ~At(c, "idle"), NEW a, Set(c, a),
         UNCHANGED <<backup, run, crashes>>, backup = Old, disk'.before = Old,
         StillUndone(disk)',
         \A f \in File : file'[f] \in {Old[f], New[f]},
         disk.status \notin Settled,
         \/ disk'.status = "rolling_back" /\ a.pc \in InRollback
         \/ disk'.status = "rolled_back" /\ file' = Old,
         a.token = act[c].token, a.fence = act[c].fence, a.why = act[c].why,
         a.seen = act[c].seen, a.pc \in InRollback \cup {"note_rolled_back"},
         Placed(c)'
  PROVE  IInv'
<1>1. act'[c] = a
  BY DEF Set, TypeInv, TypeOK
<1>2. RunIsTrue'
  BY ActiveFacts DEF RunIsTrue, Settled
<1>3. JournalIsSound'
  BY <1>1 DEF JournalIsSound, Resumable
<1>4. Saw(c)'
  BY <1>1, ActiveFacts DEF Saw
<1>5. Kept(c)'
  BY <1>1, ActiveFacts DEF Kept, Executes, At
<1> QED BY <1>2, <1>3, <1>4, <1>5, ActiveFacts, OneMoves

LEMMA RollbackKeeps ==
  ASSUME Sheltered, TypeInv, IInv, Unedited, NEW c \in Controller,
         \/ RollbackBegins(c) \/ RollbackOp(c) \/ PersistRollback(c) \/ RollbackEnds(c)
         \/ NoteRolledBack(c)
  PROVE  IInv' /\ Delivered
<1>1. ~At(c, "idle")
      /\ act[c].pc \in InRollback \cup {"begin_rollback", "note_rolled_back"}
  BY 
  DEF RollbackBegins, RollbackOp, PersistRollback, RollbackEnds, NoteRolledBack, At,
      InRollback
<1>2. /\ act[c].j.before = Old /\ backup = Old
      /\ \A f \in File : file[f] \in {Old[f], New[f]}
  BY <1>1, ActiveFacts, PlaceFacts DEF JournalIsSound, InRollback, Resumable
<1>3. file \in [File -> Content] /\ Old \in [File -> Content] /\ New \in [File -> Content]
      /\ NumFiles \in Nat \ {0} /\ File = 1..NumFiles
  BY DEF TypeInv, TypeOK, Sheltered, Setting, Assumptions, Content, File
<1>4. CASE RollbackBegins(c)
  <2> DEFINE j == [act[c].j EXCEPT !.status = "rolling_back"]
             a == [act[c] EXCEPT !.j = j, !.pc = "rollback", !.pos = NumFiles]
  <2>1. Set(c, a) /\ act'[c] = a /\ disk' = j /\ UNCHANGED <<file, backup, run, crashes, edits>>
        /\ act[c].pc = "begin_rollback"
    BY <1>4 DEF RollbackBegins, Set, TypeInv, TypeOK, At
  <2>2. a.pc = "rollback" /\ a.token = act[c].token /\ a.fence = act[c].fence /\ a.j = j
        /\ a.why = act[c].why /\ a.pos = NumFiles /\ a.seen = act[c].seen
    BY ActTyped DEF ActRec
  <2>3. j.status = "rolling_back" /\ j.before = Old /\ StillUndone(j)
        /\ disk.status \in Resumable \cup {"rolling_back"}
    BY <1>1, <1>2, <2>1, ActTyped, PlaceFacts DEF Journal, StillUndone, Elsewhere, InRollback
  <2> HIDE DEF a, j
  <2>4. Placed(c)'
    <3>1. HasJournal(c)' /\ disk'.status \in StatusAt(act'[c].pc)
      BY <2>1, <2>2, <2>3 DEF HasJournal, StillUndone, StatusAt, InApply, InRollback
    <3>2. Progress(c)'
      BY <1>3, <2>1, <2>2, <2>3 DEF Progress, InApply, InRollback
    <3> QED BY <3>1, <3>2 DEF Placed
  <2>5. Delivered
    BY <2>1, <2>3, NothingDelivered DEF Settled, Resumable
  <2>6. StillUndone(disk)'
    BY <2>1, <2>3 DEF StillUndone
  <2> QED BY <1>1, <1>2, <2>1, <2>2, <2>3, <2>4, <2>5, <2>6, UndoStep
          DEF Settled, Resumable, InRollback
<1>5. CASE RollbackOp(c)
  <2> DEFINE f == act[c].pos
             j == [act[c].j EXCEPT !.op[f] = "rolled_back"]
             less == [act[c] EXCEPT !.pos = @ - 1]
             marked == [act[c] EXCEPT !.pc = "persist_rollback", !.j.op[f] = "rolled_back"]
  <2>1. f \in File /\ act[c].pc = "rollback" /\ disk.status = "rolling_back"
        /\ act[c].j.status = disk.status
    <3>1. act[c].pc = "rollback" /\ act[c].pos \in 0..NumFiles /\ act[c].pos > 0
      BY <1>5, ActTyped DEF RollbackOp, At, InPlace
    <3>2. act[c].pos \in File
      BY <1>3, <3>1
    <3> QED BY <1>1, <3>1, <3>2, PlaceFacts DEF InRollback
  <2>2. /\ \A g \in File : g > f => file[g] = Old[g]
        /\ StillUndone(act[c].j) /\ StillUndone(disk) /\ disk.before = Old
    BY <1>1, <2>1, ActiveFacts, PlaceFacts DEF Progress, JournalIsSound, Elsewhere
  \* The operation is undone already.
  <2>3. CASE act[c].j.op[f] = "rolled_back"
    <3>1. Set(c, less) /\ act'[c] = less
          /\ UNCHANGED <<file, backup, disk, run, crashes, edits>>
      BY <1>5, <2>3 DEF RollbackOp, Set, TypeInv, TypeOK
    <3>2. less.pc = "rollback" /\ less.token = act[c].token /\ less.fence = act[c].fence
          /\ less.j = act[c].j /\ less.why = act[c].why /\ less.pos = f - 1
          /\ less.seen = act[c].seen
      BY <2>1, ActTyped DEF ActRec
    <3>3. \A g \in File : g > f - 1 => file[g] = Old[g]
      BY <1>3, <2>1, <2>2, <2>3 DEF StillUndone
    <3> HIDE DEF less, f
    <3>4. Placed(c)'
      <4>1. HasJournal(c)' /\ disk'.status \in StatusAt(act'[c].pc)
        BY <1>2, <2>1, <2>2, <3>1, <3>2
        DEF HasJournal, StillUndone, StatusAt, InApply, InRollback
      <4>2. Progress(c)'
        BY <2>1, <3>1, <3>2, <3>3 DEF Progress, InApply, InRollback
      <4> QED BY <4>1, <4>2 DEF Placed
    <3>5. Delivered
      BY <3>1, NothingDelivered
    <3>6. StillUndone(disk)'
      BY <2>2, <3>1 DEF StillUndone
    <3> QED BY <1>1, <1>2, <2>1, <2>2, <3>1, <3>2, <3>4, <3>5, <3>6, UndoStep
            DEF Settled, InRollback
  \* It is undone, or is found so, and marked.
  <2>4. CASE act[c].j.op[f] # "rolled_back"
    <3>1. Set(c, marked) /\ file' = [file EXCEPT ![f] = Old[f]]
          /\ UNCHANGED <<backup, disk, run, crashes, edits>>
      <4>1. CASE NeedsNoRestore(act[c].j, f)
        <5>1. file[f] = Old[f]
          BY <1>2, <4>1 DEF NeedsNoRestore, IsBaseline
        <5> QED BY <1>3, <1>5, <2>4, <4>1, <5>1 DEF RollbackOp
      <4>2. CASE ~NeedsNoRestore(act[c].j, f)
        <5>1. backup[f] = act[c].j.before[f] /\ act[c].j.before[f] = Old[f]
          BY <1>2
        <5> QED BY <1>5, <2>4, <4>2, <5>1 DEF RollbackOp
      <4> QED BY <4>1, <4>2
    <3>2. act'[c] = marked
      BY <3>1 DEF Set, TypeInv, TypeOK
    <3>3. marked.pc = "persist_rollback" /\ marked.token = act[c].token
          /\ marked.fence = act[c].fence /\ marked.j = j /\ marked.why = act[c].why
          /\ marked.pos = f /\ marked.seen = act[c].seen
      BY ActTyped DEF ActRec
    <3>4. j.status = "rolling_back" /\ j.before = Old
      BY <1>2, <2>1, ActTyped DEF Journal
    <3>5. /\ \A g \in File : j.op[g] = "rolled_back" => file'[g] = Old[g]
          /\ StillUndone(disk)'
      BY <1>3, <2>1, <2>2, <3>1, ActTyped DEF StillUndone, Journal
    <3>6. \A g \in File : g >= f => file'[g] = Old[g]
      BY <1>3, <2>1, <2>2, <3>1
    <3>7. \A g \in File : file'[g] \in {Old[g], New[g]}
      BY <1>2, <1>3, <2>1, <3>1
    <3>8. Delivered
      BY <2>1, <3>1, FileDelivered DEF Settled
    <3> HIDE DEF marked, j, f
    <3>9. StillUndone(act[c].j)'
      BY <3>2, <3>3, <3>5 DEF StillUndone
    <3>10. Placed(c)'
      <4>1. HasJournal(c)' /\ disk'.status \in StatusAt(act'[c].pc)
        BY <2>1, <3>1, <3>2, <3>3, <3>4, <3>9 DEF HasJournal, StatusAt, InApply, InRollback
      <4>2. Progress(c)'
        BY <2>1, <3>1, <3>2, <3>3, <3>4, <3>6 DEF Progress, InApply, InRollback
      <4> QED BY <4>1, <4>2 DEF Placed
    <3> QED BY <1>1, <1>2, <2>1, <2>2, <3>1, <3>2, <3>3, <3>5, <3>7, <3>8, <3>10, UndoStep
            DEF Settled, InRollback
  <2> QED BY <2>3, <2>4
<1>6. CASE PersistRollback(c)
  <2> DEFINE a == [act[c] EXCEPT !.pos = @ - 1, !.pc = "rollback"]
  <2>1. act[c].pos \in File /\ act[c].pc = "persist_rollback" /\ disk.status = "rolling_back"
        /\ act[c].j.status = disk.status
    BY <1>1, <1>6, ActTyped, PlaceFacts DEF PersistRollback, At, InPlace, InApply, InRollback
  <2>2. Set(c, a) /\ act'[c] = a /\ disk' = act[c].j
        /\ UNCHANGED <<file, backup, run, crashes, edits>>
    BY <1>6 DEF PersistRollback, Set, TypeInv, TypeOK
  <2>3. a.pc = "rollback" /\ a.token = act[c].token /\ a.fence = act[c].fence
        /\ a.j = act[c].j /\ a.why = act[c].why /\ a.pos = act[c].pos - 1
        /\ a.seen = act[c].seen
    BY ActTyped DEF ActRec
  <2>4. StillUndone(act[c].j) /\ \A g \in File : g >= act[c].pos => file[g] = Old[g]
    BY <1>1, <2>1, ActiveFacts, PlaceFacts DEF Progress, Elsewhere
  <2> HIDE DEF a
  <2>5. Placed(c)'
    <3>1. HasJournal(c)' /\ disk'.status \in StatusAt(act'[c].pc)
      BY <1>2, <2>1, <2>2, <2>3, <2>4
      DEF HasJournal, StillUndone, StatusAt, InApply, InRollback
    <3>2. \A g \in File : g > act[c].pos - 1 => file[g] = Old[g]
      BY <1>3, <2>1, <2>4
    <3>3. Progress(c)'
      BY <2>1, <2>2, <2>3, <3>2 DEF Progress, InApply, InRollback
    <3> QED BY <3>1, <3>3 DEF Placed
  <2>6. Delivered
    BY <2>1, <2>2, NothingDelivered
  <2>7. StillUndone(disk)'
    BY <2>2, <2>4 DEF StillUndone
  <2> QED BY <1>1, <1>2, <2>1, <2>2, <2>3, <2>5, <2>6, <2>7, UndoStep DEF Settled, InRollback
<1>7. CASE RollbackEnds(c)
  <2> DEFINE j == [act[c].j EXCEPT !.status = "rolled_back"]
             a == [act[c] EXCEPT !.j = j, !.pc = "note_rolled_back"]
  <2>1. Set(c, a) /\ act'[c] = a /\ disk' = j /\ UNCHANGED <<file, backup, run, crashes, edits>>
        /\ act[c].pc = "rollback" /\ act[c].pos = 0
    BY <1>7 DEF RollbackEnds, Persist, Set, TypeInv, TypeOK, At
  <2>2. a.pc = "note_rolled_back" /\ a.token = act[c].token /\ a.fence = act[c].fence
        /\ a.j = j /\ a.why = act[c].why /\ a.seen = act[c].seen
    BY ActTyped DEF ActRec
  <2>3. j.status = "rolled_back" /\ j.before = Old /\ StillUndone(j)
        /\ disk.status = "rolling_back"
    BY <1>1, <1>2, <2>1, ActTyped, PlaceFacts DEF Journal, StillUndone, Elsewhere, InRollback
  <2>4. file = Old
    <3>1. \A g \in File : g > 0 => file[g] = Old[g]
      BY <1>1, <2>1, ActiveFacts DEF Progress
    <3> QED BY <1>3, <3>1
  <2> HIDE DEF a, j
  <2>5. Placed(c)'
    BY <2>1, <2>2, <2>3
    DEF Placed, HasJournal, StillUndone, Elsewhere, Progress, StatusAt, InApply,
        InRollback
  <2>6. Delivered
    <3>1. Delivery!Restore
      BY <2>1, <2>3, <2>4 DEF Delivery!Restore
    <3> QED BY <3>1 DEF Unedited, Delivered, Delivery!Next
  <2>7. StillUndone(disk)'
    BY <2>1, <2>3 DEF StillUndone
  <2> QED BY <1>1, <1>2, <2>1, <2>2, <2>3, <2>4, <2>5, <2>6, <2>7, UndoStep
          DEF Settled, InRollback
<1>8. CASE NoteRolledBack(c)
  <2>1. Executes(c) /\ act[c].pc = "note_rolled_back"
    BY <1>1, <1>8 DEF NoteRolledBack, Executes, At
  <2>2. disk.status \in StatusAt("failing")
    BY ActTyped DEF StatusAt, InApply, InRollback, Journal
  <2>3. Note(c, "failing", "failing") /\ UNCHANGED <<file, backup, disk, crashes>>
    BY <1>8 DEF NoteRolledBack
  <2> QED BY <1>1, <2>1, <2>2, <2>3, NoteGoesOn DEF Pc, InApply, InRollback
<1> QED BY <1>4, <1>5, <1>6, <1>7, <1>8

\* The monitor's repair makes of no run a finished one.
LEMMA RepairedFacts ==
  ASSUME NEW r \in RunRec
  PROVE  Repaired(r).delivery = r.delivery /\ (Repaired(r).status = "done" => r.status = "done")
BY DEF Repaired, Retired, RunRec

LEMMA ReleasedFacts ==
  ASSUME NEW r \in RunRec, NEW c
  PROVE  Released(r, c).delivery = r.delivery /\ Released(r, c).status = r.status
BY DEF Released, Retired, RunRec

\* Nobody is at work, and the project and its journal are left alone.
LEMMA GoesIdle ==
  ASSUME TypeInv, IInv, Unedited, NEW c \in Controller, Others(c), Set(c, Idle),
         UNCHANGED <<file, backup, disk, crashes>>, Calm, RunIsTrue'
  PROVE  IInv' /\ Delivered
<1>1. act'[c] = Idle
  BY DEF Set, TypeInv, TypeOK
<1>2. Kept(c)' /\ Saw(c)' /\ Placed(c)'
  BY <1>1 DEF Kept, Executes, Saw, Placed, At, Idle
<1>3. JournalIsSound'
  BY Rests DEF IInv
<1> QED BY <1>2, <1>3, OneMoves, NothingDelivered

\* Only the run record changes, and no process is at work.
LEMMA AllIdle ==
  ASSUME TypeInv, IInv, Unedited, \A c \in Controller : At(c, "idle"),
         UNCHANGED <<file, backup, disk, act, crashes>>, RunIsTrue'
  PROVE  IInv' /\ Delivered
<1>1. \A c \in Controller : act[c].pc = "idle" /\ act'[c] = act[c] /\ act[c].why # "monitor"
  BY DEF At, IInv, MonitorSaw, Saw, InRollback
<1>2. OneActive' /\ LeaseIsKept' /\ MonitorSaw' /\ AtPlace'
  BY <1>1 DEF OneActive, LeaseIsKept, Kept, Executes, MonitorSaw, Saw, AtPlace, Placed, At
<1>3. Calm
  BY <1>1 DEF Calm, InRollback
<1>4. JournalIsSound'
  BY <1>3, Rests DEF IInv
<1> QED BY <1>2, <1>4, NothingDelivered DEF IInv

LEMMA EndKeeps ==
  ASSUME Sheltered, TypeInv, IInv, Unedited, NEW c \in Controller,
         MonitorRepairs(c) \/ MonitorRollback(c) \/ MonitorSaves(c) \/ Fail(c) \/ Finish(c)
  PROVE  IInv' /\ Delivered
<1>1. CASE MonitorRepairs(c)
  <2>1. \A d \in Controller : At(d, "idle")
    BY <1>1 DEF MonitorRepairs, Alone, Sheltered
  <2>2. RunIsTrue'
    BY <1>1, ActTyped, RepairedFacts DEF MonitorRepairs, IInv, RunIsTrue
  <2> QED BY <1>1, <2>1, <2>2, AllIdle DEF MonitorRepairs
<1>2. CASE MonitorRollback(c)
  <2> DEFINE a == [Idle EXCEPT !.pc = "begin_rollback", !.j = disk, !.seen = run,
                               !.why = "monitor"]
  <2>1. Set(c, a) /\ act'[c] = a /\ UNCHANGED <<file, backup, disk, run, crashes, edits>>
        /\ disk.status \in Unsettled
    BY <1>2 DEF MonitorRollback, Set, TypeInv, TypeOK
  <2>2. a.pc = "begin_rollback" /\ a.j = disk /\ a.seen = run /\ a.why = "monitor"
    BY DEF Idle
  <2>3. Others(c) /\ \A d \in Controller : act[d].pc = "idle"
    BY <1>2 DEF MonitorRollback, Alone, Sheltered, Others, At
  <2>4. Calm
    BY <2>3 DEF Calm, InRollback
  <2>5. disk.status \in Resumable \cup {"rolling_back"} /\ disk.before = Old /\ Resumed(disk)
    BY <2>1, <2>4
    DEF IInv, JournalIsSound, Unsettled, Settled, JournalStatus, Resumable, Calm, Resumed, Whole
  <2>6. run.status # "done" /\ ~run.delivery
    BY <2>5 DEF IInv, RunIsTrue, Resumable
  <2> HIDE DEF a
  <2>7. Kept(c)' /\ Saw(c)'
    BY <2>1, <2>2, <2>6 DEF Kept, Executes, Saw
  <2>8. Placed(c)'
    BY <2>1, <2>2, <2>5
    DEF Placed, HasJournal, Progress, StatusAt, InApply, InRollback, Resumed, Whole,
        StillUndone, NoneUndone
  <2>9. JournalIsSound' /\ RunIsTrue'
    BY <2>1, <2>4, Rests DEF IInv, RunIsTrue
  <2> QED BY <2>1, <2>3, <2>7, <2>8, <2>9, OneMoves, NothingDelivered
<1>3. CASE MonitorSaves(c)
  <2>1. act[c].why = "monitor" /\ Set(c, Idle) /\ UNCHANGED <<file, backup, disk, crashes>>
        /\ (At(c, "note_rolled_back") \/ At(c, "failing"))
    BY <1>3 DEF MonitorSaves
  <2>2. Saw(c) /\ act[c].pc # "idle"
    BY <2>1 DEF IInv, MonitorSaw, At
  <2>3. act[c].pc = "note_rolled_back" /\ act[c].seen.status # "done" /\ ~act[c].seen.delivery
    BY <2>1, <2>2 DEF Saw, At, InRollback
  <2>4. run' = [Repaired(act[c].seen) EXCEPT !.txn = "rolled_back"]
    BY <1>3, <2>3 DEF MonitorSaves, At
  <2>5. ~run'.delivery /\ run'.status # "done"
    <3>1. Repaired(act[c].seen) \in RunRec
      BY ActTyped, RepairedTyped DEF Sheltered
    <3>2. run'.delivery = Repaired(act[c].seen).delivery
          /\ run'.status = Repaired(act[c].seen).status
      BY <2>4, <3>1 DEF RunRec
    <3> QED BY <2>3, <3>2, ActTyped, RepairedFacts
  <2>6. Others(c) /\ Calm
    BY <2>2, <2>3, ActiveFacts DEF At, InRollback
  <2> QED BY <2>1, <2>5, <2>6, GoesIdle DEF RunIsTrue
<1>4. CASE Fail(c)
  <2> DEFINE failed == [run EXCEPT !.status = "failed"]
  <2>1. act[c].pc = "failing" /\ Set(c, Idle) /\ UNCHANGED <<file, backup, disk, crashes>>
        /\ (run' = run \/ run' = Released(failed, c))
    BY <1>4 DEF Fail, At
  <2>2. Others(c) /\ Calm /\ RunIsTrue
    BY <2>1, ActiveFacts DEF At, InRollback
  <2>3. RunIsTrue'
    <3>1. failed \in RunRec /\ failed.delivery = run.delivery /\ failed.status = "failed"
      BY ActTyped DEF RunRec
    <3>2. CASE run' = run
      BY <2>1, <2>2, <3>2 DEF RunIsTrue
    <3> HIDE DEF failed
    <3>3. CASE run' = Released(failed, c)
      BY <2>1, <2>2, <3>1, <3>3, ReleasedFacts DEF RunIsTrue
    <3> QED BY <2>1, <3>2, <3>3
  <2> QED BY <2>1, <2>2, <2>3, GoesIdle
<1>5. CASE Finish(c)
  <2>1. act[c].pc = "finishing" /\ ~At(c, "idle")
    BY <1>5 DEF Finish, At
  <2>2. Others(c) /\ Calm /\ disk.status = "committed"
    BY <2>1, ActiveFacts, PlaceFacts DEF InRollback
  <2>3. run.status = "active"
    BY <2>1, ActiveFacts DEF Kept, Saw, Executes, InRollback
  <2>4. Set(c, Idle) /\ UNCHANGED <<file, backup, disk, crashes>>
    BY <1>5, <2>3 DEF Finish
  <2> QED BY <2>2, <2>4, GoesIdle DEF RunIsTrue
<1> QED BY <1>1, <1>2, <1>3, <1>4, <1>5

\* A process dies. In a rollback this was the last crash; elsewhere no rollback has
\* touched the journal yet, or there would be no crash left.
LEMMA CrashKeeps ==
  ASSUME Sheltered, TypeInv, IInv, Unedited, NEW c \in Controller, Crash(c)
  PROVE  IInv' /\ Delivered
<1>1. ~At(c, "idle") /\ Set(c, Idle) /\ act'[c] = Idle /\ UNCHANGED <<file, backup, disk, run>>
      /\ crashes < MaxCrashes /\ (act[c].pc \in InRollback => crashes' = MaxCrashes)
  BY DEF Crash, Sheltered, InRollback, Set, TypeInv, TypeOK
<1>2. JournalIsSound /\ Others(c) /\ {crashes, MaxCrashes} \subseteq Nat
  BY <1>1, ActiveFacts DEF TypeInv, TypeOK, Sheltered, Setting, Assumptions
<1>3. disk.status \in Resumable => NoneUndone(disk)
  BY <1>1, <1>2 DEF JournalIsSound, Whole
<1>4. disk.status = "rolling_back" => crashes' = MaxCrashes
  BY <1>1, <1>2, ActiveFacts
<1>5. StillUndone(disk)
  <2>1. CASE act[c].pc = "persist_op"
    BY <1>1, <1>3, <2>1, PlaceFacts DEF InApply, Resumable, StillUndone, NoneUndone
  <2>2. CASE act[c].pc # "persist_op"
    BY <1>1, <2>2, ActiveFacts
  <2> QED BY <2>1, <2>2
<1>6. JournalIsSound'
  BY <1>1, <1>2, <1>3, <1>4, <1>5 DEF JournalIsSound, Whole, NoneUndone, StillUndone
<1>7. RunIsTrue'
  BY <1>1, ActiveFacts DEF RunIsTrue
<1>8. Kept(c)' /\ Saw(c)' /\ Placed(c)'
  BY <1>1 DEF Kept, Executes, Saw, Placed, At, Idle
<1> QED BY <1>1, <1>2, <1>6, <1>7, <1>8, OneMoves, NothingDelivered

LEMMA EnvironmentKeeps ==
  ASSUME Sheltered, TypeInv, IInv, Unedited,
         \/ \E c \in Controller : Heartbeat(c) \/ Stop(c) \/ Crash(c)
         \/ Interrupt \/ (\E f \in File : UserEdits(f))
  PROVE  IInv' /\ Delivered
<1>1. ASSUME NEW c \in Controller, Heartbeat(c) PROVE IInv' /\ Delivered
  <2>1. act[c].pc \in Beating /\ ~At(c, "idle") /\ act[c].pc \notin InRollback \cup {"persist_op"}
    BY <1>1 DEF Heartbeat, Beating, At, InRollback
  <2>2. Executes(c)
    BY <2>1, ActiveFacts DEF Saw, Executes, Beating, InRollback
  <2>3. CASE Goto(c, "failing") /\ UNCHANGED run
    BY <1>1, <2>1, <2>2, <2>3, GivesUp DEF Heartbeat
  <2>4. CASE run' = [run EXCEPT !.lease.left = TTL] /\ UNCHANGED act
    <3>1. /\ run'.status = run.status /\ run'.delivery = run.delivery
          /\ run'.lease.owner = run.lease.owner /\ run'.lease.token = run.lease.token
          /\ run'.lease.left = TTL /\ TTL > 0
      BY <2>4, ActTyped DEF RunRec, L!LeaseRec, Sheltered, Setting
    <3>2. Set(c, act[c])
      BY <2>4 DEF Set, TypeInv, TypeOK
    <3>3. JournalIsSound' /\ RunIsTrue'
      BY <1>1, <2>1, <3>1, ActiveFacts, Rests DEF Heartbeat, RunIsTrue
    <3>4. Kept(c)' /\ Saw(c)'
      BY <2>1, <2>4, <3>1, ActiveFacts DEF Kept, Saw, Executes, At
    <3>5. Placed(c)'
      BY <1>1, <2>1, <2>4, ActiveFacts
      DEF Heartbeat, Placed, HasJournal, Progress, Resumed, Whole, StillUndone, NoneUndone, At
    <3> QED BY <1>1, <2>1, <3>2, <3>3, <3>4, <3>5, ActiveFacts, OneMoves, NothingDelivered
            DEF Heartbeat
  <2> QED BY <1>1, <2>3, <2>4 DEF Heartbeat
<1>2. ASSUME NEW c \in Controller, Stop(c) PROVE IInv' /\ Delivered
  <2>1. act[c].pc \in Beating /\ ~At(c, "idle") /\ act[c].pc \notin InRollback \cup {"persist_op"}
    BY <1>2 DEF Stop, Beating, At, InRollback
  <2>2. Executes(c)
    BY <2>1, ActiveFacts DEF Saw, Executes, Beating, InRollback
  <2> QED BY <1>2, <2>1, <2>2, GivesUp DEF Stop
<1>3. ASSUME NEW c \in Controller, Crash(c) PROVE IInv' /\ Delivered
  BY <1>3, CrashKeeps
<1>4. CASE Interrupt
  <2>1. run'.delivery = run.delivery /\ run'.status # "done"
    BY <1>4 DEF Interrupt, TypeInv, TypeOK, RunRec
  <2>2. RunIsTrue'
    BY <1>4, <2>1 DEF Interrupt, IInv, RunIsTrue
  <2> QED BY <1>4, <2>2, AllIdle DEF Interrupt
<1>5. ASSUME NEW f \in File, UserEdits(f) PROVE FALSE
  BY <1>5 DEF UserEdits, Unedited
<1> QED BY <1>1, <1>2, <1>3, <1>4, <1>5

\* Time: of a controller at work the heartbeat comes before the lease is out.
LEMMA TickKeeps ==
  ASSUME Sheltered, TypeInv, IInv, Unedited, Tick
  PROVE  IInv' /\ Delivered
<1>1. UNCHANGED <<file, backup, disk, crashes>> /\ ~DueHeartbeat
      /\ run' = [run EXCEPT !.lease = Aged(@)]
      /\ act' = [c \in Controller |-> [act[c] EXCEPT !.lease = Aged(@)]]
  BY DEF Tick, Sheltered
<1>2. run'.status = run.status /\ run'.delivery = run.delivery /\ run'.lease = Aged(run.lease)
  BY <1>1 DEF TypeInv, TypeOK, RunRec
<1>3. ASSUME NEW c \in Controller
      PROVE  /\ act'[c].pc = act[c].pc /\ act'[c].j = act[c].j /\ act'[c].pos = act[c].pos
             /\ act'[c].token = act[c].token /\ act'[c].fence = act[c].fence
             /\ act'[c].why = act[c].why /\ act'[c].seen = act[c].seen
  BY <1>1, ActTyped DEF ActRec
<1>4. OneActive' /\ RunIsTrue' /\ MonitorSaw'
  <2>1. OneActive'
    BY <1>3 DEF IInv, OneActive, At
  <2>2. RunIsTrue'
    BY <1>1, <1>2 DEF IInv, RunIsTrue
  <2>3. MonitorSaw'
    BY <1>3 DEF IInv, MonitorSaw, Saw
  <2> QED BY <2>1, <2>2, <2>3
<1>5. JournalIsSound'
  BY <1>1, <1>3 DEF IInv, JournalIsSound, Resumed, Whole, StillUndone, NoneUndone
<1>6. AtPlace'
  BY <1>1, <1>3
  DEF IInv, AtPlace, Placed, HasJournal, Progress, Resumed, Whole, StillUndone,
      NoneUndone, At
<1>7. LeaseIsKept'
  <2> SUFFICES ASSUME NEW c \in Controller, Executes(c)' PROVE Kept(c)'
    BY DEF LeaseIsKept, Kept
  <2>1. Executes(c) /\ act[c].why # "monitor" /\ ~At(c, "idle")
    BY <1>3 DEF Executes, At
  <2>2. /\ run.status = "active" /\ run.lease.owner = c
        /\ run.lease.token = act[c].token /\ run.lease.left > 0
        /\ act[c].fence \in {0, act[c].token}
    BY <2>1 DEF IInv, LeaseIsKept, Kept
  <2>3. run.lease.left \in Nat
    BY DEF TypeInv, TypeOK, RunRec, L!LeaseRec, Sheltered, Setting
  <2>4. run.lease.left # 1
    <3>1. L!Asserts(run.lease, c, act[c].token)
      BY <2>2 DEF L!Asserts, L!HeldBy, L!Expired, L!NoLease
    <3> QED BY <1>1, <2>1, <2>2, <3>1 DEF DueHeartbeat
  <2>5. /\ Aged(run.lease).left > 0 /\ Aged(run.lease).owner = run.lease.owner
        /\ Aged(run.lease).token = run.lease.token
    <3>1. run.lease \in L!LeaseRec
      BY DEF TypeInv, TypeOK, RunRec
    <3> QED BY <2>2, <2>3, <2>4, <3>1 DEF Aged, L!LeaseRec
  <2> QED BY <1>2, <1>3, <2>2, <2>5 DEF Kept
<1>8. Delivered
  BY <1>1, NothingDelivered
<1> QED BY <1>4, <1>5, <1>6, <1>7, <1>8 DEF IInv

LEMMA StepKeeps ==
  ASSUME Sheltered, TypeInv, IInv, Unedited, [Next]_vars PROVE IInv' /\ Delivered
<1>1. CASE UNCHANGED vars
  <2>1. IInv'
    BY <1>1
    DEF vars, IInv, OneActive, JournalIsSound, Resumed, Whole, StillUndone, NoneUndone,
        RunIsTrue, LeaseIsKept, Kept,
       Executes, MonitorSaw, Saw, AtPlace, Placed, HasJournal, Progress, At
  <2> QED BY <1>1, <2>1, NothingDelivered DEF vars
<1>2. CASE Next
  BY <1>2, StartKeeps, PreparationKeeps, ApplicationKeeps, CommitKeeps, RollbackKeeps, EndKeeps,
     EnvironmentKeeps, TickKeeps
  DEF Next, Work
<1> QED BY <1>1, <1>2

LEMMA InitKeeps ==
  ASSUME Sheltered, Init PROVE IInv /\ Delivery!Init
<1>1. /\ disk = NoJournal /\ file = Old /\ run = NewRun /\ edits = 0
      /\ \A c \in Controller : act[c] = Idle
  BY DEF Init
<1>2. JournalIsSound /\ RunIsTrue
  BY <1>1 DEF JournalIsSound, RunIsTrue, NoJournal, NewRun, StillUndone, NoneUndone, Resumable
<1>3. Delivery!Init
  <2>1. disk.status = "none" /\ ~(edits > 0)
    BY <1>1 DEF NoJournal
  <2> QED BY <1>1, <2>1 DEF Delivery!Init
<1>4. OneActive /\ LeaseIsKept /\ MonitorSaw /\ AtPlace
  BY <1>1 DEF OneActive, LeaseIsKept, Kept, Executes, MonitorSaw, Saw, AtPlace, Placed, At, Idle
<1> QED BY <1>2, <1>3, <1>4 DEF IInv

\* No step but one of the user counts as an edit.
LEMMA EditsGrow ==
  ASSUME TypeInv, [Next]_vars, edits' = 0 PROVE edits = 0
<1>1. ASSUME NEW f \in File, UserEdits(f) PROVE FALSE
  BY <1>1 DEF UserEdits, TypeInv, TypeOK
<1>2. ASSUME NEW c \in Controller, Work(c) PROVE edits' = edits
  BY <1>2
  DEF Work, Deliver, CheckBaseline, HashTargets, BackUp, Prepare, NotePrepared,
      ApplyBegins, ApplyOp,
      PersistOp, ApplyEnds, NoteApplied, Verify, Commit, NoteCommitted, Record, RollbackBegins,
      RollbackOp, PersistRollback, RollbackEnds, NoteRolledBack, MonitorSaves, Fail, Finish
<1>3. ASSUME NEW c \in Controller,
             \/ Start(c) \/ Heartbeat(c) \/ Stop(c) \/ Crash(c) \/ MonitorRepairs(c)
             \/ MonitorRollback(c)
      PROVE  edits' = edits
  BY <1>3 DEF Start, Heartbeat, Stop, Crash, MonitorRepairs, MonitorRollback
<1>4. Interrupt \/ Tick \/ UNCHANGED vars => edits' = edits
  BY DEF Interrupt, Tick, vars
<1> QED BY <1>1, <1>2, <1>3, <1>4 DEF Next

\* One more step of a delivery nobody has edited under so far.
LEMMA SoundStep ==
  ASSUME Sheltered, TypeInv, edits = 0 => IInv, [Next]_vars
  PROVE  TypeInv' /\ (edits' = 0 => IInv' /\ Delivered)
<1>1. TypeInv'
  BY StepTyped DEF Sheltered
<1>2. edits' = 0 => Unedited /\ IInv
  BY EditsGrow DEF Unedited
<1> QED BY <1>1, <1>2, StepKeeps

THEOREM DeliveryIsSound == ASSUME Sheltered PROVE Spec => [](TypeInv /\ (edits = 0 => IInv))
<1>1. Init => TypeInv /\ (edits = 0 => IInv)
  BY InitTyped, InitKeeps DEF Sheltered
<1>2. TypeInv /\ (edits = 0 => IInv) /\ [Next]_vars => (TypeInv /\ (edits = 0 => IInv))'
  BY SoundStep
<1> QED BY <1>1, <1>2, PTL DEF Spec

\* Where one controller at a time delivers, with its heartbeats in time, a run
\* reported done has its files in the project unless somebody else edited them:
\* however often the delivery crashed before, was stopped, resumed by another process
\* or rolled back by the monitor.
THEOREM DoneMeansDelivered ==
  ASSUME Sheltered PROVE Spec => [](edits = 0 => DoneIsDelivered)
<1>1. (edits = 0 => IInv) => (edits = 0 => DoneIsDelivered)
  BY DEF IInv, RunIsTrue, JournalIsSound, DoneIsDelivered
<1> QED BY <1>1, DeliveryIsSound, PTL

\* A delivery of any number of files looks, from the project, like one that
\* is all or nothing, until somebody else edits it.
THEOREM DeliveryIsAllOrNothing == ASSUME Sheltered PROVE Spec => AllOrNothing
<1>1. Init => Delivery!Init
  BY InitKeeps
<1>2. TypeInv /\ (edits = 0 => IInv) /\ [Next]_vars => [Delivery!Next]_(Delivery!vars)
  <2> SUFFICES ASSUME TypeInv, edits = 0 => IInv, [Next]_vars PROVE Delivered
    BY DEF Delivered
  <2>1. CASE edits' = 0
    BY <2>1, SoundStep
  <2>2. CASE edits' # 0
    <3>1. edits' > 0
      BY <2>2, SoundStep DEF TypeInv, TypeOK
    <3> QED BY <3>1 DEF Delivered, Delivery!Next
  <2> QED BY <2>1, <2>2
<1> QED BY <1>1, <1>2, DeliveryIsSound, PTL DEF Spec, AllOrNothing, Delivery!Spec

-----------------------------------------------------------------------------
(* Deliveries that users edit under.                                       *)

\* What is assumed of the deployment: one controller at a time, and no crash after
\* one that interrupted a rollback.
Orderly == Setting /\ OneAtATime /\ LastInRollback

\* Where a journal is filled in, and where the project is changed by it.
Preparing == {"check", "hash", "backup", "prepare"}
Journaled == InApply \cup InRollback \cup
  {"note_prepared", "begin_apply", "end_apply", "note_applied", "verify", "commit",
   "note_committed", "begin_rollback"}

\* Nothing that was there before came from the agent.
BaselineIn(j) == \A f \in File : j.before[f] \in {Old[f], "edited"}

\* The backup has what was there before, or a user was faster than the backup
\* and what was there before is in the project no more.
BackedUp(j) ==
  \A f \in File :
    \/ backup[f] = j.before[f]
    \/ j.before[f] = Old[f] /\ (Old[f] = "none" \/ file[f] # Old[f])

\* Can a rollback put back what was there before?
Undoable(f) == disk.before[f] = "none" \/ backup[f] = disk.before[f]

UndoneRight(j) == \A f \in File : j.op[f] = "rolled_back" => Undoable(f)

\* What is marked as undone is undone.
Undone(j) == \A f \in File : j.op[f] = "rolled_back" => file[f] # New[f]

\* No rollback has been here, or one that cannot come to its end, or the last crash
\* was in one.
Unbroken(j) ==
  \/ NoneUndone(j)
  \/ \E f \in File : ~Undoable(f)
  \/ crashes = MaxCrashes /\ Undone(j)

DiskIsSound ==
  /\ BaselineIn(disk)
  /\ disk.status = "none" =>
       NoneUndone(disk) /\ \A f \in File : file[f] \in {Old[f], "edited"}
  /\ disk.status # "none" => BackedUp(disk) /\ UndoneRight(disk)
  /\ disk.status = "rolled_back" => \A f \in File : file[f] # New[f]
  /\ disk.status # "rolled_back" /\ (\A c \in Controller : act[c].pc \notin InRollback) =>
       \/ Unbroken(disk)
       \/ crashes = MaxCrashes /\ \E c \in Controller : act[c].pc = "persist_op"

\* What the controller with this record has done so far.
Underway(a) ==
  /\ BaselineIn(a.j)
  /\ a.pc \in Preparing => disk.status = "none" /\ NoneUndone(a.j)
  /\ a.pc = "backup" =>
       \A f \in File : \/ a.j.before[f] = file[f]
                       \/ a.j.before[f] = Old[f] /\ file[f] = "edited"
  /\ a.pc = "prepare" => BackedUp(a.j)
  /\ a.pc \in Journaled =>
       /\ disk.status \notin {"none", "rolled_back"}
       /\ a.j.before = disk.before /\ UndoneRight(a.j)
  /\ a.pc \in Journaled \ InRollback => Unbroken(a.j)
  /\ a.pc \in InApply \cup InRollback => a.j.status = disk.status
  /\ a.pc \in InRollback =>
       /\ \A f \in File : f > a.pos \/ (f = a.pos /\ a.pc = "persist_rollback") =>
            a.j.op[f] = "rolled_back"
       /\ \A f \in File : disk.op[f] = "rolled_back" => a.j.op[f] = "rolled_back"
       /\ (\E f \in File : ~Undoable(f)) \/ Undone(a.j)

EditedInv ==
  OneActive /\ DiskIsSound /\ \A c \in Controller : ~At(c, "idle") => Underway(act[c])

-----------------------------------------------------------------------------
LEMMA Contents ==
  ASSUME Setting, NEW f \in File
  PROVE  Old[f] # New[f] /\ Old[f] \in {"none", "old"} /\ New[f] \in {"none", "new"}
BY DEF Setting, Assumptions

\* Only the controller that moves has to be looked at.
LEMMA EditedOneMoves ==
  ASSUME TypeInv, EditedInv, NEW c \in Controller, Others(c), NEW a, Set(c, a),
         DiskIsSound', a.pc = "idle" \/ Underway(a)'
  PROVE  EditedInv'
<1>1. act' = [act EXCEPT ![c] = a] /\ act \in [Controller -> ActRec]
  BY DEF Set, TypeInv, TypeOK
<1>2. ASSUME NEW d \in Controller, d # c PROVE act'[d].pc = "idle"
  BY <1>1, <1>2 DEF Others, At
<1>3. act'[c] = a
  BY <1>1
<1>4. OneActive'
  BY <1>2 DEF OneActive, At
<1>5. ASSUME NEW d \in Controller, ~At(d, "idle")' PROVE Underway(act[d])'
  <2>1. d = c
    BY <1>2, <1>5 DEF At
  <2>2. a.pc # "idle"
    BY <1>3, <1>5, <2>1 DEF At
  <2>3. Underway(a)'
    BY <2>2
  <2> QED BY <2>1, <2>3, <1>3 DEF Underway
<1> QED BY <1>4, <1>5 DEF EditedInv

\* A step that leaves project, backup and journal alone.
LEMMA DiskRests ==
  ASSUME DiskIsSound, UNCHANGED <<file, backup, disk, crashes>>, Calm
  PROVE  DiskIsSound'
BY DEF DiskIsSound, BaselineIn, NoneUndone, BackedUp, UndoneRight, Unbroken, Undoable,
       Undone, Calm

\* A controller that is at work but not in a rollback, and what is known then.
LEMMA EditedFacts ==
  ASSUME TypeInv, EditedInv, NEW c \in Controller, Others(c), act[c].pc \notin InRollback
  PROVE  /\ DiskIsSound /\ \A d \in Controller : act[d].pc \notin InRollback
         /\ act[c].pc # "persist_op" => Calm
         /\ ~At(c, "idle") => Underway(act[c])
BY DEF EditedInv, Others, Calm, At, InRollback

\* A step of a controller that leaves project, backup and journal alone, and
\* is not one of a rollback.
LEMMA EditedQuietly ==
  ASSUME TypeInv, EditedInv, NEW c \in Controller, Others(c),
         act[c].pc \notin InRollback \cup {"persist_op"},
         NEW a, Set(c, a), UNCHANGED <<file, backup, disk, crashes>>, a.pc = "idle" \/ Underway(a)
  PROVE  EditedInv'
<1>1. DiskIsSound /\ Calm
  BY EditedFacts
<1>2. DiskIsSound'
  BY <1>1, DiskRests
<1>3. Underway(a) => Underway(a)'
  BY DEF Underway, BaselineIn, NoneUndone, BackedUp, UndoneRight, Unbroken, Undoable,
         Undone
<1>4. a.pc = "idle" \/ Underway(a)'
  BY <1>3
<1>5. EditedInv'
  BY <1>2, <1>4, EditedOneMoves, Zenon
<1> QED BY <1>5

\* Where a controller has nothing to say of the delivery.
Aside == {"running", "record", "note_rolled_back", "failing", "finishing"}

\* A controller that has nothing to say has broken nothing.
LEMMA AsideStep ==
  ASSUME NEW a, a.pc \in Aside, BaselineIn(a.j)
  PROVE  Underway(a)
BY DEF Underway, Aside, Preparing, Journaled, InApply, InRollback

\* A step without an effect on the project: a controller only moves to where it has
\* nothing to say.
LEMMA AsideGoto ==
  ASSUME TypeInv, EditedInv, NEW c \in Controller, ~At(c, "idle"), NEW pc \in Aside
  PROVE  Underway([act[c] EXCEPT !.pc = pc])
<1>1. act[c] \in ActRec /\ BaselineIn(act[c].j)
  BY ActTyped DEF EditedInv, Underway
<1> QED BY <1>1, AsideStep DEF ActRec

\* One at a time.
LEMMA EditedAlone ==
  ASSUME Orderly, EditedInv, NEW c \in Controller
  PROVE  /\ ~At(c, "idle") => Others(c)
         /\ Alone(c) => Others(c)
BY DEF Orderly, EditedInv, OneActive, Others, Alone

\* A controller that starts has no journal yet.
LEMMA EditedStart ==
  ASSUME Orderly, TypeInv, EditedInv, NEW c \in Controller, Start(c)
  PROVE  EditedInv'
<1>1. UNCHANGED <<file, backup, disk, crashes>> /\ Alone(c) /\ act[c].pc = "idle"
  BY DEF Start, At
<1>2. PICK a : Set(c, a) /\ a.pc = "running" /\ a.j = NoJournal
  <2> DEFINE l == L!Acquired(run.lease, run.last, run.epoch, c)
             a == [Idle EXCEPT !.pc = "running", !.token = l.token]
  <2>1. Set(c, a)
    BY DEF Start
  <2>2. a.pc = "running" /\ a.j = NoJournal
    BY DEF Idle
  <2> HIDE DEF a
  <2> QED BY <2>1, <2>2
<1>3. Others(c)
  BY <1>1, EditedAlone
<1>4. BaselineIn(a.j)
  BY <1>2 DEF BaselineIn, NoJournal
<1>5. Underway(a)
  BY <1>2, <1>4, AsideStep DEF Aside
<1> QED BY <1>1, <1>2, <1>3, <1>5, EditedQuietly DEF InRollback

\* The steps up to the first journal.
LEMMA EditedPreparation ==
  ASSUME Orderly, TypeInv, EditedInv, NEW c \in Controller,
         Deliver(c) \/ CheckBaseline(c) \/ HashTargets(c) \/ BackUp(c) \/ Prepare(c)
  PROVE  EditedInv'
<1>1. ~At(c, "idle") /\ act[c].pc \notin InRollback \cup {"persist_op"}
  BY DEF Deliver, CheckBaseline, HashTargets, BackUp, Prepare, At, InRollback
<1>2. Others(c)
  BY <1>1, EditedAlone
<1>3. DiskIsSound /\ Underway(act[c]) /\ Calm
  BY <1>1, <1>2, EditedFacts
<1>4. act[c] \in ActRec /\ act[c].j \in Journal /\ disk \in Journal
  BY ActTyped
<1>5. disk.status # "rolled_back" => Unbroken(disk)
  BY <1>3 DEF DiskIsSound, Calm
<1>6. CASE Deliver(c)
  <2>1. PICK pc \in {"finishing", "failing", ResumeAt(disk.status)} :
          Set(c, [act[c] EXCEPT !.j = disk, !.lease = run.lease, !.fence = run.lease.token,
                                !.pc = pc])
    BY <1>6 DEF Deliver
  <2>2. PICK a : Set(c, a) /\ a.j = disk /\ a.pc = pc
    <3> DEFINE a == [act[c] EXCEPT !.j = disk, !.lease = run.lease, !.fence = run.lease.token,
                                   !.pc = pc]
    <3>1. a.j = disk /\ a.pc = pc
      BY <1>4 DEF ActRec
    <3> HIDE DEF a
    <3> QED BY <2>1, <3>1 DEF a
  <2>3. \/ pc \in Aside
        \/ pc = "check" /\ disk.status = "none"
        \/ pc = "begin_apply" /\ disk.status \notin {"none", "rolled_back"}
    BY <2>1 DEF ResumeAt, Aside
  <2>4. BaselineIn(a.j)
    BY <1>3, <2>2 DEF DiskIsSound
  <2>5. ASSUME pc \in Aside PROVE Underway(a)
    BY <2>2, <2>4, <2>5, AsideStep
  <2>6. ASSUME pc = "check" /\ disk.status = "none" PROVE Underway(a)
    BY <1>3, <2>2, <2>4, <2>6
    DEF Underway, DiskIsSound, Preparing, Journaled, InApply, InRollback
  <2>7. ASSUME pc = "begin_apply" /\ disk.status \notin {"none", "rolled_back"} PROVE Underway(a)
    BY <1>3, <1>5, <2>2, <2>4, <2>7
    DEF Underway, DiskIsSound, Preparing, Journaled, InApply, InRollback
  <2>8. Underway(a)
    BY <2>3, <2>5, <2>6, <2>7
  <2> QED BY <1>1, <1>2, <1>6, <2>2, <2>8, EditedQuietly DEF Deliver
<1>7. CASE CheckBaseline(c)
  <2>1. PICK pc \in {"hash", "failing"} : Set(c, [act[c] EXCEPT !.pc = pc])
    BY <1>7 DEF CheckBaseline, Goto
  <2>2. PICK a : Set(c, a) /\ a.j = act[c].j /\ a.pc = pc
    BY <1>4, <2>1 DEF ActRec
  <2>3. act[c].pc = "check"
    BY <1>7 DEF CheckBaseline, At
  <2>4. Underway(a)
    BY <1>3, <2>1, <2>2, <2>3 DEF Underway, Preparing, Journaled, InApply, InRollback
  <2> QED BY <1>1, <1>2, <1>7, <2>2, <2>4, EditedQuietly DEF CheckBaseline
<1>8. CASE HashTargets(c)
  <2>1. UNCHANGED <<file, backup, disk, crashes>> /\ act[c].pc = "hash"
    BY <1>8 DEF HashTargets, At
  <2>2. PICK a : Set(c, a) /\ a.j.before = file /\ a.j.op = act[c].j.op /\ a.pc = "backup"
    <3> DEFINE a == [act[c] EXCEPT !.pc = "backup", !.j.before = file]
    <3>1. Set(c, a)
      BY <1>8 DEF HashTargets
    <3>2. a.j.before = file /\ a.j.op = act[c].j.op /\ a.pc = "backup"
      BY <1>4 DEF ActRec, Journal
    <3> HIDE DEF a
    <3> QED BY <3>1, <3>2
  <2>3. disk.status = "none" /\ NoneUndone(act[c].j)
    BY <1>3, <2>1 DEF Underway, Preparing
  <2>4. \A f \in File : file[f] \in {Old[f], "edited"}
    BY <1>3, <2>3 DEF DiskIsSound
  <2>5. Underway(a)
    BY <2>2, <2>3, <2>4
    DEF Underway, Preparing, Journaled, InApply, InRollback, BaselineIn, NoneUndone
  <2> QED BY <1>1, <1>2, <2>1, <2>2, <2>5, EditedQuietly
<1>9. CASE BackUp(c)
  <2>1. backup' = file /\ UNCHANGED <<file, disk>> /\ act[c].pc = "backup"
    BY <1>9 DEF BackUp, Goto, At
  <2>2. PICK a : Set(c, a) /\ a.j = act[c].j /\ a.pc = "prepare"
    BY <1>4, <1>9 DEF BackUp, Goto, ActRec
  <2>3. /\ disk.status = "none" /\ NoneUndone(a.j) /\ BaselineIn(a.j)
        /\ \A f \in File : \/ a.j.before[f] = file[f]
                           \/ a.j.before[f] = Old[f] /\ file[f] = "edited"
    BY <1>3, <2>1, <2>2 DEF Underway, Preparing
  <2>4. DiskIsSound'
    BY <1>3, <2>1, <2>3 DEF DiskIsSound, BaselineIn, NoneUndone, Unbroken
  <2>5. ASSUME NEW f \in File
        PROVE  \/ file[f] = a.j.before[f]
               \/ a.j.before[f] = Old[f] /\ (Old[f] = "none" \/ file[f] # Old[f])
    BY <2>3, Contents DEF Orderly
  <2>6. Underway(a)'
    BY <2>1, <2>2, <2>3, <2>5
    DEF Underway, Preparing, Journaled, InApply, InRollback, BaselineIn, NoneUndone, BackedUp
  <2> QED BY <1>2, <2>2, <2>4, <2>6, EditedOneMoves
<1>10. CASE Prepare(c)
  <2>1. UNCHANGED <<file, backup>> /\ act[c].pc = "prepare"
    BY <1>10 DEF Prepare, At
  <2>2. PICK a : /\ Set(c, a) /\ disk' = a.j /\ a.pc = "note_prepared" /\ a.j.status = "prepared"
                 /\ a.j.before = act[c].j.before /\ a.j.op = act[c].j.op
    <3> DEFINE j == [act[c].j EXCEPT !.status = "prepared"]
               a == [act[c] EXCEPT !.j = j, !.pc = "note_prepared"]
    <3>1. Set(c, a) /\ disk' = j
      BY <1>10 DEF Prepare, Persist
    <3>2. a.j = j /\ a.pc = "note_prepared"
      BY <1>4 DEF ActRec
    <3>3. j.before = act[c].j.before /\ j.op = act[c].j.op /\ j.status = "prepared"
      BY <1>4 DEF Journal
    <3> HIDE DEF a, j
    <3> QED BY <3>1, <3>2, <3>3
  <2>3. NoneUndone(act[c].j) /\ BaselineIn(act[c].j) /\ BackedUp(act[c].j)
    BY <1>3, <2>1 DEF Underway, Preparing
  <2>4. NoneUndone(a.j) /\ BaselineIn(a.j) /\ BackedUp(a.j)
    BY <2>2, <2>3 DEF NoneUndone, BaselineIn, BackedUp
  <2>5. DiskIsSound'
    BY <2>1, <2>2, <2>4
    DEF DiskIsSound, NoneUndone, BaselineIn, BackedUp, UndoneRight, Unbroken
  <2>6. Underway(a)'
    BY <2>1, <2>2, <2>4
    DEF Underway, Preparing, Journaled, InApply, InRollback, BaselineIn, NoneUndone,
        UndoneRight, Unbroken
  <2> QED BY <1>2, <2>2, <2>5, <2>6, EditedOneMoves
<1> QED BY <1>6, <1>7, <1>8, <1>9, <1>10

\* A controller goes on with its journal as it is.
LEMMA EditedMovesOn ==
  ASSUME TypeInv, EditedInv, NEW c \in Controller, Others(c),
         act[c].pc \in Journaled \ (InRollback \cup {"persist_op"}), NEW a, Set(c, a), a.j = act[c].j,
         a.pc \in (Journaled \ (InApply \cup InRollback)) \cup Aside,
         UNCHANGED <<file, backup, disk, crashes>>
  PROVE  EditedInv'
<1>1. ~At(c, "idle") /\ act[c].pc \notin InRollback \cup {"persist_op"}
  BY DEF At, Journaled, InApply, InRollback
<1>2. Underway(act[c])
  BY <1>1, EditedFacts
<1>3. Underway(a)
  BY <1>2 DEF Underway, Aside, Preparing, Journaled, InApply, InRollback
<1> QED BY <1>1, <1>3, EditedQuietly

\* A controller writes its journal, with nothing in it undone that was not.
LEMMA EditedWritesDown ==
  ASSUME Setting, TypeInv, EditedInv, NEW c \in Controller, Others(c),
         act[c].pc \in Journaled \ InRollback, NEW a, Set(c, a), a.pc \in Journaled,
         a.pc \in InRollback => a.pc = "rollback" /\ a.pos = NumFiles,
         disk' = a.j, UNCHANGED <<file, backup, crashes>>,
         a.j.before = act[c].j.before, a.j.status \notin {"none", "rolled_back"},
         \A f \in File : a.j.op[f] = "rolled_back" => act[c].j.op[f] = "rolled_back"
  PROVE  EditedInv'
<1>1. ~At(c, "idle") /\ act[c].pc \notin InRollback
  BY DEF At, Journaled, InApply, InRollback
<1>2. DiskIsSound /\ Underway(act[c])
  BY <1>1, EditedFacts
<1>3. /\ BaselineIn(act[c].j) /\ act[c].j.before = disk.before /\ UndoneRight(act[c].j)
      /\ Unbroken(act[c].j) /\ BackedUp(disk)
  BY <1>2 DEF Underway, DiskIsSound
<1>4. disk'.before = disk.before /\ \A f \in File : Undoable(f)' = Undoable(f)
  BY <1>3 DEF Undoable
<1>5. BaselineIn(a.j) /\ NoneUndone(act[c].j) => NoneUndone(a.j)
  BY <1>3 DEF NoneUndone
<1>6. BaselineIn(a.j)' /\ BackedUp(a.j)' /\ UndoneRight(a.j)' /\ Unbroken(a.j)'
  <2>1. BaselineIn(a.j)' /\ BackedUp(a.j)'
    BY <1>3 DEF BaselineIn, BackedUp
  <2>2. UndoneRight(a.j)'
    BY <1>3, <1>4 DEF UndoneRight
  <2>3. Unbroken(a.j)'
    BY <1>3, <1>4 DEF Unbroken, NoneUndone, Undone
  <2> QED BY <2>1, <2>2, <2>3
<1>7. BaselineIn(disk)' /\ BackedUp(disk)' /\ UndoneRight(disk)' /\ Unbroken(disk)'
  BY <1>6 DEF BaselineIn, BackedUp, UndoneRight, Unbroken, NoneUndone, Undone
<1>8. DiskIsSound'
  BY <1>7 DEF DiskIsSound
<1>9. a.pc \in InRollback =>
        /\ \A f \in File : ~(f > a.pos)
        /\ (\E f \in File : ~Undoable(f)') \/ Undone(a.j)'
  <2>1. NumFiles \in Nat /\ \A f \in File : f \in Nat /\ ~(f > NumFiles)
    BY DEF Setting, Assumptions, File
  <2>2. (\E f \in File : ~Undoable(f)') \/ Undone(a.j)'
    BY <1>6 DEF Unbroken, NoneUndone, Undone
  <2> QED BY <2>1, <2>2 DEF InRollback
<1>10. Underway(a)'
  <2>1. a.pc \notin Preparing
    BY DEF Preparing, Journaled, InApply, InRollback
  <2>2. a.pc \in InRollback => a.pc # "persist_rollback"
    OBVIOUS
  <2> QED BY <1>4, <1>6, <1>9, <2>1, <2>2 DEF Underway, Preparing
<1> QED BY <1>8, <1>10, EditedOneMoves

\* The application, the validation and the commit.
LEMMA EditedApplication ==
  ASSUME Orderly, TypeInv, EditedInv, NEW c \in Controller,
         \/ NotePrepared(c) \/ ApplyBegins(c) \/ ApplyOp(c) \/ PersistOp(c) \/ ApplyEnds(c)
         \/ NoteApplied(c) \/ Verify(c) \/ Commit(c) \/ NoteCommitted(c) \/ RollbackBegins(c)
  PROVE  EditedInv'
<1>1. act[c].pc \in Journaled \ InRollback
  BY DEF NotePrepared, ApplyBegins, ApplyOp, PersistOp, ApplyEnds, NoteApplied, Verify, Commit,
     NoteCommitted, RollbackBegins, At, Journaled, InApply, InRollback
<1>2. Others(c) /\ ~At(c, "idle") /\ act[c].pc \notin InRollback
  BY <1>1, EditedAlone DEF At, Journaled, InApply, InRollback
<1>3. act[c] \in ActRec /\ act[c].j \in Journal
  BY ActTyped
<1>4. Setting
  BY DEF Orderly
<1>5. DiskIsSound /\ Underway(act[c])
  BY <1>2, EditedFacts
<1>6. ASSUME NEW next \in {"begin_apply", "verify", "record"},
             NEW refused \in {"failing", "begin_rollback"},
             Note(c, next, refused), act[c].pc # "persist_op",
             UNCHANGED <<file, backup, disk, crashes>>
      PROVE  EditedInv'
  <2>1. PICK a : Set(c, a) /\ a.j = act[c].j /\ a.pc \in {next, refused}
    <3> DEFINE a == [act[c] EXCEPT !.pc = next, !.lease = run.lease]
               b == [act[c] EXCEPT !.pc = refused,
                       !.why = IF refused = "begin_rollback" THEN "fenced" ELSE @]
    <3>1. Set(c, a) \/ Set(c, b)
      BY <1>6 DEF Note
    <3>2. a.j = act[c].j /\ a.pc = next /\ b.j = act[c].j /\ b.pc = refused
      BY <1>3 DEF ActRec
    <3> HIDE DEF a, b
    <3> QED BY <3>1, <3>2
  <2>2. a.pc \in (Journaled \ (InApply \cup InRollback)) \cup Aside
    BY <2>1 DEF Aside, Journaled, InApply, InRollback
  <2> QED BY <1>1, <1>2, <1>6, <2>1, <2>2, EditedMovesOn
<1>7. ASSUME NEW pc \in {"failing", "commit", "begin_rollback"}, NEW why,
             Set(c, [act[c] EXCEPT !.pc = pc, !.why = why]) \/ Goto(c, pc),
             act[c].pc # "persist_op", UNCHANGED <<file, backup, disk, crashes>>
      PROVE  EditedInv'
  <2>1. PICK a : Set(c, a) /\ a.j = act[c].j /\ a.pc = pc
    <3> DEFINE a == [act[c] EXCEPT !.pc = pc, !.why = why]
               b == [act[c] EXCEPT !.pc = pc]
    <3>1. Set(c, a) \/ Set(c, b)
      BY <1>7 DEF Goto
    <3>2. a.j = act[c].j /\ a.pc = pc /\ b.j = act[c].j /\ b.pc = pc
      BY <1>3 DEF ActRec
    <3> HIDE DEF a, b
    <3> QED BY <3>1, <3>2
  <2>2. a.pc \in (Journaled \ (InApply \cup InRollback)) \cup Aside
    BY <2>1 DEF Aside, Journaled, InApply, InRollback
  <2> QED BY <1>1, <1>2, <1>7, <2>1, <2>2, EditedMovesOn
<1>8. CASE NotePrepared(c) \/ NoteApplied(c) \/ NoteCommitted(c)
  BY <1>6, <1>8 DEF NotePrepared, NoteApplied, NoteCommitted, At
<1>9. CASE Verify(c)
  BY <1>7, <1>9 DEF Verify, At
<1>10. CASE ApplyBegins(c)
  <2>1. PICK a : /\ Set(c, a) /\ disk' = a.j /\ a.pc = "apply" /\ a.j.status = "applying"
                 /\ a.j.before = act[c].j.before /\ a.j.op = act[c].j.op
    <3> DEFINE j == [act[c].j EXCEPT !.status = "applying"]
               a == [act[c] EXCEPT !.j = j, !.pc = "apply", !.pos = 1]
    <3>1. Set(c, a) /\ disk' = j
      BY <1>10 DEF ApplyBegins
    <3>2. a.j = j /\ a.pc = "apply"
      BY <1>3 DEF ActRec
    <3>3. j.before = act[c].j.before /\ j.op = act[c].j.op /\ j.status = "applying"
      BY <1>3 DEF Journal
    <3> HIDE DEF a, j
    <3> QED BY <3>1, <3>2, <3>3
  <2>2. a.pc \in Journaled \ InRollback
    BY <2>1 DEF Journaled, InApply, InRollback
  <2> QED BY <1>1, <1>2, <1>4, <1>10, <2>1, <2>2, EditedWritesDown DEF ApplyBegins
<1>11. CASE PersistOp(c)
  <2>1. act[c].pc = "persist_op" /\ disk' = act[c].j
    BY <1>11 DEF PersistOp, At
  <2>2. PICK a : Set(c, a) /\ a.j = act[c].j /\ a.pc \in {"end_apply", "apply"}
    <3> DEFINE a == [act[c] EXCEPT !.pos = @ + 1,
                       !.pc = IF act[c].pos = NumFiles THEN "end_apply" ELSE "apply"]
    <3>1. Set(c, a)
      BY <1>11 DEF PersistOp
    <3>2. a.j = act[c].j /\ a.pc \in {"end_apply", "apply"}
      BY <1>3 DEF ActRec
    <3> HIDE DEF a
    <3> QED BY <3>1, <3>2
  <2>3. a.pc \in Journaled \ InRollback
    BY <2>2 DEF Journaled, InApply, InRollback
  <2>4. act[c].j.status \notin {"none", "rolled_back"}
    BY <1>1, <1>5, <2>1 DEF Underway, InApply
  <2> QED BY <1>1, <1>2, <1>4, <1>11, <2>1, <2>2, <2>3, <2>4, EditedWritesDown DEF PersistOp
<1>12. CASE ApplyEnds(c)
  <2>1. PICK a : /\ Set(c, a) /\ disk' = a.j /\ a.pc = "note_applied" /\ a.j.status = "verifying"
                 /\ a.j.before = act[c].j.before /\ a.j.op = act[c].j.op
    <3> DEFINE j == [act[c].j EXCEPT !.status = "verifying"]
               a == [act[c] EXCEPT !.j = j, !.pc = "note_applied"]
    <3>1. Set(c, a) /\ disk' = j
      BY <1>12 DEF ApplyEnds, Persist
    <3>2. a.j = j /\ a.pc = "note_applied"
      BY <1>3 DEF ActRec
    <3>3. j.before = act[c].j.before /\ j.op = act[c].j.op /\ j.status = "verifying"
      BY <1>3 DEF Journal
    <3> HIDE DEF a, j
    <3> QED BY <3>1, <3>2, <3>3
  <2>2. a.pc \in Journaled \ InRollback
    BY <2>1 DEF Journaled, InApply, InRollback
  <2> QED BY <1>1, <1>2, <1>4, <1>12, <2>1, <2>2, EditedWritesDown DEF ApplyEnds
<1>13. CASE Commit(c)
  <2>1. CASE DeliveryAsserts(act[c].lease, act[c].fence)
    <3>1. PICK a : /\ Set(c, a) /\ disk' = a.j /\ a.pc = "note_committed"
                   /\ a.j.status = "committed" /\ a.j.before = act[c].j.before
                   /\ \A f \in File : a.j.op[f] = "rolled_back" => act[c].j.op[f] = "rolled_back"
      <4> DEFINE j == [act[c].j EXCEPT !.status = "committed",
                         !.op = [f \in File |-> IF @[f] = "applied" THEN "committed" ELSE @[f]]]
                 a == [act[c] EXCEPT !.j = j, !.pc = "note_committed"]
      <4>1. Set(c, a) /\ disk' = j
        BY <1>13, <2>1 DEF Commit, Persist
      <4>2. a.j = j /\ a.pc = "note_committed"
        BY <1>3 DEF ActRec
      <4>3. /\ j.before = act[c].j.before /\ j.status = "committed"
            /\ \A f \in File : j.op[f] = "rolled_back" => act[c].j.op[f] = "rolled_back"
        BY <1>3 DEF Journal
      <4> HIDE DEF a, j
      <4> QED BY <4>1, <4>2, <4>3
    <3>2. a.pc \in Journaled \ InRollback
      BY <3>1 DEF Journaled, InApply, InRollback
    <3> QED BY <1>1, <1>2, <1>4, <1>13, <3>1, <3>2, EditedWritesDown DEF Commit
  <2>2. CASE ~DeliveryAsserts(act[c].lease, act[c].fence)
    BY <1>7, <1>13, <2>2 DEF Commit, At
  <2> QED BY <2>1, <2>2
<1>14. CASE RollbackBegins(c)
  <2>1. PICK a : /\ Set(c, a) /\ disk' = a.j /\ a.pc = "rollback" /\ a.j.status = "rolling_back"
                 /\ a.j.before = act[c].j.before /\ a.j.op = act[c].j.op /\ a.pos = NumFiles
    <3> DEFINE j == [act[c].j EXCEPT !.status = "rolling_back"]
               a == [act[c] EXCEPT !.j = j, !.pc = "rollback", !.pos = NumFiles]
    <3>1. Set(c, a) /\ disk' = j
      BY <1>14 DEF RollbackBegins
    <3>2. a.j = j /\ a.pc = "rollback" /\ a.pos = NumFiles
      BY <1>3 DEF ActRec
    <3>3. j.before = act[c].j.before /\ j.op = act[c].j.op /\ j.status = "rolling_back"
      BY <1>3 DEF Journal
    <3> HIDE DEF a, j
    <3> QED BY <3>1, <3>2, <3>3
  <2>2. a.pc \in Journaled
    BY <2>1 DEF Journaled, InApply, InRollback
  <2> QED BY <1>1, <1>2, <1>4, <1>14, <2>1, <2>2, EditedWritesDown DEF RollbackBegins
<1>15. CASE ApplyOp(c)
  <2> DEFINE f == act[c].pos
  <2>1. f \in File /\ act[c].pc = "apply"
    BY <1>15, ActTyped DEF ApplyOp, At, InPlace, InApply
  <2>2. CASE ~(IsApplied(f) \/ IsBaseline(act[c].j, f))
    <3>1. Goto(c, "failing") /\ UNCHANGED <<file, backup, disk, crashes>>
      BY <1>15, <2>2 DEF ApplyOp
    <3> QED BY <1>7, <2>1, <3>1
  <2>3. CASE IsApplied(f) \/ IsBaseline(act[c].j, f)
    <3>1. file' = [file EXCEPT ![f] = New[f]] /\ UNCHANGED <<backup, disk, crashes>>
      BY <1>15, <2>3 DEF ApplyOp
    <3>2. PICK a : /\ Set(c, a) /\ a.pc = "persist_op" /\ a.j.status = act[c].j.status
                   /\ a.j.before = act[c].j.before
                   /\ a.j.op = [act[c].j.op EXCEPT ![f] = "applied"]
      <4> DEFINE a == [act[c] EXCEPT !.pc = "persist_op", !.j.op[f] = "applied"]
      <4>1. Set(c, a)
        BY <1>15, <2>3 DEF ApplyOp
      <4>2. /\ a.pc = "persist_op" /\ a.j.status = act[c].j.status
            /\ a.j.before = act[c].j.before /\ a.j.op = [act[c].j.op EXCEPT ![f] = "applied"]
        BY <1>3 DEF ActRec, Journal
      <4> HIDE DEF a
      <4> QED BY <4>1, <4>2
    <3>3. /\ disk.status \notin {"none", "rolled_back"} /\ BaselineIn(act[c].j)
          /\ act[c].j.before = disk.before /\ UndoneRight(act[c].j) /\ Unbroken(act[c].j)
          /\ act[c].j.status = disk.status
      BY <1>1, <1>5, <2>1 DEF Underway, InApply
    <3>4. act[c].j.op \in [File -> OpStatus]
      BY <1>3 DEF Journal
    <3>5. \A g \in File : file'[g] = file[g] \/ file'[g] # Old[g]
      <4>1. file \in [File -> Content]
        BY DEF TypeInv, TypeOK
      <4> QED BY <1>4, <2>1, <3>1, <4>1, Contents
    <3>6. DiskIsSound'
      <4>1. BackedUp(disk)'
        BY <1>5, <3>1, <3>3, <3>5 DEF DiskIsSound, BackedUp
      <4>2. UndoneRight(disk)' /\ BaselineIn(disk)'
        BY <1>5, <3>1, <3>3 DEF DiskIsSound, UndoneRight, Undoable, BaselineIn
      <4>3. Unbroken(disk)' \/ crashes' = MaxCrashes
        <5>1. Unbroken(disk)
          BY <1>2, <1>5, <2>1, <3>3, EditedFacts DEF DiskIsSound, Calm
        <5> QED BY <3>1, <5>1 DEF Unbroken, NoneUndone, Undoable
      <4>4. act'[c].pc = "persist_op"
        BY <3>2 DEF Set, TypeInv, TypeOK
      <4> QED BY <3>1, <3>3, <4>1, <4>2, <4>3, <4>4 DEF DiskIsSound
    <3>7. BaselineIn(a.j)' /\ UndoneRight(a.j)' /\ Unbroken(a.j)'
      <4>1. file \in [File -> Content]
        BY DEF TypeInv, TypeOK
      <4>2. \A g \in File : a.j.op[g] = "rolled_back" =>
              g # f /\ act[c].j.op[g] = "rolled_back" /\ file'[g] = file[g]
        BY <2>1, <3>1, <3>2, <3>4, <4>1
      <4> QED BY <2>1, <3>1, <3>2, <3>3, <3>4, <4>2
          DEF BaselineIn, UndoneRight, Undoable, Unbroken, NoneUndone, Undone
    <3>8. Underway(a)'
      BY <3>1, <3>2, <3>3, <3>7 DEF Underway, Preparing, Journaled, InApply, InRollback
    <3> QED BY <1>2, <3>2, <3>6, <3>8, EditedOneMoves
  <2> QED BY <2>2, <2>3
<1> QED BY <1>8, <1>9, <1>10, <1>11, <1>12, <1>13, <1>14, <1>15

\* The rollback.
LEMMA EditedRollback ==
  ASSUME Orderly, TypeInv, EditedInv, NEW c \in Controller,
         RollbackOp(c) \/ PersistRollback(c) \/ RollbackEnds(c)
  PROVE  EditedInv'
<1>1. act[c].pc \in InRollback /\ ~At(c, "idle")
  BY DEF RollbackOp, PersistRollback, RollbackEnds, At, InRollback
<1>2. Others(c) /\ DiskIsSound /\ Underway(act[c])
  BY <1>1, EditedAlone DEF EditedInv
<1>3. act[c] \in ActRec /\ act[c].j \in Journal /\ act[c].j.op \in [File -> OpStatus]
      /\ file \in [File -> Content]
  BY ActTyped DEF Journal, TypeInv, TypeOK
<1>4. /\ BaselineIn(act[c].j) /\ disk.status \notin {"none", "rolled_back"}
      /\ act[c].j.before = disk.before /\ UndoneRight(act[c].j) /\ act[c].j.status = disk.status
      /\ \A f \in File : f > act[c].pos \/ (f = act[c].pos /\ act[c].pc = "persist_rollback") =>
           act[c].j.op[f] = "rolled_back"
      /\ \A f \in File : disk.op[f] = "rolled_back" => act[c].j.op[f] = "rolled_back"
      /\ \/ \E f \in File : ~Undoable(f)
         \/ \A f \in File : act[c].j.op[f] = "rolled_back" => file[f] # New[f]
  BY <1>1, <1>2 DEF Underway, Undone, Journaled
<1>5. BackedUp(disk) /\ UndoneRight(disk) /\ BaselineIn(disk)
  BY <1>2, <1>4 DEF DiskIsSound
<1>6. Setting /\ NumFiles \in Nat /\ \A f \in File : f \in Nat /\ f > 0
  BY DEF Orderly, Setting, Assumptions, File
<1>7. CASE PersistRollback(c)
  <2>1. /\ act[c].pc = "persist_rollback" /\ act[c].pos \in File
        /\ disk' = act[c].j /\ UNCHANGED <<file, backup>>
    BY <1>7, ActTyped DEF PersistRollback, At, InPlace
  <2>2. PICK a : Set(c, a) /\ a.j = act[c].j /\ a.pc = "rollback" /\ a.pos = act[c].pos - 1
    <3> DEFINE a == [act[c] EXCEPT !.pos = @ - 1, !.pc = "rollback"]
    <3>1. Set(c, a)
      BY <1>7 DEF PersistRollback
    <3>2. a.j = act[c].j /\ a.pc = "rollback" /\ a.pos = act[c].pos - 1
      BY <1>3 DEF ActRec
    <3> HIDE DEF a
    <3> QED BY <3>1, <3>2
  <2>3. act'[c].pc \in InRollback
    BY <2>2 DEF Set, TypeInv, TypeOK, InRollback
  <2>4. \A f \in File : Undoable(f)' = Undoable(f)
    BY <1>4, <2>1 DEF Undoable
  <2>5. DiskIsSound'
    BY <1>4, <1>5, <2>1, <2>3, <2>4 DEF DiskIsSound, BaselineIn, BackedUp, UndoneRight
  <2>6. \A f \in File : f > a.pos => f > act[c].pos \/ f = act[c].pos
    BY <1>6, <2>1, <2>2
  <2>7. BaselineIn(a.j)' /\ UndoneRight(a.j)'
    BY <1>4, <2>2, <2>4 DEF BaselineIn, UndoneRight
  <2>8. Underway(a)'
    <3>1. /\ \A f \in File : f > a.pos => a.j.op[f] = "rolled_back"
          /\ \/ \E f \in File : ~Undoable(f)'
             \/ \A f \in File : a.j.op[f] = "rolled_back" => file'[f] # New[f]
      BY <1>4, <2>1, <2>2, <2>4, <2>6
    <3> QED BY <1>4, <2>1, <2>2, <2>7, <3>1 DEF Underway, Undone, Preparing, InRollback, Journaled
  <2> QED BY <1>2, <2>2, <2>5, <2>8, EditedOneMoves
<1>8. CASE RollbackEnds(c)
  <2>1. act[c].pc = "rollback" /\ act[c].pos = 0 /\ UNCHANGED <<file, backup>>
    BY <1>8 DEF RollbackEnds, At
  <2>2. PICK a : /\ Set(c, a) /\ disk' = a.j /\ a.pc = "note_rolled_back"
                 /\ a.j.status = "rolled_back"
                 /\ a.j.before = act[c].j.before /\ a.j.op = act[c].j.op
    <3> DEFINE j == [act[c].j EXCEPT !.status = "rolled_back"]
               a == [act[c] EXCEPT !.j = j, !.pc = "note_rolled_back"]
    <3>1. Set(c, a) /\ disk' = j
      BY <1>8 DEF RollbackEnds, Persist
    <3>2. a.j = j /\ a.pc = "note_rolled_back"
      BY <1>3 DEF ActRec
    <3>3. j.before = act[c].j.before /\ j.op = act[c].j.op /\ j.status = "rolled_back"
      BY <1>3 DEF Journal
    <3> HIDE DEF a, j
    <3> QED BY <3>1, <3>2, <3>3
  <2>3. \A f \in File : act[c].j.op[f] = "rolled_back" /\ Undoable(f)
    BY <1>4, <1>6, <2>1 DEF UndoneRight
  <2>4. \A f \in File : file[f] # New[f]
    BY <1>4, <2>3
  <2>5. BaselineIn(a.j) /\ BackedUp(a.j)' /\ BaselineIn(disk)' /\ BackedUp(disk)'
    BY <1>4, <1>5, <2>1, <2>2 DEF BaselineIn, BackedUp
  <2>6. UndoneRight(disk)'
    BY <1>4, <2>1, <2>2, <2>3 DEF UndoneRight, Undoable
  <2>7. DiskIsSound'
    BY <2>1, <2>2, <2>4, <2>5, <2>6 DEF DiskIsSound
  <2>8. Underway(a)'
    <3>1. BaselineIn(a.j)'
      BY <2>5 DEF BaselineIn
    <3> QED BY <2>2, <3>1 DEF Underway, Preparing, InRollback, InApply, Journaled
  <2> QED BY <1>2, <2>2, <2>7, <2>8, EditedOneMoves
<1>9. CASE RollbackOp(c)
  <2> DEFINE f == act[c].pos
             less == [act[c] EXCEPT !.pos = @ - 1]
             marked == [act[c] EXCEPT !.pc = "persist_rollback", !.j.op[f] = "rolled_back"]
  <2>1. f \in File /\ act[c].pc = "rollback" /\ UNCHANGED <<backup, disk>>
    BY <1>6, <1>9, ActTyped DEF RollbackOp, At, InPlace, File
  <2>2. less.j = act[c].j /\ less.pc = "rollback" /\ less.pos = f - 1
    BY <1>3, <2>1 DEF ActRec
  <2>3. /\ marked.pc = "persist_rollback" /\ marked.pos = f
        /\ marked.j.status = act[c].j.status /\ marked.j.before = act[c].j.before
        /\ marked.j.op = [act[c].j.op EXCEPT ![f] = "rolled_back"]
    BY <1>3 DEF ActRec, Journal
  <2>4. CASE act[c].j.op[f] = "rolled_back"
    <3>1. PICK a : Set(c, a) /\ a.j = act[c].j /\ a.pc = "rollback" /\ a.pos = f - 1
      <4>1. Set(c, less)
        BY <1>9, <2>4 DEF RollbackOp
      <4> HIDE DEF less
      <4> QED BY <2>2, <4>1
    <3>2. file' = file
      BY <1>9, <2>4 DEF RollbackOp
    <3>3. act'[c].pc \in InRollback
      BY <3>1 DEF Set, TypeInv, TypeOK, InRollback
    <3>4. DiskIsSound'
      BY <1>4, <1>5, <2>1, <3>2, <3>3
      DEF DiskIsSound, BaselineIn, BackedUp, UndoneRight, Undoable
    <3>5. \A g \in File : g > a.pos => g > f \/ g = f
      BY <1>6, <2>1, <3>1
    <3>6. BaselineIn(a.j)' /\ UndoneRight(a.j)'
      BY <1>4, <2>1, <3>1 DEF BaselineIn, UndoneRight, Undoable
    <3>7. /\ \A g \in File : g > a.pos => a.j.op[g] = "rolled_back"
          /\ \/ \E g \in File : ~Undoable(g)'
             \/ \A g \in File : a.j.op[g] = "rolled_back" => file'[g] # New[g]
      BY <1>4, <2>1, <2>4, <3>1, <3>2, <3>5 DEF Undoable
    <3>8. Underway(a)'
      BY <1>4, <2>1, <3>1, <3>6, <3>7 DEF Underway, Undone, Preparing, InRollback, Journaled
    <3> QED BY <1>2, <3>1, <3>4, <3>8, EditedOneMoves
  <2>5. ASSUME Set(c, marked), act[c].j.op[f] # "rolled_back", Undoable(f),
               file' = file \/ file' = [file EXCEPT ![f] = act[c].j.before[f]],
               file'[f] # New[f]
        PROVE  EditedInv'
    <3>1. PICK a : /\ Set(c, a) /\ a.pc = "persist_rollback" /\ a.pos = f
                   /\ a.j.status = act[c].j.status /\ a.j.before = act[c].j.before
                   /\ a.j.op = [act[c].j.op EXCEPT ![f] = "rolled_back"]
      <4> HIDE DEF marked
      <4> QED BY <2>3, <2>5
    <3>2. act'[c].pc \in InRollback
      BY <3>1 DEF Set, TypeInv, TypeOK, InRollback
    <3>3. \A g \in File : Undoable(g)' = Undoable(g)
      BY <2>1 DEF Undoable
    <3>4. BackedUp(disk)'
      <4> SUFFICES ASSUME NEW g \in File
                   PROVE  \/ backup[g] = disk.before[g]
                          \/ disk.before[g] = Old[g] /\ (Old[g] = "none" \/ file'[g] # Old[g])
        BY <2>1 DEF BackedUp
      <4>1. file'[g] = file[g] \/ g = f
        BY <1>3, <2>1, <2>5
      <4>2. CASE file'[g] = file[g]
        BY <1>5, <4>2 DEF BackedUp
      <4>3. CASE g = f
        BY <1>5, <2>5, <4>3 DEF BackedUp, Undoable
      <4> QED BY <4>1, <4>2, <4>3
    <3>5. BaselineIn(disk)' /\ UndoneRight(disk)' /\ BaselineIn(a.j)'
      BY <1>4, <1>5, <2>1, <3>1, <3>3 DEF BaselineIn, UndoneRight
    <3>6. UndoneRight(a.j)'
      BY <1>3, <1>4, <2>1, <2>5, <3>1, <3>3 DEF UndoneRight
    <3>7. DiskIsSound'
      BY <1>4, <2>1, <3>2, <3>4, <3>5 DEF DiskIsSound
    <3>8. /\ \A g \in File : g > a.pos \/ g = a.pos => a.j.op[g] = "rolled_back"
          /\ \/ \E g \in File : ~Undoable(g)'
             \/ \A g \in File : a.j.op[g] = "rolled_back" => file'[g] # New[g]
      <4>1. \A g \in File : g # f => a.j.op[g] = act[c].j.op[g] /\ file'[g] = file[g]
        BY <1>3, <2>1, <2>5, <3>1
      <4>2. a.j.op[f] = "rolled_back"
        BY <1>3, <2>1, <3>1
      <4> QED BY <1>4, <2>1, <2>5, <3>1, <3>3, <4>1, <4>2
    <3>9. Underway(a)'
      BY <1>4, <2>1, <3>1, <3>5, <3>6, <3>8
      DEF Underway, Undone, Preparing, InRollback, Journaled
    <3> QED BY <1>2, <3>1, <3>7, <3>9, EditedOneMoves
  <2>6. CASE act[c].j.op[f] # "rolled_back" /\ NeedsNoRestore(act[c].j, f)
    <3>1. Set(c, marked) /\ file' = file
      BY <1>9, <2>6 DEF RollbackOp
    <3>2. Undoable(f)
      BY <1>4, <1>5, <2>1, <2>6 DEF NeedsNoRestore, IsBaseline, BackedUp, Undoable
    <3>3. file[f] # New[f]
      BY <2>6 DEF NeedsNoRestore, IsApplied
    <3> HIDE DEF marked
    <3> QED BY <2>5, <2>6, <3>1, <3>2, <3>3
  <2>7. CASE /\ act[c].j.op[f] # "rolled_back" /\ ~NeedsNoRestore(act[c].j, f)
             /\ act[c].j.before[f] = "none" \/ backup[f] = act[c].j.before[f]
    <3>1. Set(c, marked) /\ file' = [file EXCEPT ![f] = act[c].j.before[f]]
      BY <1>9, <2>7 DEF RollbackOp
    <3>2. Undoable(f)
      BY <1>4, <2>7 DEF Undoable
    <3>3. file'[f] # New[f]
      <4>1. file'[f] = act[c].j.before[f]
        BY <1>3, <2>1, <3>1
      <4> QED BY <1>4, <1>6, <2>1, <4>1, Contents DEF BaselineIn
    <3> HIDE DEF marked
    <3> QED BY <2>5, <2>7, <3>1, <3>2, <3>3
  <2>8. CASE /\ act[c].j.op[f] # "rolled_back" /\ ~NeedsNoRestore(act[c].j, f)
             /\ ~(act[c].j.before[f] = "none" \/ backup[f] = act[c].j.before[f])
    <3>1. file' = file
      BY <1>9, <2>8 DEF RollbackOp
    <3>2. PICK a : Set(c, a) /\ a.j = act[c].j /\ a.pc = "failing"
      <4> DEFINE a == [act[c] EXCEPT !.pc = "failing"]
      <4>1. Set(c, a)
        BY <1>9, <2>8 DEF RollbackOp, Goto
      <4>2. a.j = act[c].j /\ a.pc = "failing"
        BY <1>3 DEF ActRec
      <4> HIDE DEF a
      <4> QED BY <4>1, <4>2
    <3>3. \E g \in File : ~Undoable(g)'
      <4>1. PICK g \in File : g = f
        BY <1>6, <2>1
      <4>2. ~Undoable(g)'
        BY <1>4, <2>1, <2>8, <4>1 DEF Undoable
      <4> QED BY <4>2
    <3>4. DiskIsSound'
      BY <1>4, <1>5, <2>1, <3>1, <3>3
      DEF DiskIsSound, BaselineIn, BackedUp, UndoneRight, Undoable, Unbroken
    <3>5. Underway(a)'
      <4>1. BaselineIn(a.j)'
        BY <1>4, <3>2 DEF BaselineIn
      <4> QED BY <3>2, <4>1 DEF Underway, Preparing, Journaled, InApply, InRollback
    <3> QED BY <1>2, <3>2, <3>4, <3>5, EditedOneMoves
  <2> QED BY <2>4, <2>6, <2>7, <2>8
<1> QED BY <1>7, <1>8, <1>9

\* The monitor takes over what a controller left.
LEMMA EditedMonitor ==
  ASSUME Orderly, TypeInv, EditedInv, NEW c \in Controller, MonitorRollback(c)
  PROVE  EditedInv'
<1>1. /\ UNCHANGED <<file, backup, disk, crashes>> /\ act[c].pc = "idle" /\ Alone(c)
      /\ disk.status \notin {"none", "rolled_back"}
  BY DEF MonitorRollback, At, Unsettled, Settled
<1>2. Others(c)
  BY <1>1, EditedAlone
<1>3. DiskIsSound /\ Calm
  BY <1>1, <1>2, EditedFacts DEF InRollback
<1>4. PICK a : Set(c, a) /\ a.pc = "begin_rollback" /\ a.j = disk
  <2> DEFINE a == [Idle EXCEPT !.pc = "begin_rollback", !.j = disk, !.seen = run,
                               !.why = "monitor"]
  <2>1. Set(c, a)
    BY DEF MonitorRollback
  <2>2. a.pc = "begin_rollback" /\ a.j = disk
    BY DEF Idle
  <2> HIDE DEF a
  <2> QED BY <2>1, <2>2
<1>5. BaselineIn(disk) /\ UndoneRight(disk) /\ Unbroken(disk)
  BY <1>1, <1>3 DEF DiskIsSound, Calm
<1>6. Underway(a)
  BY <1>1, <1>4, <1>5 DEF Underway, Preparing, Journaled, InApply, InRollback
<1> QED BY <1>1, <1>2, <1>4, <1>6, EditedQuietly DEF InRollback

\* Nobody moves, and nothing of the delivery either.
LEMMA EditedRests ==
  ASSUME EditedInv, UNCHANGED <<file, backup, disk, act, crashes>> PROVE EditedInv'
<1>1. OneActive'
  BY DEF EditedInv, OneActive, At
<1>2. DiskIsSound'
  BY 
  DEF EditedInv, DiskIsSound, BaselineIn, NoneUndone, BackedUp, UndoneRight, Unbroken,
      Undoable,
         Undone
<1>3. ASSUME NEW c \in Controller, ~At(c, "idle")' PROVE Underway(act[c])'
  <2>1. Underway(act[c])
    BY <1>3 DEF EditedInv, At
  <2> QED BY <2>1
    DEF Underway, BaselineIn, NoneUndone, BackedUp, UndoneRight, Unbroken, Undoable, Undone
<1> QED BY <1>1, <1>2, <1>3 DEF EditedInv

\* The end of an execution, and what may end it at any time.
LEMMA EditedEnd ==
  ASSUME Orderly, TypeInv, EditedInv, NEW c \in Controller,
         \/ Record(c) \/ NoteRolledBack(c) \/ MonitorSaves(c) \/ Fail(c) \/ Finish(c)
         \/ Heartbeat(c) \/ Stop(c)
  PROVE  EditedInv'
<1>1. ~At(c, "idle") /\ act[c].pc \notin InRollback \cup {"persist_op"}
      /\ UNCHANGED <<file, backup, disk, crashes>>
  BY DEF Record, NoteRolledBack, MonitorSaves, Fail, Finish, Heartbeat, Stop, Beating, At,
     InRollback
<1>2. Others(c) /\ act[c] \in ActRec
  BY <1>1, EditedAlone, ActTyped
<1>3. BaselineIn(act[c].j)
  BY <1>1 DEF EditedInv, Underway
<1>4. CASE UNCHANGED act
  BY <1>1, <1>4, EditedRests
<1>5. CASE Set(c, Idle)
  <2>1. Idle.pc = "idle"
    BY DEF Idle
  <2> QED BY <1>1, <1>2, <1>5, <2>1, EditedQuietly
<1>6. ASSUME NEW a, Set(c, a), a.j = act[c].j, a.pc \in Aside PROVE EditedInv'
  <2>1. Underway(a)
    BY <1>3, <1>6, AsideStep
  <2> QED BY <1>1, <1>2, <1>6, <2>1, EditedQuietly
<1>7. ASSUME NEW pc \in Aside, Goto(c, pc) PROVE EditedInv'
  <2> DEFINE a == [act[c] EXCEPT !.pc = pc]
  <2>1. Set(c, a) /\ a.j = act[c].j /\ a.pc = pc
    BY <1>2, <1>7 DEF Goto, ActRec
  <2> HIDE DEF a
  <2> QED BY <1>6, <2>1
<1>8. CASE NoteRolledBack(c)
  <2> DEFINE a == [act[c] EXCEPT !.pc = "failing", !.lease = run.lease]
             b == [act[c] EXCEPT !.pc = "failing",
                     !.why = IF "failing" = "begin_rollback" THEN "fenced" ELSE @]
  <2>1. Set(c, a) \/ Set(c, b)
    BY <1>8 DEF NoteRolledBack, Note
  <2>2. a.j = act[c].j /\ a.pc = "failing" /\ b.j = act[c].j /\ b.pc = "failing"
    BY <1>2 DEF ActRec
  <2> HIDE DEF a, b
  <2>3. "failing" \in Aside
    BY DEF Aside
  <2> QED BY <1>6, <2>1, <2>2, <2>3
<1>9. ASSUME ~NoteRolledBack(c)
      PROVE  UNCHANGED act \/ Set(c, Idle) \/ \E pc \in {"finishing", "failing"} : Goto(c, pc)
  BY <1>9 DEF Record, MonitorSaves, Fail, Finish, Heartbeat, Stop
<1> QED BY <1>4, <1>5, <1>7, <1>8, <1>9 DEF Aside

\* A crash leaves a journal that no rollback has touched, or was the last one.
LEMMA EditedCrash ==
  ASSUME Orderly, TypeInv, EditedInv, NEW c \in Controller, Crash(c)
  PROVE  EditedInv'
<1>1. /\ ~At(c, "idle") /\ Set(c, Idle) /\ UNCHANGED <<file, backup, disk>>
      /\ crashes < MaxCrashes /\ (act[c].pc \in InRollback => crashes' = MaxCrashes)
  BY DEF Crash, Orderly, InRollback
<1>2. Others(c) /\ DiskIsSound /\ Underway(act[c]) /\ {crashes, MaxCrashes} \subseteq Nat
  BY <1>1, EditedAlone DEF EditedInv, TypeInv, TypeOK, Orderly, Setting, Assumptions
<1>3. \A f \in File : Undoable(f)' = Undoable(f)
  BY <1>1 DEF Undoable
<1>4. disk.status # "rolled_back" => Unbroken(disk)'
  <2>1. CASE act[c].pc \in InRollback
    <3>1. /\ crashes' = MaxCrashes
          /\ \A f \in File : disk.op[f] = "rolled_back" => act[c].j.op[f] = "rolled_back"
          /\ (\E f \in File : ~Undoable(f)) \/ Undone(act[c].j)
      BY <1>1, <1>2, <2>1 DEF Underway
    <3>2. (\E f \in File : ~Undoable(f)') \/ Undone(disk)'
      BY <1>1, <1>3, <3>1 DEF Undone
    <3> QED BY <3>1, <3>2 DEF Unbroken
  <2>2. CASE act[c].pc \notin InRollback
    <3>1. disk.status # "rolled_back" => NoneUndone(disk) \/ \E f \in File : ~Undoable(f)
      BY <1>1, <1>2, <2>2, EditedFacts DEF DiskIsSound, Unbroken
    <3> QED BY <1>1, <1>3, <3>1 DEF Unbroken, NoneUndone
  <2> QED BY <2>1, <2>2
<1>5. DiskIsSound'
  BY <1>1, <1>2, <1>3, <1>4 DEF DiskIsSound, BaselineIn, NoneUndone, BackedUp, UndoneRight
<1> QED BY <1>1, <1>2, <1>5, EditedOneMoves DEF Idle

\* A user edits. What he writes is neither what was there nor what the agent wrote.
LEMMA EditedByUser ==
  ASSUME Orderly, TypeInv, EditedInv, NEW f \in File, UserEdits(f) PROVE EditedInv'
<1>1. /\ file' = [file EXCEPT ![f] = "edited"] /\ file[f] # "edited"
      /\ UNCHANGED <<backup, disk, act, crashes>>
  BY DEF UserEdits
<1>2. file \in [File -> Content]
  BY DEF TypeInv, TypeOK
<1>3. \A g \in File : \/ g = f /\ file'[g] = "edited" /\ Old[g] # "edited" /\ New[g] # "edited"
                      \/ file'[g] = file[g]
  BY <1>1, <1>2, Contents DEF Orderly
<1>4. OneActive' /\ \A g \in File : Undoable(g)' = Undoable(g)
  BY <1>1 DEF EditedInv, OneActive, At, Undoable
<1>5. BackedUp(disk) => BackedUp(disk)'
  BY <1>1, <1>3 DEF BackedUp
<1>6. /\ Undone(disk) => Undone(disk)'
      /\ \A c \in Controller : Undone(act[c].j) => Undone(act[c].j)'
  BY <1>1, <1>3 DEF Undone
<1>7. DiskIsSound'
  <2>1. Unbroken(disk) => Unbroken(disk)'
    BY <1>1, <1>4, <1>6 DEF Unbroken, NoneUndone
  <2> QED BY <1>1, <1>3, <1>4, <1>5, <2>1
      DEF EditedInv, DiskIsSound, BaselineIn, NoneUndone, UndoneRight
<1>8. ASSUME NEW c \in Controller, ~At(c, "idle")' PROVE Underway(act[c])'
  <2>1. Underway(act[c]) /\ act'[c] = act[c]
    BY <1>1, <1>8 DEF EditedInv, At
  <2>2. BackedUp(act[c].j) => BackedUp(act[c].j)'
    BY <1>1, <1>3 DEF BackedUp
  <2>3. act[c].pc = "backup" =>
          \A g \in File : \/ act[c].j.before[g] = file'[g]
                          \/ act[c].j.before[g] = Old[g] /\ file'[g] = "edited"
    BY <1>1, <1>3, <2>1 DEF Underway, BaselineIn
  <2>4. act[c].pc \in InRollback =>
          (\E g \in File : ~Undoable(g)') \/ Undone(act[c].j)'
    BY <1>4, <1>6, <2>1 DEF Underway
  <2>5. /\ BaselineIn(act[c].j) => BaselineIn(act[c].j)'
        /\ UndoneRight(act[c].j) => UndoneRight(act[c].j)'
        /\ Unbroken(act[c].j) => Unbroken(act[c].j)'
        /\ NoneUndone(act[c].j) => NoneUndone(act[c].j)'
    BY <1>1, <1>4, <1>6 DEF BaselineIn, UndoneRight, Unbroken, NoneUndone
  <2> QED BY <1>1, <2>1, <2>2, <2>3, <2>4, <2>5 DEF Underway
<1> QED BY <1>4, <1>7, <1>8 DEF EditedInv

\* Time passes for the leases only.
LEMMA EditedByTime ==
  ASSUME Setting, TypeInv, EditedInv, Tick PROVE EditedInv'
<1>1. UNCHANGED <<file, backup, disk, crashes>>
      /\ act' = [c \in Controller |-> [act[c] EXCEPT !.lease = Aged(@)]]
  BY DEF Tick
<1>2. ASSUME NEW c \in Controller
      PROVE  act'[c].pc = act[c].pc /\ act'[c].j = act[c].j /\ act'[c].pos = act[c].pos
  BY <1>1, ActTyped DEF ActRec
<1>3. OneActive'
  BY <1>2 DEF EditedInv, OneActive, At
<1>4. DiskIsSound'
  BY <1>1, <1>2
  DEF EditedInv, DiskIsSound, BaselineIn, NoneUndone, BackedUp, UndoneRight, Unbroken, Undoable,
      Undone
<1>5. ASSUME NEW c \in Controller, ~At(c, "idle")' PROVE Underway(act[c])'
  <2>1. Underway(act[c])
    BY <1>2, <1>5 DEF EditedInv, At
  <2> QED BY <1>1, <1>2, <2>1
    DEF Underway, BaselineIn, NoneUndone, BackedUp, UndoneRight, Unbroken, Undoable, Undone
<1> QED BY <1>3, <1>4, <1>5 DEF EditedInv

\* Every step of the program and of its environment.
LEMMA EditedStep ==
  ASSUME Orderly, TypeInv, EditedInv, [Next]_vars PROVE EditedInv'
<1>1. CASE UNCHANGED vars
  BY <1>1, EditedRests DEF vars
<1>2. CASE Interrupt \/ \E c \in Controller : MonitorRepairs(c)
  BY <1>2, EditedRests DEF Interrupt, MonitorRepairs
<1>3. CASE \E c \in Controller : Start(c) \/ Work(c)
  BY <1>3, EditedStart, EditedPreparation, EditedApplication, EditedRollback, EditedEnd DEF Work
<1>4. CASE \E c \in Controller : Heartbeat(c) \/ Stop(c) \/ Crash(c) \/ MonitorRollback(c)
  BY <1>4, EditedEnd, EditedCrash, EditedMonitor
<1>5. CASE Tick \/ \E f \in File : UserEdits(f)
  BY <1>5, EditedByTime, EditedByUser DEF Orderly
<1> QED BY <1>1, <1>2, <1>3, <1>4, <1>5 DEF Next

\* And the beginning.
LEMMA EditedInit == ASSUME Orderly, Init PROVE EditedInv
<1>1. disk = NoJournal /\ file = Old /\ \A c \in Controller : act[c] = Idle
  BY DEF Init
<1> QED BY <1>1 DEF EditedInv, OneActive, DiskIsSound, BaselineIn, NoneUndone, NoJournal, At, Idle,
                    Unbroken

LEMMA CleanStays == ASSUME Orderly PROVE Spec => [](TypeInv /\ EditedInv)
<1>1. Init => TypeInv /\ EditedInv
  BY InitTyped, EditedInit DEF Orderly
<1>2. TypeInv /\ EditedInv /\ [Next]_vars => (TypeInv /\ EditedInv)'
  BY StepTyped, EditedStep DEF Orderly
<1> QED BY <1>1, <1>2, PTL DEF Spec

\* Where one controller at a time delivers, a delivery that was rolled back left
\* none of the agent's content in the project: however many files there are,
\* wherever it crashed before, the last time in the rollback itself, lost its lease
\* or was stopped, and whatever users did to the files before, during and after it.
THEOREM RolledBackLeavesNothing == ASSUME Orderly PROVE Spec => []RolledBackIsClean
<1>1. EditedInv => RolledBackIsClean
  BY DEF EditedInv, DiskIsSound, RolledBackIsClean
<1> QED BY <1>1, CleanStays, PTL

\* With heartbeats in time, what is said of a delivery is true of the project: of a
\* run reported done, unless somebody edited, and of one that was rolled back in any
\* case.
THEOREM JournalStaysTrue == ASSUME Sheltered PROVE Spec => []JournalIsTrue
<1>1. Orderly
  BY DEF Sheltered, Orderly
<1>2. (edits = 0 => DoneIsDelivered) /\ RolledBackIsClean => JournalIsTrue
  BY DEF JournalIsTrue
<1> QED BY <1>1, <1>2, DoneMeansDelivered, RolledBackLeavesNothing, PTL
=============================================================================
