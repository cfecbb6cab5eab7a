---------------------------- MODULE StoresProofs -----------------------------
(***************************************************************************)
(* What the stores of a run rest on: the lock file, proved for any number  *)
(* of processes and updates, the migrations, for any number of             *)
(* controllers, failures and crashes, the tables, for any number of runs   *)
(* and projects, and what a run takes from the assets, for any files.      *)
(*                                                                         *)
(* That one process at a time has the lock needs that no holder is slow,   *)
(* and holds until two waiters have found the same lock stale: a waiter    *)
(* looks first and unlinks by the path afterwards.                         *)
(* That a database is safe needs nothing; that the table of locks names    *)
(* who has one needs that one run of a project at a time is given it.      *)
(***************************************************************************)
EXTENDS StoreLock, Migrations, SqliteStore, Assets, FiniteSetTheorems, SequenceTheorems, TLAPS

-----------------------------------------------------------------------------
(* The lock file.                                                          *)

Inside == {"created", "loading", "saving", "leaving"}

\* Who has the lock, and what is known when somebody is about to reclaim it.
LockInv ==
  /\ \A p, q \in Process : pc[p] \in Inside /\ pc[q] \in Inside => p = q
  /\ \A p \in Process : pc[p] \in Inside =>
       /\ lock.there /\ ~lock.old /\ lock.by = p
       /\ lock.pid = IF pc[p] = "created" THEN NoProcess ELSE p
  /\ \A p \in Process : pc[p] = "reclaiming" =>
       /\ lock.there
       /\ \A q \in Process : pc[q] \notin Inside /\ (pc[q] = "reclaiming" => q = p)

Update == Process \X (1..MaxUpdates)

\* Whoever has the lock has an update to make.
CountInv == FileTypeOK /\ \A p \in Process : pc[p] \in Inside => NextUpdate(p) \in Update

\* Whoever saves has loaded what is in the file.
StoreInv ==
  /\ done \subseteq store
  /\ \A p \in Process :
       /\ pc[p] = "saving" => seen[p] = store
       /\ pc[p] = "leaving" => NextUpdate(p) \in store

FileInv == CountInv /\ (~together => LockInv /\ StoreInv)

\* The update that is next has a number, and the first is the first.
LEMMA NextIsNumbered ==
  ASSUME FileAssumptions, FileTypeOK, NEW p \in Process
  PROVE  \E n \in Nat \ {0} : NextUpdate(p) = <<p, n>>
<1> DEFINE S == {u \in done : u[1] = p}
<1>1. S \subseteq {p} \X (1..MaxUpdates)
  BY DEF FileTypeOK
<1>2. IsFiniteSet({p} \X (1..MaxUpdates))
  <2>1. IsFiniteSet({p})
    BY FS_Singleton
  <2>2. MaxUpdates \in Int /\ 1 \in Int
    BY DEF FileAssumptions
  <2>3. IsFiniteSet(1..MaxUpdates)
    BY <2>2, FS_Interval
  <2> QED BY <2>1, <2>3, FS_Product
<1>3. Cardinality(S) \in Nat
  BY <1>1, <1>2, FS_Subset, FS_CardinalityType
<1>4. NextUpdate(p) = <<p, Cardinality(S) + 1>>
  BY Zenon DEF NextUpdate
<1>5. Cardinality(S) + 1 \in Nat \ {0}
  BY <1>3
<1> HIDE DEF S
<1> QED BY <1>4, <1>5

LEMMA InvInit == ASSUME FileAssumptions, FileInit PROVE FileInv
<1>1. lock = NoLock /\ ~lock.there /\ store = {} /\ done = {}
      /\ \A p \in Process : pc[p] = "idle" /\ seen[p] = {}
  BY DEF FileInit, NoLock
<1>2. LockInv /\ StoreInv
  BY <1>1 DEF LockInv, StoreInv, Inside
<1>3. CountInv
  <2>1. together \in BOOLEAN
    BY DEF FileInit
  <2>2. lock \in [there : BOOLEAN, by : Process \cup {NoProcess},
                 pid : Process \cup {NoProcess}, old : BOOLEAN]
    BY <1>1 DEF NoLock
  <2>3. FileTypeOK
    BY <1>1, <2>1, <2>2 DEF FileInit, FileTypeOK
  <2> QED BY <1>1, <2>3 DEF CountInv, Inside
<1> QED BY <1>2, <1>3 DEF FileInv

LEMMA LockStep ==
  ASSUME FileAssumptions, ~Slow, FileTypeOK, LockInv, ~together', [FileNext]_fileVars
  PROVE  LockInv'
<1> USE DEF Inside
<1>0. pc \in [Process -> {"idle", "created", "loading", "saving", "leaving",
                         "reclaiming", "dead"}]
      /\ NoProcess \notin Process
      /\ lock \in [there : BOOLEAN, by : Process \cup {NoProcess},
                  pid : Process \cup {NoProcess}, old : BOOLEAN]
  BY DEF FileTypeOK, FileAssumptions
<1>1. ASSUME NEW p \in Process, Create(p) PROVE LockInv'
  <2>1. /\ lock'.there /\ lock'.by = p /\ lock'.pid = NoProcess /\ ~lock'.old /\ ~lock.there
        /\ pc[p] = "idle" /\ pc'[p] = "created"
        /\ \A q \in Process : q # p => pc'[q] = pc[q]
    BY <1>0, <1>1 DEF Create, StepTo, NoLock
  <2> QED BY <2>1 DEF LockInv
<1>2. ASSUME NEW p \in Process, WritePid(p) PROVE LockInv'
  <2>1. /\ pc[p] = "created" /\ pc'[p] = "loading"
        /\ \A q \in Process : q # p => pc'[q] = pc[q]
        /\ lock.there /\ lock.by = p /\ lock.pid = NoProcess /\ ~lock.old
    BY <1>0, <1>2 DEF WritePid, StepTo, LockInv
  <2>2. lock'.there /\ lock'.by = p /\ lock'.pid = p /\ ~lock'.old
    BY <1>0, <1>2, <2>1 DEF WritePid
  <2> QED BY <2>1, <2>2 DEF LockInv
<1>3. ASSUME NEW p \in Process, FindStale(p) PROVE LockInv'
  <2>1. /\ pc[p] = "idle" /\ pc'[p] = "reclaiming" /\ lock' = lock
        /\ \A q \in Process : q # p => pc'[q] = pc[q]
        /\ lock.there /\ Reclaimable
    BY <1>0, <1>3 DEF FindStale, StepTo
  <2>2. \A q \in Process : pc[q] \notin Inside
    BY <1>0, <2>1 DEF Reclaimable, Alive, LockInv
  <2>3. \A q \in Process : pc[q] # "reclaiming"
    BY <1>3 DEF FindStale
  <2> QED BY <2>1, <2>2, <2>3 DEF LockInv
<1>4. ASSUME NEW p \in Process, Reclaim(p) PROVE LockInv'
  <2>1. /\ pc[p] = "reclaiming" /\ pc'[p] = "idle" /\ ~lock'.there
        /\ \A q \in Process : q # p => pc'[q] = pc[q]
    BY <1>0, <1>4 DEF Reclaim, StepTo, NoLock
  <2> QED BY <2>1 DEF LockInv
<1>5. ASSUME NEW p \in Process, Load(p) \/ Save(p) PROVE LockInv'
  <2>1. /\ pc[p] \in {"loading", "saving"} /\ pc'[p] \in {"saving", "leaving"}
        /\ lock' = lock /\ \A q \in Process : q # p => pc'[q] = pc[q]
    BY <1>0, <1>5 DEF Load, Save, StepTo
  <2> QED BY <2>1 DEF LockInv
<1>6. ASSUME NEW p \in Process, Leave(p) PROVE LockInv'
  <2>1. /\ pc[p] = "leaving" /\ pc'[p] = "idle" /\ ~lock'.there
        /\ \A q \in Process : q # p => pc'[q] = pc[q]
    BY <1>0, <1>6 DEF Leave, StepTo, NoLock
  <2> QED BY <2>1 DEF LockInv
<1>7. CASE Age
  <2>1. /\ pc' = pc /\ lock.there /\ lock'.there
        /\ \A p \in Process : pc[p] \notin Inside
    BY <1>0, <1>7 DEF Age, Critical
  <2>2. lock'.by = lock.by /\ lock'.pid = lock.pid
    BY <1>0, <1>7 DEF Age
  <2> QED BY <2>1, <2>2 DEF LockInv
<1>8. ASSUME NEW p \in Process, Die(p) PROVE LockInv'
  <2>1. /\ p \in Crasher /\ pc'[p] = "dead" /\ lock' = lock
        /\ \A q \in Process : q # p => pc'[q] = pc[q]
    BY <1>0, <1>8 DEF Die, StepTo
  <2> QED BY <2>1 DEF LockInv
<1>9. CASE UNCHANGED fileVars
  BY <1>9 DEF fileVars, LockInv
<1> QED BY <1>1, <1>2, <1>3, <1>4, <1>5, <1>6, <1>7, <1>8, <1>9 DEF FileNext, FileMoves

LEMMA CountStep ==
  ASSUME FileAssumptions, CountInv, [FileNext]_fileVars PROVE CountInv'
<1> DEFINE LockFile == [there : BOOLEAN, by : Process \cup {NoProcess},
                        pid : Process \cup {NoProcess}, old : BOOLEAN]
<1> DEFINE Places == {"idle", "created", "loading", "saving", "leaving", "reclaiming", "dead"}
<1>0. /\ FileTypeOK /\ pc \in [Process -> Places]
      /\ lock \in LockFile /\ together \in BOOLEAN
      /\ (~lock.there => lock = NoLock)
      /\ store \in SUBSET Update /\ done \in SUBSET Update
      /\ seen \in [Process -> SUBSET Update]
  BY DEF CountInv, FileTypeOK, Update
<1>1. ASSUME NEW p \in Process, NEW l \in Places, StepTo(p, l),
             lock' \in LockFile, together' \in BOOLEAN,
             ~lock'.there => lock' = NoLock,
             store' \in SUBSET Update, seen' \in [Process -> SUBSET Update],
             done' = done, l \in Inside => NextUpdate(p) \in Update
      PROVE  CountInv'
  <2>1. pc' \in [Process -> Places] /\ \A q \in Process : pc'[q] = IF q = p THEN l ELSE pc[q]
    BY <1>0, <1>1 DEF StepTo
  <2>2. FileTypeOK'
    BY <1>0, <1>1, <2>1 DEF FileTypeOK, NoLock, Update
  <2>3. \A q \in Process : NextUpdate(q)' = NextUpdate(q)
    BY <1>1 DEF NextUpdate
  <2> QED BY <1>1, <2>1, <2>2, <2>3 DEF CountInv
<1>2. ASSUME NEW p \in Process, Create(p) PROVE CountInv'
  <2>1. /\ StepTo(p, "created") /\ UNCHANGED <<store, seen, done, together>>
        /\ NextUpdate(p)[2] <= MaxUpdates
        /\ lock' = [NoLock EXCEPT !.there = TRUE, !.by = p]
    BY <1>2 DEF Create
  <2>2. PICK n \in Nat \ {0} : NextUpdate(p) = <<p, n>>
    BY <1>0, NextIsNumbered
  <2>3. NextUpdate(p) \in Update
    BY <2>1, <2>2 DEF Update, FileAssumptions
  <2> QED BY <1>0, <1>1, <2>1, <2>3 DEF NoLock
<1>3. ASSUME NEW p \in Process, WritePid(p) PROVE CountInv'
  <2>1. NextUpdate(p) \in Update
    BY <1>3 DEF WritePid, CountInv, Inside
  <2>2. StepTo(p, "loading") /\ UNCHANGED <<store, seen, done, together>>
    BY <1>3 DEF WritePid
  <2>3. \/ lock' = lock
        \/ lock.by = p /\ lock' = [lock EXCEPT !.pid = p]
    BY <1>3 DEF WritePid
  <2>4. lock.by = p => lock.there
    BY <1>0 DEF NoLock, FileAssumptions
  <2> QED BY <1>0, <1>1, <2>1, <2>2, <2>3, <2>4
<1>4. ASSUME NEW p \in Process, FindStale(p) \/ Die(p) PROVE CountInv'
  BY <1>0, <1>1, <1>4 DEF FindStale, Die, Inside
<1>5. ASSUME NEW p \in Process, Reclaim(p) PROVE CountInv'
  BY <1>0, <1>1, <1>5 DEF Reclaim, Inside, NoLock
<1>6. ASSUME NEW p \in Process, Load(p) PROVE CountInv'
  BY <1>0, <1>1, <1>6 DEF Load, Inside, CountInv
<1>7. ASSUME NEW p \in Process, Save(p) PROVE CountInv'
  <2>1. NextUpdate(p) \in Update
    BY <1>7 DEF Save, CountInv, Inside
  <2>2. store' \in SUBSET Update
    BY <1>0, <1>7, <2>1 DEF Save
  <2>3. StepTo(p, "leaving") /\ UNCHANGED <<lock, seen, done, together>>
    BY <1>7 DEF Save
  <2> QED BY <1>0, <1>1, <2>1, <2>2, <2>3
<1>8. ASSUME NEW p \in Process, Leave(p) PROVE CountInv'
  <2>1. /\ pc[p] = "leaving" /\ pc' = [pc EXCEPT ![p] = "idle"] /\ lock' = NoLock
        /\ UNCHANGED <<store, seen, together>> /\ done' = done \cup {NextUpdate(p)}
    BY <1>8 DEF Leave, StepTo
  <2>2. NextUpdate(p) \in Update
    BY <2>1 DEF CountInv, Inside
  <2>3. FileTypeOK'
    BY <1>0, <2>1, <2>2 DEF FileTypeOK, NoLock, Update
  <2>4. ASSUME NEW q \in Process, pc'[q] \in Inside PROVE NextUpdate(q)' \in Update
    <3>1. q # p /\ pc[q] \in Inside
      BY <1>0, <2>1, <2>4 DEF Inside
    <3>2. NextUpdate(p)[1] = p
      BY DEF NextUpdate
    <3>3. {u \in done' : u[1] = q} = {u \in done : u[1] = q}
      BY <2>1, <3>1, <3>2
    <3>4. NextUpdate(q)' = NextUpdate(q)
      BY <3>3, Zenon DEF NextUpdate
    <3> QED BY <3>1, <3>4 DEF CountInv
  <2> QED BY <2>3, <2>4 DEF CountInv
<1>9. CASE Age \/ UNCHANGED fileVars
  <2>1. /\ UNCHANGED <<store, pc, seen, done, together>>
        /\ \/ lock' = lock
           \/ lock.there /\ lock' = [lock EXCEPT !.old = TRUE]
    <3>1. CASE Age
      BY <3>1 DEF Age
    <3>2. CASE UNCHANGED fileVars
      BY <3>2 DEF fileVars
    <3> QED BY <1>9, <3>1, <3>2
  <2>2. FileTypeOK'
    BY <1>0, <2>1 DEF FileTypeOK, NoLock, Update
  <2> QED BY <2>1, <2>2 DEF CountInv, NextUpdate
<1> QED BY <1>2, <1>3, <1>4, <1>5, <1>6, <1>7, <1>8, <1>9 DEF FileNext, FileMoves

LEMMA StoreStep ==
  ASSUME CountInv, LockInv, StoreInv, [FileNext]_fileVars PROVE StoreInv'
<1>0. /\ FileTypeOK /\ CountInv /\ LockInv /\ StoreInv
      /\ pc \in [Process -> {"idle", "created", "loading", "saving", "leaving",
                             "reclaiming", "dead"}]
      /\ seen \in [Process -> SUBSET Update]
  BY DEF CountInv, FileTypeOK, Update
<1> USE DEF Inside
<1>1. ASSUME NEW p \in Process, NEW l, StepTo(p, l)
      PROVE  pc'[p] = l /\ \A q \in Process : q # p => pc'[q] = pc[q]
  BY <1>0, <1>1 DEF StepTo
<1>2. ASSUME UNCHANGED <<store, seen, done>>, NEW p \in Process,
             NEW l \in {"created", "loading", "idle", "reclaiming", "dead"}, StepTo(p, l)
      PROVE  StoreInv'
  BY <1>0, <1>1, <1>2 DEF StoreInv, NextUpdate
<1>3. ASSUME NEW p \in Process, Load(p) PROVE StoreInv'
  <2>1. /\ StepTo(p, "saving") /\ UNCHANGED <<store, done>>
        /\ seen' = [seen EXCEPT ![p] = store]
    BY <1>3 DEF Load
  <2> QED BY <1>0, <1>1, <2>1 DEF StoreInv, NextUpdate
<1>4. ASSUME NEW p \in Process, Save(p) PROVE StoreInv'
  <2>1. /\ StepTo(p, "leaving") /\ pc[p] = "saving" /\ UNCHANGED <<seen, done>>
        /\ store' = seen[p] \cup {NextUpdate(p)}
    BY <1>4 DEF Save
  <2>2. store' = store \cup {NextUpdate(p)} /\ NextUpdate(p)' = NextUpdate(p)
    BY <1>0, <2>1 DEF StoreInv, NextUpdate
  <2>3. \A q \in Process : q # p => pc'[q] \notin Inside
    BY <1>0, <1>1, <2>1 DEF LockInv
  <2> QED BY <1>0, <1>1, <2>1, <2>2, <2>3 DEF StoreInv
<1>5. ASSUME NEW p \in Process, Leave(p) PROVE StoreInv'
  <2>1. /\ StepTo(p, "idle") /\ pc[p] = "leaving" /\ UNCHANGED <<store, seen>>
        /\ done' = done \cup {NextUpdate(p)}
    BY <1>5 DEF Leave
  <2>2. done' \subseteq store'
    BY <1>0, <2>1 DEF StoreInv
  <2>3. \A q \in Process : pc'[q] \notin Inside
    BY <1>0, <1>1, <2>1 DEF LockInv
  <2> QED BY <2>2, <2>3 DEF StoreInv
<1>6. CASE Age \/ UNCHANGED fileVars
  BY <1>0, <1>6 DEF Age, fileVars, StoreInv, NextUpdate
<1>7. ASSUME NEW p \in Process,
             Create(p) \/ WritePid(p) \/ FindStale(p) \/ Reclaim(p) \/ Die(p)
      PROVE  StoreInv'
  <2>1. /\ UNCHANGED <<store, seen, done>>
        /\ \E l \in {"created", "loading", "idle", "reclaiming", "dead"} : StepTo(p, l)
    BY <1>7 DEF Create, WritePid, FindStale, Reclaim, Die
  <2> QED BY <1>2, <2>1
<1> QED BY <1>3, <1>4, <1>5, <1>6, <1>7 DEF FileNext, FileMoves

\* Who were together once have been for ever.
LEMMA TogetherStays ==
  ASSUME [FileNext]_fileVars, ~together' PROVE ~together
<1>1. ASSUME NEW p \in Process, FindStale(p) PROVE ~together
  BY <1>1 DEF FindStale
<1>2. CASE UNCHANGED together
  BY <1>2
<1>3. ASSUME NEW p \in Process,
             \/ Create(p) \/ WritePid(p) \/ Reclaim(p) \/ Load(p) \/ Save(p)
             \/ Leave(p) \/ Die(p)
      PROVE  UNCHANGED together
  BY <1>3 DEF Create, WritePid, Reclaim, Load, Save, Leave, Die
<1>4. Age \/ UNCHANGED fileVars => UNCHANGED together
  BY DEF Age, fileVars
<1> QED BY <1>1, <1>2, <1>3, <1>4 DEF FileNext, FileMoves

LEMMA InvAlways == ASSUME FileAssumptions, ~Slow PROVE FileSpec => []FileInv
<1>1. FileInit => FileInv
  BY InvInit
<1>2. FileInv /\ [FileNext]_fileVars => FileInv'
  <2>1. SUFFICES ASSUME FileInv, [FileNext]_fileVars PROVE FileInv'
    OBVIOUS
  <2>2. CountInv' /\ FileTypeOK /\ together \in BOOLEAN
    BY <2>1, CountStep DEF FileInv, CountInv, FileTypeOK
  <2>3. ASSUME ~together' PROVE LockInv' /\ StoreInv'
    <3>1. LockInv /\ StoreInv
      BY <2>1, <2>2, <2>3, TogetherStays DEF FileInv
    <3> QED BY <2>1, <2>2, <2>3, <3>1, LockStep, StoreStep DEF FileInv
  <2> QED BY <2>2, <2>3 DEF FileInv
<1> QED BY <1>1, <1>2, PTL DEF FileSpec

\* The processes between load and save are one at the most.
LEMMA OneInvInside == ASSUME LockInv PROVE OneInside
<1> DEFINE S == {p \in Process : pc[p] \in Critical}
<1>1. \A p, q \in S : p = q
  BY DEF LockInv, Inside, Critical
<1>2. CASE S = {}
  BY <1>2, FS_EmptySet DEF OneInside
<1>3. CASE S # {}
  <2>1. PICK p : S = {p}
    BY <1>1, <1>3
  <2>2. Cardinality({p}) = 1
    BY FS_Singleton
  <2> QED BY <2>1, <2>2 DEF OneInside
<1> QED BY <1>2, <1>3

\* Every variable keeps its type, however many of the processes wait or die.
THEOREM FileTypeCorrect == ASSUME FileAssumptions PROVE FileSpec => []FileTypeOK
<1>1. FileInit => CountInv
  BY InvInit DEF FileInv
<1>2. CountInv /\ [FileNext]_fileVars => CountInv'
  BY CountStep
<1>3. CountInv => FileTypeOK
  BY DEF CountInv
<1> QED BY <1>1, <1>2, <1>3, PTL DEF FileSpec

\* One process at a time is between the load and the save of the file, and an
\* update that returned is in it, for every number of processes and whichever of
\* them die, until two waiters have found the same lock stale.
THEOREM UpdatesStay ==
  ASSUME FileAssumptions, ~Slow PROVE FileSpec => []FileIsSafe
<1>1. FileInv => FileIsSafe
  BY OneInvInside DEF FileInv, StoreInv, FileIsSafe, NothingIsLost
<1> QED BY <1>1, InvAlways, PTL

-----------------------------------------------------------------------------
(* The migrations.                                                         *)

\* The newest version of a set of them is one of them, and the others are older.
LEMMA VersionIsNewest ==
  ASSUME NEW S \in SUBSET (1..5)
  PROVE  /\ Version(S) \in S \cup {0} /\ \A v \in S : v <= Version(S)
         /\ Version(S) \in 0..5
<1> DEFINE T == S \cup {0}
<1>1. \E x \in T : \A y \in T : x >= y
  <2>1. CASE 5 \in S
    BY <2>1
  <2>2. CASE 5 \notin S /\ 4 \in S
    BY <2>2
  <2>3. CASE 5 \notin S /\ 4 \notin S /\ 3 \in S
    BY <2>3
  <2>4. CASE S \subseteq {1, 2} /\ 2 \in S
    BY <2>4
  <2>5. CASE S \subseteq {1}
    BY <2>5
  <2> QED BY <2>1, <2>2, <2>3, <2>4, <2>5
<1>2. Version(S) = CHOOSE x \in T : \A y \in T : x >= y
  BY DEF Version, Max
<1>3. Version(S) \in T /\ \A y \in T : Version(S) >= y
  BY <1>1, <1>2
<1>4. T \subseteq 0..5
  OBVIOUS
<1> QED BY <1>3, <1>4

\* The oldest of the versions that are missing is one of them.
LEMMA OldestIsMissing ==
  ASSUME NEW S \in SUBSET (1..4), S # {} PROVE Min(S) \in S
<1>1. \E x \in S : \A y \in S : x =< y
  <2>1. CASE 1 \in S
    BY <2>1
  <2>2. CASE 1 \notin S /\ 2 \in S
    BY <2>2
  <2>3. CASE 1 \notin S /\ 2 \notin S /\ 3 \in S
    BY <2>3
  <2>4. CASE 1 \notin S /\ 2 \notin S /\ 3 \notin S
    <3>1. \A y \in S : y = 4
      BY <2>4
    <3>2. PICK x \in S : TRUE
      OBVIOUS
    <3> QED BY <3>1, <3>2
  <2> QED BY <2>1, <2>2, <2>3, <2>4
<1> QED BY <1>1 DEF Min

\* What the fourth version needs is all there is.
LEMMA AllIsMade ==
  ASSUME SchemaAssumptions, AppliedIsMade, 1..4 \subseteq applied PROVE Part \subseteq schema
<1>1. Made(1) \subseteq schema /\ Made(3) \subseteq schema /\ Made(4) \subseteq schema
  BY DEF AppliedIsMade, SchemaAssumptions
<1> QED BY <1>1 DEF Made, Part

-----------------------------------------------------------------------------
\* Data there was, there is, and who goes on to migrate has seen to its backup.
BackupInv ==
  /\ first.data => data
  /\ \A p \in Controller :
       opening[p] = "migrating" /\ todo[p] # {} /\ first.data =>
         Version(first.applied) \in backups

\* One at a time, the one at work has to do what is missing, and no newer
\* release has been there.
AloneInv ==
  first.alone => \A p \in Controller : AtWork(p) =>
    /\ todo[p] = Missing(applied) /\ applied \subseteq 1..Latest
    /\ opening[p] = "first" => ~data
    /\ \A q \in Controller : AtWork(q) => q = p

SchemaInv == SchemaTypeOK /\ SchemaIsSafe /\ BackupInv /\ AloneInv

LEMMA SchemaInvInit == ASSUME SchemaAssumptions, SchemaInit PROVE SchemaInv
<1>1. PICK v \in 0..Latest + 1 :
        /\ applied = 1..v
        /\ \/ schema = UNION {Made(u) : u \in 1..Min({v, Latest})}
           \/ v = 0 /\ schema \in {{"documents"}, {"documents", "projections"}}
  BY Zenon DEF SchemaInit
<1>2. /\ v \in 0..5 /\ data \in BOOLEAN /\ backups = {} /\ openFaults = 0
      /\ first \in [applied : {applied}, data : {data}, alone : BOOLEAN]
      /\ opening = [p \in Controller |-> "off"] /\ todo = [p \in Controller |-> {}]
  BY <1>1 DEF SchemaInit, SchemaAssumptions
<1>3. Min({v, Latest}) = IF v = 5 THEN 4 ELSE v
  <2>1. \E x \in {v, 4} : \A y \in {v, 4} : x =< y
    BY <1>2
  <2>2. Min({v, 4}) \in {v, 4} /\ \A y \in {v, 4} : Min({v, 4}) =< y
    BY <2>1 DEF Min
  <2> QED BY <1>2, <2>2 DEF SchemaAssumptions
<1>4. schema \subseteq Part
  BY <1>1, <1>2, <1>3 DEF Part, Made
<1>5. AppliedIsMade
  <2>1. CASE v = 0
    BY <1>1, <2>1 DEF AppliedIsMade
  <2>2. CASE v # 0
    BY <1>1, <1>2, <1>3, <2>2 DEF AppliedIsMade, SchemaAssumptions
  <2> QED BY <2>1, <2>2
<1>6. SchemaTypeOK
  BY <1>1, <1>2, <1>4 DEF SchemaTypeOK, SchemaAssumptions
<1>7. BackedUpFirst /\ OnlyFaultsFail /\ BackupInv /\ AloneInv
  BY <1>2 DEF BackedUpFirst, OnlyFaultsFail, BackupInv, AloneInv, AtWork
<1> QED BY <1>5, <1>6, <1>7 DEF SchemaInv, SchemaIsSafe

LEMMA SchemaInvStep ==
  ASSUME SchemaAssumptions, SchemaInv, [SchemaNext]_schemaVars PROVE SchemaInv'
<1> DEFINE Places == {"off", "read", "migrating", "first", "failed", "open", "refused"}
<1>0. /\ SchemaTypeOK /\ BackupInv /\ AloneInv
      /\ AppliedIsMade /\ BackedUpFirst /\ OnlyFaultsFail
      /\ applied \in SUBSET (1..5) /\ first.applied \in SUBSET (1..5)
      /\ opening \in [Controller -> Places] /\ todo \in [Controller -> SUBSET (1..4)]
      /\ backups \subseteq 0..5
      /\ openFaults \in 0..MaxOpenFaults /\ MaxOpenFaults \in Nat /\ Latest = 4
  <2>1. SchemaTypeOK /\ BackupInv /\ AloneInv /\ AppliedIsMade /\ BackedUpFirst /\ OnlyFaultsFail
    BY DEF SchemaInv, SchemaIsSafe
  <2>2. Latest = 4 /\ MaxOpenFaults \in Nat /\ Latest + 1 = 5
    BY DEF SchemaAssumptions
  <2>3. applied \subseteq 1..5 /\ first.applied \subseteq applied /\ backups \subseteq 0..5
    BY <2>1, <2>2 DEF SchemaTypeOK
  <2>4. opening \in [Controller -> Places] /\ todo \in [Controller -> SUBSET (1..4)]
        /\ openFaults \in 0..MaxOpenFaults
    BY <2>1, <2>2 DEF SchemaTypeOK
  <2> QED BY <2>1, <2>2, <2>3, <2>4
<1>1. ASSUME NEW p \in Controller, NEW l \in Places, GoTo(p, l)
      PROVE  /\ \A q \in Controller : opening'[q] = IF q = p THEN l ELSE opening[q]
             /\ opening' \in [Controller -> Places]
  BY <1>0, <1>1 DEF GoTo
<1>2. Version(applied) \in 0..5
      /\ Version(applied) \in applied \cup {0} /\ \A v \in applied : v <= Version(applied)
  BY <1>0, VersionIsNewest, Zenon
<1>3. ASSUME NEW p \in Controller, Open(p) PROVE SchemaInv'
  <2> DEFINE l == IF Version(applied) > Latest THEN "refused" ELSE "read"
  <2>1. /\ opening[p] = "off" /\ GoTo(p, l)
        /\ first.alone => \A q \in Controller : ~AtWork(q)
        /\ todo' = [todo EXCEPT ![p] = Missing(applied)]
        /\ UNCHANGED <<applied, schema, data, backups, first, openFaults>>
    BY <1>3 DEF Open
  <2>2. l \in Places /\ Missing(applied) \in SUBSET (1..4)
    BY <1>0 DEF Missing
  <2>3. SchemaTypeOK'
    BY <1>0, <1>1, <2>1, <2>2 DEF SchemaTypeOK
  <2>4. SchemaIsSafe'
    BY <1>0, <1>1, <2>1, <2>2 DEF SchemaIsSafe, AppliedIsMade, BackedUpFirst, OnlyFaultsFail
  <2>5. BackupInv'
    BY <1>0, <1>1, <2>1, <2>2 DEF BackupInv
  <2>6. l = "read" => applied \subseteq 1..Latest
    BY <1>0, <1>2
  <2>7. AloneInv'
    BY <1>0, <1>1, <2>1, <2>2, <2>6 DEF AloneInv, AtWork, Missing
  <2> QED BY <2>3, <2>4, <2>5, <2>7 DEF SchemaInv
<1>4. ASSUME NEW p \in Controller, Backup(p) PROVE SchemaInv'
  <2>1. /\ opening[p] = "read" /\ GoTo(p, "migrating") /\ backups' = backups \cup Saved(p)
        /\ UNCHANGED <<applied, schema, data, first, todo, openFaults>>
    BY <1>4 DEF Backup
  <2>2. Saved(p) \subseteq 0..5
    BY <1>2 DEF Saved
  <2>3. SchemaTypeOK'
    <3>1. backups' \subseteq 0..5
      BY <1>0, <2>1, <2>2
    <3>2. 0..Latest + 1 = 0..5
      BY <1>0
    <3>3. backups' \subseteq 0..Latest + 1
      BY <3>1, <3>2
    <3> QED BY <1>0, <1>1, <2>1, <3>3 DEF SchemaTypeOK
  <2>4. SchemaIsSafe'
    BY <1>0, <1>1, <2>1 DEF SchemaIsSafe, AppliedIsMade, BackedUpFirst, OnlyFaultsFail
  <2>5. first.data /\ todo[p] # {} => Version(first.applied) \in backups'
    BY <1>0, <2>1 DEF Saved, BackupInv, BackedUpFirst
  <2>6. BackupInv'
    BY <1>0, <1>1, <2>1, <2>4, <2>5 DEF BackupInv, SchemaIsSafe
  <2>7. AloneInv'
    BY <1>0, <1>1, <2>1 DEF AloneInv, AtWork
  <2> QED BY <2>3, <2>4, <2>6, <2>7 DEF SchemaInv
<1>5. ASSUME NEW p \in Controller, Migrate(p) PROVE SchemaInv'
  <2> DEFINE v == Min(todo[p])
  <2>1. /\ opening[p] = "migrating" /\ todo[p] # {} /\ UNCHANGED <<data, backups, first>>
        /\ \/ /\ v \notin applied
              /\ applied' = applied \cup {v} /\ schema' = schema \cup Made(v)
              /\ todo' = [todo EXCEPT ![p] = todo[p] \ {v}]
              /\ UNCHANGED <<opening, openFaults>>
           \/ /\ v \in applied \/ openFaults < MaxOpenFaults
              /\ openFaults' = IF v \in applied THEN openFaults ELSE openFaults + 1
              /\ UNCHANGED <<applied, schema, todo>> /\ GoTo(p, "failed")
    BY <1>5 DEF Migrate, Failed
  <2>2. v \in todo[p] /\ v \in 1..4
    BY <1>0, <2>1, OldestIsMissing
  <2>3. Made(v) \subseteq Part
    BY <2>2 DEF Made, Part
  <2> HIDE DEF v
  <2>4. CASE UNCHANGED opening
    <3>1. /\ v \notin applied
          /\ applied' = applied \cup {v} /\ schema' = schema \cup Made(v)
          /\ todo' = [todo EXCEPT ![p] = todo[p] \ {v}] /\ UNCHANGED openFaults
      BY <1>0, <1>1, <2>1, <2>4
    <3>2. SchemaTypeOK'
      BY <1>0, <2>1, <2>2, <2>3, <2>4, <3>1 DEF SchemaTypeOK
    <3>3. AppliedIsMade' /\ OnlyFaultsFail'
      BY <1>0, <2>1, <2>4, <3>1 DEF AppliedIsMade, OnlyFaultsFail
    <3>4. BackedUpFirst' /\ BackupInv'
      BY <1>0, <2>1, <2>4, <3>1 DEF BackedUpFirst, BackupInv
    <3>5. AloneInv'
      BY <1>0, <2>1, <2>2, <2>4, <3>1 DEF AloneInv, AtWork, Missing
    <3> QED BY <3>2, <3>3, <3>4, <3>5 DEF SchemaInv, SchemaIsSafe
  <2>5. CASE ~UNCHANGED opening
    <3>1. /\ v \in applied \/ openFaults < MaxOpenFaults
          /\ openFaults' = IF v \in applied THEN openFaults ELSE openFaults + 1
          /\ UNCHANGED <<applied, schema, todo>> /\ GoTo(p, "failed")
      BY <2>1, <2>5
    <3>2. SchemaTypeOK'
      BY <1>0, <1>1, <2>1, <3>1 DEF SchemaTypeOK
    <3>3. first.alone => v \notin applied
      BY <1>0, <2>1, <2>2 DEF AloneInv, AtWork, Missing
    <3>4. SchemaIsSafe'
      BY <1>0, <1>1, <2>1, <3>1, <3>3
      DEF SchemaIsSafe, AppliedIsMade, BackedUpFirst, OnlyFaultsFail
    <3>5. BackupInv' /\ AloneInv'
      BY <1>0, <1>1, <2>1, <3>1 DEF BackupInv, AloneInv, AtWork
    <3> QED BY <3>2, <3>4, <3>5 DEF SchemaInv
  <2> QED BY <2>4, <2>5
<1>6. ASSUME NEW p \in Controller, Finish(p) PROVE SchemaInv'
  <2> DEFINE l == IF ~Verified THEN "failed" ELSE IF data THEN "open" ELSE "first"
  <2>1. /\ opening[p] = "migrating" /\ todo[p] = {} /\ GoTo(p, l)
        /\ UNCHANGED <<applied, schema, data, backups, first, todo, openFaults>>
    BY <1>6 DEF Finish
  <2>2. first.alone => Verified
    <3>1. SUFFICES ASSUME first.alone PROVE Verified
      OBVIOUS
    <3>2. applied = 1..4
      BY <1>0, <2>1, <3>1 DEF AloneInv, AtWork, Missing
    <3>3. Version(applied) = Latest
      BY <1>0, <1>2, <3>2
    <3> QED BY <1>0, <3>2, <3>3, AllIsMade DEF Verified
  <2>3. l \in Places
    OBVIOUS
  <2>4. SchemaTypeOK'
    BY <1>0, <1>1, <2>1, <2>3 DEF SchemaTypeOK
  <2>5. SchemaIsSafe'
    BY <1>0, <1>1, <2>1, <2>2, <2>3
    DEF SchemaIsSafe, AppliedIsMade, BackedUpFirst, OnlyFaultsFail
  <2>6. BackupInv' /\ AloneInv'
    BY <1>0, <1>1, <2>1, <2>3 DEF BackupInv, AloneInv, AtWork
  <2> QED BY <2>4, <2>5, <2>6 DEF SchemaInv
<1>9. ASSUME NEW p \in Controller, InsertFirst(p) PROVE SchemaInv'
  <2>1. PICK l \in {"open", "failed"} :
        /\ opening[p] = "first" /\ GoTo(p, l)
        /\ UNCHANGED <<applied, schema, backups, first, todo>>
        /\ openFaults' \in 0..MaxOpenFaults /\ openFaults' >= openFaults
        /\ data' \in BOOLEAN /\ (data => data')
        /\ l = "failed" => data \/ openFaults' > 0
    <3>1. /\ opening[p] = "first" /\ UNCHANGED <<applied, schema, backups, first, todo>>
          /\ data \in BOOLEAN
          /\ \/ data' = TRUE /\ GoTo(p, "open") /\ UNCHANGED openFaults
             \/ /\ data \/ openFaults < MaxOpenFaults
                /\ openFaults' = IF data THEN openFaults ELSE openFaults + 1
                /\ GoTo(p, "failed") /\ UNCHANGED data
      BY <1>0, <1>9 DEF InsertFirst, SchemaTypeOK
    <3>2. CASE data' = TRUE /\ GoTo(p, "open") /\ UNCHANGED openFaults
      BY <1>0, <3>1, <3>2
    <3>3. CASE /\ data \/ openFaults < MaxOpenFaults
               /\ openFaults' = IF data THEN openFaults ELSE openFaults + 1
               /\ GoTo(p, "failed") /\ UNCHANGED data
      <4>1. openFaults' \in 0..MaxOpenFaults /\ openFaults' >= openFaults
            /\ (data \/ openFaults' > 0)
        BY <1>0, <3>3
      <4> QED BY <3>1, <3>3, <4>1
    <3> QED BY <3>1, <3>2, <3>3
  <2>2. SchemaTypeOK'
    BY <1>0, <1>1, <2>1 DEF SchemaTypeOK
  <2>3. first.alone => ~data
    BY <1>0, <2>1 DEF AloneInv, AtWork
  <2>4. SchemaIsSafe'
    BY <1>0, <1>1, <2>1, <2>3 DEF SchemaIsSafe, AppliedIsMade, BackedUpFirst, OnlyFaultsFail
  <2>5. BackupInv' /\ AloneInv'
    BY <1>0, <1>1, <2>1 DEF BackupInv, AloneInv, AtWork
  <2> QED BY <2>2, <2>4, <2>5 DEF SchemaInv
<1>7. ASSUME NEW p \in Controller, CutOff(p) \/ StartAgain(p) PROVE SchemaInv'
  <2>1. /\ GoTo(p, "off") /\ UNCHANGED <<applied, schema, data, backups, first, todo>>
        /\ openFaults' \in 0..MaxOpenFaults /\ openFaults' >= openFaults
    BY <1>0, <1>7 DEF CutOff, StartAgain
  <2>2. SchemaTypeOK'
    BY <1>0, <1>1, <2>1 DEF SchemaTypeOK
  <2>3. SchemaIsSafe'
    BY <1>0, <1>1, <2>1 DEF SchemaIsSafe, AppliedIsMade, BackedUpFirst, OnlyFaultsFail
  <2>4. BackupInv' /\ AloneInv'
    BY <1>0, <1>1, <2>1 DEF BackupInv, AloneInv, AtWork
  <2> QED BY <2>2, <2>3, <2>4 DEF SchemaInv
<1>8. CASE UNCHANGED schemaVars
  BY <1>8 DEF schemaVars, SchemaInv, SchemaTypeOK, SchemaIsSafe, AppliedIsMade,
     BackedUpFirst, OnlyFaultsFail, BackupInv, AloneInv, AtWork
<1> QED BY <1>3, <1>4, <1>5, <1>6, <1>7, <1>8, <1>9 DEF SchemaNext

LEMMA SchemaInvAlways == ASSUME SchemaAssumptions PROVE SchemaSpec => []SchemaInv
<1>1. SchemaInit => SchemaInv
  BY SchemaInvInit
<1>2. SchemaInv /\ [SchemaNext]_schemaVars => SchemaInv'
  BY SchemaInvStep
<1> QED BY <1>1, <1>2, PTL DEF SchemaSpec

\* Every variable keeps its type.
THEOREM SchemaTypeCorrect == ASSUME SchemaAssumptions PROVE SchemaSpec => []SchemaTypeOK
BY SchemaInvAlways, PTL DEF SchemaInv

\* A version that is recorded has been made, data is only migrated after a backup
\* of what it was, and controllers that open the database one at a time only fail
\* by a fault: for every number of controllers, faults and crashes.
THEOREM SchemaStaysSafe == ASSUME SchemaAssumptions PROVE SchemaSpec => []SchemaIsSafe
BY SchemaInvAlways, PTL DEF SchemaInv

-----------------------------------------------------------------------------
(* The tables.                                                             *)

Row == StepKey \X (1..Keep + 1)
Record == [there : BOOLEAN, steps : Seq(StepKey), cps : Seq(Row), files : SUBSET File,
           lock : BOOLEAN, log : SUBSET EventKind]

\* A list that was never cut has its checkpoints numbered by their places, and
\* whichever list was stored met the key of its table.
ListIsSound(list) ==
  /\ Len(list) <= Keep /\ IsInjective(list)
  /\ Len(list) < Keep => \A i \in DOMAIN list : list[i][2] = i

\* A record that met the keys, of a run of some workflow or of none.
RecordIsSound(rec) ==
  /\ ListIsSound(rec.cps) /\ IsInjective(rec.steps)
  /\ IF rec.there THEN rec.steps \in StepList ELSE rec = NoRun

\* A document as it may be stored.
IsDocument(d) == d \in [Run -> Record] /\ \A r \in Run : RecordIsSound(d[r])

Rows == [steps : SUBSET StepKey, cps : SUBSET Row, files : SUBSET File]
Table == [runs : SUBSET Run, rows : [Run -> Rows],
          lock : [Project -> Run \cup {Nobody}], log : [Run -> SUBSET EventKind]]

\* The row of a project's lock names a run that has it, and there is one when a run has it.
LocksAreHeld ==
  /\ \A p \in Project : table.lock[p] # Nobody =>
       ProjectOf[table.lock[p]] = p /\ doc[table.lock[p]].lock
  /\ \A r \in Run : doc[r].lock => table.lock[ProjectOf[r]] = r

TablesInv ==
  /\ IsDocument(doc) /\ table \in Table
  /\ snap = <<>> \/ IsDocument(snap)
  /\ passes \in 0..MaxPasses /\ refused \subseteq Run \X KeyedTable
  /\ RowsAreOfDocument /\ RefusedWhenFull

\* The record of a run that is not there.
LEMMA NoRunIsSound == ASSUME StoreAssumptions PROVE NoRun \in Record /\ RecordIsSound(NoRun)
<1>1. Len(<<>>) = 0 /\ DOMAIN <<>> = {}
  BY EmptySeq
<1>2. <<>> \in Seq(Row) /\ <<>> \in Seq(StepKey)
  BY EmptySeq
<1>3. 0 <= Keep
  BY DEF StoreAssumptions
<1> QED BY <1>1, <1>2, <1>3 DEF NoRun, Record, RecordIsSound, ListIsSound, IsInjective

\* Which tables refuse a record.
LEMMA ConflictsAre ==
  ASSUME NEW rec
  PROVE  /\ Conflicts(rec) \subseteq KeyedTable
         /\ "checkpoints" \in Conflicts(rec) <=> ~IsInjective(rec.cps)
         /\ "run_steps" \in Conflicts(rec) <=> ~IsInjective(rec.steps)
BY DEF Conflicts, KeyedTable

\* The rows of a record are rows.
LEMMA RowsAre == ASSUME NEW rec \in Record PROVE RowsOf(rec) \in Rows
<1>1. rec.steps \in Seq(StepKey) /\ rec.cps \in Seq(Row) /\ rec.files \in SUBSET File
  BY DEF Record
<1> QED BY <1>1 DEF RowsOf, Rows, ToSet

\* One update: the record of a run that the keys of the tables admit is stored, and
\* its rows are those of the record; one that they do not admit changes nothing.
LEMMA MutateKeeps ==
  ASSUME StoreAssumptions, TablesInv, NEW r \in Run, NEW rec \in Record, Mutate(r, rec),
         passes' \in 0..MaxPasses, rec.there \/ rec = NoRun,
         "checkpoints" \in Conflicts(rec) => Len(doc[r].cps) = Keep,
         "run_steps" \in Conflicts(rec) => ~doc[r].there,
         Conflicts(rec) = {} => RecordIsSound(rec)
  PROVE  TablesInv'
<1> DEFINE synced == SyncRun(table, r, rec)
<1>1. /\ doc \in [Run -> Record] /\ table \in Table /\ doc[r] \in Record
      /\ \A o \in Run : RecordIsSound(doc[o])
      /\ \A o \in Run : /\ o \in table.runs <=> doc[o].there
                        /\ table.rows[o] = RowsOf(doc[o])
                        /\ doc[o].log \subseteq table.log[o]
  BY DEF TablesInv, IsDocument, RowsAreOfDocument
<1>2. snap' = snap /\ (snap' = <<>> \/ IsDocument(snap'))
  BY DEF Mutate, TablesInv
<1>3. CASE Conflicts(rec) # {}
  <2>1. refused' = {r} \X Conflicts(rec) /\ UNCHANGED <<doc, table>>
    BY <1>3 DEF Mutate
  <2>2. refused' \subseteq Run \X KeyedTable /\ RefusedWhenFull'
    BY <2>1, ConflictsAre DEF RefusedWhenFull
  <2> QED BY <1>1, <1>2, <2>1, <2>2 DEF TablesInv, IsDocument, RowsAreOfDocument
<1>4. CASE Conflicts(rec) = {}
  <2>1. /\ refused' = {} /\ doc' = [doc EXCEPT ![r] = rec]
        /\ (table' = table /\ rec = doc[r]) \/ table' = synced
    BY <1>4 DEF Mutate
  <2>2. /\ doc' \in [Run -> Record] /\ doc'[r] = rec
        /\ \A o \in Run \ {r} : doc'[o] = doc[o]
    BY <1>1, <2>1
  <2>3. IsDocument(doc')
    BY <1>1, <1>4, <2>2 DEF IsDocument
  <2>4. RefusedWhenFull' /\ refused' \subseteq Run \X KeyedTable
    BY <2>1 DEF RefusedWhenFull
  <2>5. /\ synced \in Table
        /\ synced.runs = IF rec.there THEN table.runs \cup {r} ELSE table.runs \ {r}
        /\ synced.rows = [table.rows EXCEPT ![r] = RowsOf(rec)]
        /\ synced.log = [table.log EXCEPT ![r] = IF rec.there THEN Logged(table, r, rec) ELSE {}]
    <3>1. Unlocked(table, r) \in [Project -> Run \cup {Nobody}]
      BY <1>1 DEF Unlocked, Table
    <3>2. RowsOf(rec) \in Rows
      BY RowsAre
    <3>3. Logged(table, r, rec) \in SUBSET EventKind
      BY <1>1 DEF Logged, Table, Record
    <3> QED BY <1>1, <3>1, <3>2, <3>3 DEF SyncRun, Table
  <2> HIDE DEF synced
  <2>6. RowsAreOfDocument' /\ table' \in Table
    <3>1. CASE table' = table /\ rec = doc[r]
      BY <1>1, <2>2, <3>1 DEF RowsAreOfDocument
    <3>2. CASE table' = synced
      <4>1. rec.log = {} \/ rec.there
        BY DEF NoRun
      <4>2. /\ r \in synced.runs <=> rec.there
            /\ synced.rows[r] = RowsOf(rec) /\ rec.log \subseteq synced.log[r]
        BY <1>1, <2>5, <4>1 DEF Table, Logged
      <4>3. ASSUME NEW o \in Run \ {r}
            PROVE  /\ o \in synced.runs <=> o \in table.runs
                   /\ synced.rows[o] = table.rows[o] /\ synced.log[o] = table.log[o]
        BY <1>1, <2>5 DEF Table
      <4>4. ASSUME NEW o \in Run
            PROVE  /\ o \in table'.runs <=> doc'[o].there
                   /\ table'.rows[o] = RowsOf(doc'[o]) /\ doc'[o].log \subseteq table'.log[o]
        <5>1. CASE o = r
          BY <2>2, <3>2, <4>2, <5>1
        <5>2. CASE o # r
          BY <1>1, <2>2, <3>2, <4>3, <5>2
        <5> QED BY <5>1, <5>2
      <4>5. table' \in Table
        BY <2>5, <3>2
      <4> QED BY <4>4, <4>5 DEF RowsAreOfDocument
    <3> QED BY <2>1, <3>1, <3>2
  <2> QED BY <1>2, <2>3, <2>4, <2>6 DEF TablesInv
<1> QED BY <1>3, <1>4

\* The rows of the locks, as long as one run at a time is given the lock.
LEMMA MutateKeepsLocks ==
  ASSUME StoreAssumptions, TablesInv, LocksAreHeld, NEW r \in Run, NEW rec \in Record,
         Mutate(r, rec),
         rec.lock /\ ~doc[r].lock =>
           \A o \in Run \ {r} : ProjectOf[o] = ProjectOf[r] => ~doc[o].lock
  PROVE  LocksAreHeld'
<1>1. /\ doc \in [Run -> Record] /\ table \in Table /\ Nobody \notin Run
  BY DEF TablesInv, IsDocument, StoreAssumptions
<1>2. CASE UNCHANGED <<doc, table>>
  BY <1>1, <1>2 DEF LocksAreHeld
<1>3. CASE doc' = [doc EXCEPT ![r] = rec] /\ table' = table /\ rec = doc[r]
  <2>1. doc' = doc
    BY <1>1, <1>3
  <2> QED BY <1>3, <2>1 DEF LocksAreHeld
<1>4. CASE doc' = [doc EXCEPT ![r] = rec] /\ table' = SyncRun(table, r, rec)
  <2>1. /\ doc'[r] = rec /\ \A o \in Run \ {r} : doc'[o] = doc[o]
    BY <1>1, <1>4
  <2>2. table'.lock = IF rec.lock THEN [Unlocked(table, r) EXCEPT ![ProjectOf[r]] = r]
                      ELSE Unlocked(table, r)
    BY <1>4 DEF SyncRun
  <2>3. \A p \in Project :
          table'.lock[p] = IF rec.lock /\ p = ProjectOf[r] THEN r
                           ELSE IF table.lock[p] = r THEN Nobody ELSE table.lock[p]
    BY <2>2 DEF Unlocked
  <2>4. \A o \in Run : ProjectOf[o] \in Project
    BY DEF Project
  <2>5. \A p \in Project : table.lock[p] \in Run \cup {Nobody}
    BY <1>1 DEF Table
  <2>6. \A p \in Project : table'.lock[p] # Nobody =>
          ProjectOf[table'.lock[p]] = p /\ doc'[table'.lock[p]].lock
    BY <1>1, <2>1, <2>3, <2>5 DEF LocksAreHeld
  <2>7. ASSUME NEW o \in Run, doc'[o].lock PROVE table'.lock[ProjectOf[o]] = o
    <3>1. CASE o = r
      BY <2>1, <2>3, <2>4, <2>7, <3>1
    <3>2. CASE o # r
      <4>1. doc[o].lock /\ table.lock[ProjectOf[o]] = o
        BY <2>1, <2>7, <3>2 DEF LocksAreHeld
      <4>2. ~(rec.lock /\ ProjectOf[o] = ProjectOf[r])
        BY <3>2, <4>1 DEF LocksAreHeld
      <4> QED BY <2>3, <2>4, <3>2, <4>1, <4>2
    <3> QED BY <3>1, <3>2
  <2> QED BY <2>6, <2>7 DEF LocksAreHeld
<1>5. \/ UNCHANGED <<doc, table>>
      \/ doc' = [doc EXCEPT ![r] = rec] /\ table' = table /\ rec = doc[r]
      \/ doc' = [doc EXCEPT ![r] = rec] /\ table' = SyncRun(table, r, rec)
  BY DEF Mutate
<1> QED BY <1>2, <1>3, <1>4, <1>5

\* The key of a list that is not full admits the next checkpoint.
LEMMA PassedIsSound ==
  ASSUME StoreAssumptions, NEW list \in Seq(Row), ListIsSound(list), NEW k \in StepKey
  PROVE  /\ Passed(list, k) \in Seq(Row)
         /\ ~IsInjective(Passed(list, k)) => Len(list) = Keep
         /\ IsInjective(Passed(list, k)) => ListIsSound(Passed(list, k))
<1> DEFINE all == Append(list, <<k, Len(list) + 1>>)
<1>1. Len(list) \in Nat /\ Len(list) <= Keep /\ Keep \in Nat \ {0} /\ DOMAIN list = 1..Len(list)
  BY LenProperties DEF ListIsSound, StoreAssumptions
<1>2. <<k, Len(list) + 1>> \in Row
  BY <1>1 DEF Row
<1>3. /\ all \in Seq(Row) /\ all # <<>> /\ Len(all) = Len(list) + 1
      /\ \A i \in 1..Len(list) : all[i] = list[i]
      /\ all[Len(list) + 1] = <<k, Len(list) + 1>>
  BY <1>2, AppendProperties
<1>4. CASE Len(list) < Keep
  <2>1. Passed(list, k) = all
    BY <1>1, <1>3, <1>4 DEF Passed
  <2>2. \A i \in DOMAIN all : all[i][2] = i
    <3>1. DOMAIN all = 1..(Len(list) + 1)
      BY <1>3, LenProperties
    <3>2. \A i \in 1..Len(list) : all[i][2] = i
      BY <1>1, <1>3, <1>4 DEF ListIsSound
    <3>3. all[Len(list) + 1][2] = Len(list) + 1
      BY <1>3
    <3> QED BY <1>1, <3>1, <3>2, <3>3
  <2>3. IsInjective(all)
    BY <2>2 DEF IsInjective
  <2>4. Len(all) <= Keep
    BY <1>1, <1>3, <1>4
  <2> HIDE DEF all
  <2> QED BY <1>3, <2>1, <2>2, <2>3, <2>4 DEF ListIsSound
<1>5. CASE Len(list) = Keep
  <2>1. Passed(list, k) = Tail(all) /\ Tail(all) \in Seq(Row) /\ Len(Tail(all)) = Keep
    BY <1>1, <1>3, <1>5, HeadTailProperties DEF Passed
  <2> QED BY <1>1, <1>5, <2>1 DEF ListIsSound
<1> HIDE DEF all
<1>6. ASSUME NEW n \in Nat, n <= Keep, Keep \in Nat PROVE n < Keep \/ n = Keep
  BY <1>6
<1>7. Len(list) < Keep \/ Len(list) = Keep
  <2>1. Len(list) \in Nat /\ Len(list) <= Keep /\ Keep \in Nat
    BY <1>1
  <2> QED BY <1>6, <2>1
<1> QED BY <1>4, <1>5, <1>7

\* What a save writes, where no record has the lock any more.
LEMMA RebuiltIs ==
  ASSUME StoreAssumptions, NEW d, IsDocument(d), \A r \in Run : ~d[r].lock
  PROVE  /\ Rebuilt(d) \in Table
         /\ \A r \in Run : /\ r \in Rebuilt(d).runs <=> d[r].there
                           /\ Rebuilt(d).rows[r] = RowsOf(d[r])
                           /\ d[r].log \subseteq Rebuilt(d).log[r]
         /\ \A p \in Project : Rebuilt(d).lock[p] = Nobody
<1> DEFINE present == {r \in Run : d[r].there}
           Holders(p) == {r \in present : ProjectOf[r] = p /\ d[r].lock}
<1>1. \A p \in Project : Holders(p) = {}
  OBVIOUS
<1>2. /\ Rebuilt(d).runs = present
      /\ Rebuilt(d).rows = [r \in Run |-> RowsOf(IF r \in present THEN d[r] ELSE NoRun)]
      /\ Rebuilt(d).lock = [p \in Project |-> Nobody]
      /\ Rebuilt(d).log = [r \in Run |-> IF r \in present THEN d[r].log ELSE {}]
      /\ Rebuilt(d) = [runs |-> Rebuilt(d).runs, rows |-> Rebuilt(d).rows,
                       lock |-> Rebuilt(d).lock, log |-> Rebuilt(d).log]
  BY <1>1 DEF Rebuilt
<1>3. /\ d \in [Run -> Record]
      /\ \A r \in Run : ~d[r].there => d[r] = NoRun
  BY DEF IsDocument, RecordIsSound
<1>4. ASSUME NEW r \in Run PROVE RowsOf(d[r]) \in Rows /\ d[r].log \in SUBSET EventKind
  <2>1. d[r] \in Record /\ d[r].log \in SUBSET EventKind
    BY <1>3 DEF Record
  <2> QED BY <2>1, RowsAre
<1>5. ASSUME NEW r \in Run, r \notin present PROVE d[r] = NoRun /\ d[r].log = {}
  BY <1>3, <1>5 DEF NoRun
<1>6. Rebuilt(d) \in Table
  <2>1. \A r \in Run : RowsOf(IF r \in present THEN d[r] ELSE NoRun) \in Rows
    BY <1>4, <1>5
  <2>2. \A r \in Run : (IF r \in present THEN d[r].log ELSE {}) \in SUBSET EventKind
    BY <1>4
  <2>3. present \in SUBSET Run
    OBVIOUS
  <2> HIDE DEF present
  <2>4. /\ Rebuilt(d).rows \in [Run -> Rows] /\ Rebuilt(d).log \in [Run -> SUBSET EventKind]
        /\ Rebuilt(d).lock \in [Project -> Run \cup {Nobody}]
        /\ Rebuilt(d).runs \in SUBSET Run
    BY <1>2, <2>1, <2>2, <2>3
  <2> QED BY <1>2, <2>4 DEF Table
<1>7. ASSUME NEW r \in Run
      PROVE  /\ r \in Rebuilt(d).runs <=> d[r].there
             /\ Rebuilt(d).rows[r] = RowsOf(d[r]) /\ d[r].log \subseteq Rebuilt(d).log[r]
  <2>1. r \in present <=> d[r].there
    OBVIOUS
  <2> HIDE DEF present
  <2>2. /\ Rebuilt(d).rows[r] = RowsOf(IF r \in present THEN d[r] ELSE NoRun)
        /\ Rebuilt(d).log[r] = IF r \in present THEN d[r].log ELSE {}
        /\ Rebuilt(d).runs = present
    BY <1>2
  <2> QED BY <1>5, <2>1, <2>2
<1>8. \A p \in Project : Rebuilt(d).lock[p] = Nobody
  BY <1>2
<1> QED BY <1>6, <1>7, <1>8

LEMMA TablesInvInit == ASSUME StoreAssumptions, StoreInit PROVE TablesInv /\ LocksAreHeld
<1>1. NoRun \in Record /\ RecordIsSound(NoRun) /\ ~NoRun.there /\ ~NoRun.lock
      /\ NoRun.log = {}
  BY NoRunIsSound DEF NoRun
<1>2. RowsOf(NoRun) \in Rows
  BY <1>1, RowsAre
<1>3. /\ table = NoRows /\ table.runs = {} /\ table.rows = [r \in Run |-> RowsOf(NoRun)]
      /\ table.lock = [p \in Project |-> Nobody] /\ table.log = [r \in Run |-> {}]
      /\ table \in Table
  BY <1>2 DEF StoreInit, NoRows, Table
<1>4. /\ doc = [r \in Run |-> NoRun] /\ snap = <<>> /\ passes = 0 /\ refused = {}
      /\ 0 \in 0..MaxPasses
  BY DEF StoreInit, StoreAssumptions
<1> QED BY <1>1, <1>2, <1>3, <1>4
    DEF TablesInv, IsDocument, RowsAreOfDocument, RefusedWhenFull, LocksAreHeld, Project

\* What an update of a run stores, or is refused for.
IsUpdate(r, rec) ==
  /\ rec.there \/ rec = NoRun
  /\ "checkpoints" \in Conflicts(rec) => Len(doc[r].cps) = Keep
  /\ "run_steps" \in Conflicts(rec) => ~doc[r].there
  /\ Conflicts(rec) = {} => RecordIsSound(rec)

\* Each step but the save is an update of one run, or none.
LEMMA UpdatesAre ==
  ASSUME StoreAssumptions, TablesInv, StoreNext
  PROVE  \/ \E r \in Run, rec \in Record :
              /\ Mutate(r, rec) /\ passes' \in 0..MaxPasses /\ IsUpdate(r, rec)
              /\ OneLock /\ rec.lock /\ ~doc[r].lock =>
                   \A o \in Run \ {r} : ProjectOf[o] = ProjectOf[r] => ~doc[o].lock
         \/ LoadAll
         \/ SaveAll
<1>1. /\ doc \in [Run -> Record] /\ passes \in 0..MaxPasses /\ MaxPasses \in Nat
      /\ \A r \in Run : RecordIsSound(doc[r])
  BY DEF TablesInv, IsDocument, StoreAssumptions
\* A record of a run that is there, with the steps and the checkpoints it has.
<1>2. ASSUME NEW r \in Run, NEW rec \in Record, doc[r].there, rec.there,
             rec.steps = doc[r].steps, rec.cps = doc[r].cps
      PROVE  IsUpdate(r, rec)
  <2>1. RecordIsSound(doc[r])
    BY <1>1
  <2>2. RecordIsSound(rec)
    BY <1>2, <2>1 DEF RecordIsSound
  <2> QED BY <1>2, <2>2, ConflictsAre DEF IsUpdate, RecordIsSound, ListIsSound
<1>3. ASSUME NEW r \in Run, NEW list \in StepList, CreateRun(r, list)
      PROVE  \E rec \in Record :
              /\ Mutate(r, rec) /\ passes' \in 0..MaxPasses /\ IsUpdate(r, rec) /\ ~rec.lock
  <2> DEFINE rec == NewRun(list)
  <2>1. list \in Seq(StepKey)
    BY DEF StoreAssumptions
  <2>2. /\ NoRun \in Record /\ ListIsSound(NoRun.cps) /\ ~NoRun.lock
    BY NoRunIsSound DEF RecordIsSound, NoRun
  <2>3. /\ rec \in Record /\ rec.there /\ ~rec.lock /\ rec.steps = list
        /\ ListIsSound(rec.cps)
    BY <2>1, <2>2 DEF NewRun, NoRun, Record
  <2>4. Mutate(r, rec) /\ passes' = passes /\ ~doc[r].there
    BY <1>3 DEF CreateRun
  <2> HIDE DEF rec
  <2>5. "checkpoints" \notin Conflicts(rec)
    BY <2>3, ConflictsAre DEF ListIsSound
  <2>6. Conflicts(rec) = {} => RecordIsSound(rec)
    BY <2>3, ConflictsAre DEF RecordIsSound
  <2> QED BY <1>1, <2>3, <2>4, <2>5, <2>6 DEF IsUpdate
<1>4. ASSUME NEW r \in Run, DeleteRun(r)
      PROVE  \E rec \in Record :
              /\ Mutate(r, rec) /\ passes' \in 0..MaxPasses /\ IsUpdate(r, rec) /\ ~rec.lock
  <2>1. NoRun \in Record /\ RecordIsSound(NoRun) /\ ~NoRun.lock
    BY NoRunIsSound DEF NoRun
  <2>2. Mutate(r, NoRun) /\ passes' = passes
    BY <1>4 DEF DeleteRun
  <2>3. IsUpdate(r, NoRun)
    BY <2>1, ConflictsAre DEF IsUpdate, RecordIsSound, ListIsSound
  <2> QED BY <1>1, <2>1, <2>2, <2>3
<1>5. ASSUME NEW r \in Run, NEW k \in StepKey, Pass(r, k)
      PROVE  \E rec \in Record :
              /\ Mutate(r, rec) /\ passes' \in 0..MaxPasses /\ IsUpdate(r, rec)
              /\ rec.lock = doc[r].lock
  <2> DEFINE rec == [doc[r] EXCEPT !.cps = Passed(@, k)]
  <2>1. doc[r] \in Record /\ doc[r].cps \in Seq(Row) /\ RecordIsSound(doc[r])
        /\ ListIsSound(doc[r].cps)
    BY <1>1 DEF Record, RecordIsSound
  <2>2. rec \in Record /\ rec.there = doc[r].there /\ rec.lock = doc[r].lock
        /\ rec.cps = Passed(doc[r].cps, k) /\ rec.steps = doc[r].steps
    BY <2>1, PassedIsSound DEF Record
  <2>3. passes' \in 0..MaxPasses
    BY <1>1, <1>5 DEF Pass
  <2>4. Mutate(r, rec) /\ doc[r].there
    BY <1>5 DEF Pass
  <2> HIDE DEF rec
  <2>5. "checkpoints" \in Conflicts(rec) => Len(doc[r].cps) = Keep
    BY <2>1, <2>2, PassedIsSound, ConflictsAre
  <2>6. "run_steps" \notin Conflicts(rec)
    BY <2>1, <2>2, ConflictsAre DEF RecordIsSound
  <2>7. Conflicts(rec) = {} => RecordIsSound(rec)
    BY <2>1, <2>2, <2>4, PassedIsSound, ConflictsAre DEF RecordIsSound
  <2> QED BY <2>2, <2>3, <2>4, <2>5, <2>6, <2>7 DEF IsUpdate
<1>6. ASSUME NEW r \in Run, NEW b \in BOOLEAN, SetLock(r, b)
      PROVE  \E rec \in Record :
              /\ Mutate(r, rec) /\ passes' \in 0..MaxPasses /\ IsUpdate(r, rec)
              /\ OneLock /\ rec.lock =>
                   \A o \in Run \ {r} : ProjectOf[o] = ProjectOf[r] => ~doc[o].lock
  <2> DEFINE rec == [doc[r] EXCEPT !.lock = b]
  <2>1. doc[r] \in Record
    BY <1>1
  <2>2. /\ rec \in Record /\ rec.there = doc[r].there /\ rec.lock = b
        /\ rec.cps = doc[r].cps /\ rec.steps = doc[r].steps
    BY <2>1 DEF Record
  <2>3. /\ Mutate(r, rec) /\ doc[r].there /\ passes' = passes
        /\ b /\ OneLock => \A o \in Run \ {r} : ProjectOf[o] = ProjectOf[r] => ~doc[o].lock
    BY <1>6 DEF SetLock
  <2> HIDE DEF rec
  <2> QED BY <1>1, <1>2, <2>2, <2>3
<1>7. ASSUME NEW r \in Run,
             \/ \E e \in EventKind, old \in SUBSET EventKind : Log(r, e, old)
             \/ \E now \in SUBSET File : Refresh(r, now)
      PROVE  \E rec \in Record :
              /\ Mutate(r, rec) /\ passes' \in 0..MaxPasses /\ IsUpdate(r, rec)
              /\ rec.lock = doc[r].lock
  <2>1. doc[r] \in Record
    BY <1>1
  <2>2. CASE \E e \in EventKind, old \in SUBSET EventKind : Log(r, e, old)
    <3>1. PICK e \in EventKind, old \in SUBSET EventKind : Log(r, e, old)
      BY <2>2
    <3> DEFINE rec == [doc[r] EXCEPT !.log = (@ \ old) \cup {e}]
    <3>2. /\ rec \in Record /\ rec.there = doc[r].there /\ rec.lock = doc[r].lock
          /\ rec.cps = doc[r].cps /\ rec.steps = doc[r].steps
      BY <2>1 DEF Record
    <3>3. Mutate(r, rec) /\ doc[r].there /\ passes' = passes
      BY <3>1 DEF Log
    <3> HIDE DEF rec
    <3> QED BY <1>1, <1>2, <3>2, <3>3
  <2>3. CASE \E now \in SUBSET File : Refresh(r, now)
    <3>1. PICK now \in SUBSET File : Refresh(r, now)
      BY <2>3
    <3> DEFINE rec == [doc[r] EXCEPT !.files = now]
    <3>2. /\ rec \in Record /\ rec.there = doc[r].there /\ rec.lock = doc[r].lock
          /\ rec.cps = doc[r].cps /\ rec.steps = doc[r].steps
      BY <2>1 DEF Record
    <3>3. Mutate(r, rec) /\ doc[r].there /\ passes' = passes
      BY <3>1 DEF Refresh
    <3> HIDE DEF rec
    <3> QED BY <1>1, <1>2, <3>2, <3>3
  <2> QED BY <1>7, <2>2, <2>3
<1>8. \/ \E r \in Run, list \in StepList : CreateRun(r, list)
      \/ \E r \in Run : DeleteRun(r)
      \/ \E r \in Run, k \in StepKey : Pass(r, k)
      \/ \E r \in Run, b \in BOOLEAN : SetLock(r, b)
      \/ \E r \in Run : \/ \E e \in EventKind, old \in SUBSET EventKind : Log(r, e, old)
                        \/ \E now \in SUBSET File : Refresh(r, now)
      \/ LoadAll \/ SaveAll
  BY DEF StoreNext
<1> QED BY <1>3, <1>4, <1>5, <1>6, <1>7, <1>8

\* A save writes every table, and gives up every lock.
LEMMA SaveKeeps ==
  ASSUME StoreAssumptions, TablesInv, SaveAll PROVE TablesInv' /\ LocksAreHeld'
<1>1. /\ IsDocument(snap) /\ doc' = [r \in Run |-> [snap[r] EXCEPT !.lock = FALSE]]
      /\ table' = Rebuilt(doc') /\ snap' = <<>> /\ refused' = {} /\ UNCHANGED passes
  BY DEF SaveAll, TablesInv
<1>2. ASSUME NEW r \in Run
      PROVE  doc'[r] \in Record /\ ~doc'[r].lock /\ RecordIsSound(doc'[r])
  <2>1. snap[r] \in Record /\ doc'[r] = [snap[r] EXCEPT !.lock = FALSE]
        /\ RecordIsSound(snap[r])
    BY <1>1 DEF IsDocument
  <2>2. doc'[r] \in Record
    BY <2>1 DEF Record
  <2>3. /\ doc'[r].cps = snap[r].cps /\ ~doc'[r].lock /\ doc'[r].there = snap[r].there
        /\ doc'[r].steps = snap[r].steps
    BY <2>1 DEF Record
  <2>4. ASSUME NEW x \in Record, x.lock = FALSE PROVE [x EXCEPT !.lock = FALSE] = x
    BY <2>4 DEF Record
  <2>5. ~snap[r].there => doc'[r] = NoRun
    <3>1. NoRun \in Record /\ NoRun.lock = FALSE
      BY NoRunIsSound DEF NoRun
    <3> QED BY <2>1, <2>4, <3>1 DEF RecordIsSound
  <2> QED BY <2>1, <2>2, <2>3, <2>5 DEF RecordIsSound
<1>3. doc' \in [Run -> Record]
  BY <1>1, <1>2
<1>4. IsDocument(doc')
  BY <1>1, <1>2, <1>3 DEF IsDocument
<1>5. /\ table' \in Table
      /\ \A r \in Run : /\ r \in table'.runs <=> doc'[r].there
                        /\ table'.rows[r] = RowsOf(doc'[r])
                        /\ doc'[r].log \subseteq table'.log[r]
      /\ \A p \in Project : table'.lock[p] = Nobody
  <2>1. \A r \in Run : ~doc'[r].lock
    BY <1>2
  <2> QED BY <1>1, <1>4, <2>1, RebuiltIs
<1>6. RowsAreOfDocument'
  BY <1>5 DEF RowsAreOfDocument
<1> QED BY <1>1, <1>2, <1>4, <1>5, <1>6 DEF TablesInv, RefusedWhenFull, LocksAreHeld

LEMMA TablesInvStep ==
  ASSUME StoreAssumptions, TablesInv, [StoreNext]_storeVars
  PROVE  TablesInv' /\ (OneLock /\ LocksAreHeld => LocksAreHeld')
<1>1. CASE UNCHANGED storeVars
  BY <1>1 DEF storeVars, TablesInv, IsDocument, RowsAreOfDocument, RefusedWhenFull, LocksAreHeld
<1>2. CASE LoadAll
  BY <1>2 DEF LoadAll, TablesInv, IsDocument, RowsAreOfDocument, RefusedWhenFull, LocksAreHeld
<1>3. CASE SaveAll
  BY <1>3, SaveKeeps
<1>4. ASSUME NEW r \in Run, NEW rec \in Record,
             Mutate(r, rec) /\ passes' \in 0..MaxPasses /\ IsUpdate(r, rec),
             OneLock /\ rec.lock /\ ~doc[r].lock =>
               \A o \in Run \ {r} : ProjectOf[o] = ProjectOf[r] => ~doc[o].lock
      PROVE  TablesInv' /\ (OneLock /\ LocksAreHeld => LocksAreHeld')
  <2>1. TablesInv'
    BY <1>4, MutateKeeps DEF IsUpdate
  <2>2. OneLock /\ LocksAreHeld => LocksAreHeld'
    BY <1>4, MutateKeepsLocks
  <2> QED BY <2>1, <2>2
<1> QED BY <1>1, <1>2, <1>3, <1>4, UpdatesAre

\* So the rows stay those of the document, in all of it.
LEMMA TablesInvAlways == ASSUME StoreAssumptions PROVE StoreSpec => []TablesInv
<1>1. StoreInit => TablesInv
  BY TablesInvInit
<1>2. TablesInv /\ [StoreNext]_storeVars => TablesInv'
  BY TablesInvStep
<1> QED BY <1>1, <1>2, PTL DEF StoreSpec

\* Every variable keeps its type.
THEOREM StoreTypeCorrect == ASSUME StoreAssumptions PROVE StoreSpec => []StoreTypeOK
<1>1. TablesInv => StoreTypeOK
  <2> SUFFICES ASSUME TablesInv PROVE StoreTypeOK
    OBVIOUS
  <2>1. /\ doc \in [Run -> Record] /\ table \in Table
        /\ passes \in 0..MaxPasses /\ refused \subseteq Run \X KeyedTable
        /\ \A r \in Run : /\ Len(doc[r].cps) <= Keep /\ (~doc[r].there => doc[r] = NoRun)
                          /\ doc[r].there => doc[r].steps \in StepList
    BY DEF TablesInv, IsDocument, RecordIsSound, ListIsSound
  <2>2. ASSUME NEW r \in Run
        PROVE  /\ DOMAIN doc[r] = {"there", "steps", "cps", "files", "lock", "log"}
               /\ doc[r].lock \in BOOLEAN /\ doc[r].files \subseteq File
               /\ ToSet(doc[r].cps) \subseteq Row /\ doc[r].log \subseteq EventKind
    <3>1. doc[r] \in Record /\ doc[r].cps \in Seq(Row)
      BY <2>1 DEF Record
    <3> QED BY <3>1 DEF Record, ToSet
  <2>3. DOMAIN snap \in {{}, Run}
    BY EmptySeq DEF TablesInv, IsDocument
  <2>4. /\ DOMAIN table = {"runs", "rows", "lock", "log"} /\ table.runs \subseteq Run
        /\ table.lock \in [Project -> Run \cup {Nobody}]
    BY <2>1 DEF Table
  <2> QED BY <2>1, <2>2, <2>3, <2>4 DEF StoreTypeOK, Row
<1> QED BY <1>1, TablesInvAlways, PTL

\* Whatever order updates, loads and saves come in, and whoever is given a lock: the
\* rows of every run are those of its record, and of the keys of checkpoints and of
\* steps an update only violates the first when the list is full, and the second when
\* the run is created.
THEOREM RowsStayInStep ==
  ASSUME StoreAssumptions PROVE StoreSpec => [](RowsAreOfDocument /\ RefusedWhenFull)
BY TablesInvAlways, PTL DEF TablesInv

\* The rows of the tables are those of the document, whatever order updates, loads
\* and saves come in, for any number of runs, workflows and files, and an update is
\* only refused for a list that is full, for a workflow with a step twice when the
\* run is created, or for files that share an id; and where one run at a time is
\* given the lock of a project, the row of the lock names the run that has it.
THEOREM TablesStayInStep ==
  ASSUME StoreAssumptions, OneLock PROVE StoreSpec => []TablesAgree
<1>1. StoreInit => TablesInv /\ LocksAreHeld
  BY TablesInvInit
<1>2. TablesInv /\ LocksAreHeld /\ [StoreNext]_storeVars => TablesInv' /\ LocksAreHeld'
  BY TablesInvStep
<1>3. TablesInv /\ LocksAreHeld => TablesAgree
  <2> SUFFICES ASSUME TablesInv, LocksAreHeld PROVE LockRowsAreHeld
    BY DEF TablesInv, TablesAgree
  <2> SUFFICES ASSUME NEW p \in Project
               PROVE  table.lock[p] = (IF \E r \in Run : ProjectOf[r] = p /\ doc[r].lock
                        THEN CHOOSE r \in Run : ProjectOf[r] = p /\ doc[r].lock ELSE Nobody)
    BY DEF LockRowsAreHeld
  <2>1. table.lock[p] \in Run \cup {Nobody}
    BY DEF TablesInv, Table
  <2>2. \A r \in Run : ProjectOf[r] = p /\ doc[r].lock => r = table.lock[p]
    BY DEF LocksAreHeld
  <2>3. table.lock[p] # Nobody => ProjectOf[table.lock[p]] = p /\ doc[table.lock[p]].lock
    BY DEF LocksAreHeld
  <2> QED BY <2>1, <2>2, <2>3
<1> QED BY <1>1, <1>2, <1>3, PTL DEF StoreSpec

-----------------------------------------------------------------------------
(* The workflow assets.                                                    *)

\* The search of the roots finds what the project's own files, laid over the global
\* ones, have at a path.
LEMMA FoundIsOverlay ==
  ASSUME NEW path \in Paths, NEW view \in Scopes
  PROVE  Found(path, view) = Overlay(view)[path]
<1> DEFINE has == Having(path, view)
           least == CHOOSE i \in has : \A j \in has : i <= j
<1>1. CASE view = "global"
  <2>1. /\ DOMAIN Roots(view) = {1} /\ Roots(view)[1] = "global"
        /\ Overlay(view)[path] = files["global"][path]
    BY <1>1 DEF Roots, Overlay
  <2>2. CASE files["global"][path] = Nothing
    <3>1. has = {}
      BY <2>1, <2>2 DEF Having
    <3> QED BY <2>1, <2>2, <3>1 DEF Found
  <2>3. CASE files["global"][path] # Nothing
    <3>1. has = {1}
      BY <2>1, <2>3 DEF Having
    <3>2. least = 1
      BY <3>1
    <3> QED BY <2>1, <3>1, <3>2 DEF Found
  <2> QED BY <2>2, <2>3
<1>2. CASE view = "project"
  <2>1. /\ DOMAIN Roots(view) = {1, 2}
        /\ Roots(view)[1] = "project" /\ Roots(view)[2] = "global"
    BY <1>2 DEF Roots
  <2>2. Overlay(view)[path] = IF files["project"][path] # Nothing
                              THEN files["project"][path] ELSE files["global"][path]
    BY <1>2 DEF Overlay
  <2>3. CASE files["project"][path] # Nothing
    <3>1. 1 \in has /\ has \subseteq {1, 2}
      BY <2>1, <2>3 DEF Having
    <3>2. least = 1
      BY <3>1
    <3> QED BY <2>1, <2>2, <2>3, <3>1, <3>2 DEF Found
  <2>4. CASE files["project"][path] = Nothing /\ files["global"][path] # Nothing
    <3>1. has = {2}
      BY <2>1, <2>4 DEF Having
    <3>2. least = 2
      BY <3>1
    <3> QED BY <2>1, <2>2, <2>4, <3>1, <3>2 DEF Found
  <2>5. CASE files["project"][path] = Nothing /\ files["global"][path] = Nothing
    <3>1. has = {}
      BY <2>1, <2>5 DEF Having
    <3> QED BY <2>1, <2>2, <2>5, <3>1 DEF Found
  <2> QED BY <2>3, <2>4, <2>5
<1> QED BY <1>1, <1>2 DEF Scopes

\* Every file that is found holds what its category does.
LEMMA FoundIsContent ==
  ASSUME AssetTypeOK, NEW path \in Paths, NEW view \in Scopes, Found(path, view) # Nothing
  PROVE  IsContent(path, Found(path, view))
<1>1. Found(path, view) \in {files["project"][path], files["global"][path]}
  BY FoundIsOverlay DEF Overlay
<1> QED BY <1>1 DEF AssetTypeOK, Scopes

\* A reference that has a contract: the step that is made of it, with the contract
\* applied once more, is what the view sees.
LEMMA StepIsSeen ==
  ASSUME AssetAssumptions, AssetTypeOK, NEW ref, NEW view \in Scopes,
         Makes(ref, view), Applicable(StepOf(ref, view), view)
  PROVE  LET step == Applied(StepOf(ref, view), view)
             sight == Overlay(view)
             c == sight[AppliedTo(step.key)]
         IN  /\ step.content = sight[IF step.key \in Texts THEN step.key ELSE step.text]
             /\ c # Nothing /\ c.reads /\ step.enabled = c.enabled /\ step.text = c.text
<1> DEFINE step == Applied(StepOf(ref, view), view)
           sight == Overlay(view)
           c == Found(AppliedTo(ref), view)
<1>1. /\ StepOf(ref, view).key = ref /\ c # Nothing /\ c.reads
      /\ ContractFor(ref, view) # Nothing
  BY DEF StepOf, Applicable, Makes
<1>2. ref \in Texts \cup Contracts
  BY <1>1 DEF ContractFor
<1>3. AppliedTo(ref) \in Contracts
  BY <1>2 DEF AppliedTo, AssetAssumptions
<1>4. sight[AppliedTo(ref)] = c
  BY <1>3, FoundIsOverlay DEF Paths
<1>5. /\ step.key = ref /\ step.enabled = c.enabled /\ step.text = c.text
      /\ step.content = StepOf(ref, view).content
  BY DEF Applied, StepOf
<1>6. step.content = sight[IF ref \in Texts THEN ref ELSE step.text]
  <2>1. CASE ref \in Texts
    <3>1. ContractFor(ref, view) = Contract(TRUE, ref)
      BY <1>1, <2>1 DEF ContractFor
    <3>2. StepOf(ref, view).content = Found(ref, view)
      BY <3>1 DEF StepOf, Content, Contract
    <3>3. Found(ref, view) = sight[ref]
      BY <2>1, FoundIsOverlay DEF Paths
    <3> QED BY <1>5, <2>1, <3>2, <3>3
  <2>2. CASE ref \notin Texts
    <3>1. ref \in Contracts /\ ContractFor(ref, view) = Found(ref, view) /\ c = Found(ref, view)
      BY <1>2, <2>2 DEF ContractFor, AppliedTo
    <3>2. c \in ContractRec /\ c.text \in Paths
      BY <1>1, <3>1, FoundIsContent DEF IsContent, ContractRec, Paths
    <3>3. StepOf(ref, view).content = Found(c.text, view)
      BY <3>1 DEF StepOf, Content
    <3>4. Found(c.text, view) = sight[c.text]
      BY <3>2, FoundIsOverlay
    <3> QED BY <1>5, <2>2, <3>3, <3>4
  <2> QED BY <2>1, <2>2
<1> HIDE DEF step, sight, c
<1>7. /\ step.content = sight[IF step.key \in Texts THEN step.key ELSE step.text]
      /\ sight[AppliedTo(step.key)] = c
  BY <1>4, <1>5, <1>6
<1>8. c # Nothing /\ c.reads /\ step.enabled = c.enabled /\ step.text = c.text
  BY <1>1, <1>5
<1> QED BY <1>7, <1>8 DEF step, sight

LEMMA AssetTypeInit == ASSUME AssetAssumptions, AssetInit PROVE AssetTypeOK
BY DEF AssetAssumptions, AssetInit, AssetTypeOK, Scopes

\* A write keeps the category of every path.
LEMMA WriteKeeps ==
  ASSUME AssetTypeOK, NEW scope \in Scopes, NEW path \in Paths, NEW content,
         content = Nothing \/ IsContent(path, content),
         files' = [files EXCEPT ![scope][path] = content]
  PROVE  /\ DOMAIN files' = Scopes
         /\ \A s \in Scopes :
              /\ DOMAIN files'[s] = Paths
              /\ \A p \in Paths : files'[s][p] # Nothing => IsContent(p, files'[s][p])
BY DEF AssetTypeOK

\* Every step keeps the types: a rename stays within its category.
LEMMA AssetTypeStep ==
  ASSUME AssetAssumptions, AssetTypeOK, [AssetNext]_assetVars PROVE AssetTypeOK'
<1> DEFINE FilesOK == /\ DOMAIN files = Scopes
                      /\ \A s \in Scopes :
                           /\ DOMAIN files[s] = Paths
                           /\ \A p \in Paths : files[s][p] # Nothing => IsContent(p, files[s][p])
<1>1. CASE UNCHANGED assetVars
  BY <1>1 DEF assetVars, AssetTypeOK
<1>2. ASSUME NEW p \in Starter, Check(p) PROVE AssetTypeOK'
  <2>1. Loading(System, "global") \in {"loads", "absent", "error"}
    BY DEF Loading
  <2>2. Checked[Loading(System, "global")] \in {"up", "text", "raised"}
    BY <2>1 DEF Checked
  <2> QED BY <1>2, <2>2 DEF Check, AssetTypeOK, Stages
<1>3. ASSUME NEW p \in Starter, Write(p) PROVE AssetTypeOK'
  <2>1. /\ starting[p] \in Stages /\ After(starting[p]) \in Stages \cup {"recheck"}
        /\ Target(starting[p]) \in Paths
        /\ IsContent(Target(starting[p]), Written(starting[p]))
    BY <1>3 DEF Write, Stages, After, Target, Paths, AssetAssumptions
  <2>2. FilesOK'
    BY <1>3, <2>1, WriteKeeps DEF Write, Scopes
  <2> QED BY <1>3, <2>1, <2>2 DEF Write, AssetTypeOK
<1>4. ASSUME NEW p \in Starter, Recheck(p) PROVE AssetTypeOK'
  BY <1>4 DEF Recheck, AssetTypeOK, Stages
<1>5. ASSUME NEW p \in Starter, Crash(p) PROVE AssetTypeOK'
  BY <1>5 DEF Crash, AssetTypeOK, AssetAssumptions
<1>6. ASSUME Edit, FilesOK' PROVE AssetTypeOK'
  BY <1>6 DEF Edit, AssetTypeOK, AssetAssumptions
<1>7. ASSUME NEW scope \in Scopes, NEW path \in Paths, DeleteAsset(scope, path)
      PROVE  AssetTypeOK'
  <2>1. FilesOK'
    BY <1>7, WriteKeeps DEF DeleteAsset
  <2> QED BY <1>6, <1>7, <2>1 DEF DeleteAsset
<1>8. ASSUME NEW scope \in Scopes, NEW path \in Paths, NEW content \in Contents(path),
             WriteAsset(scope, path, content)
      PROVE  AssetTypeOK'
  <2>1. IsContent(path, content)
    BY DEF AssetAssumptions
  <2>2. FilesOK'
    BY <1>8, <2>1, WriteKeeps DEF WriteAsset
  <2> QED BY <1>6, <1>8, <2>2 DEF WriteAsset
<1>9. ASSUME NEW scope \in Scopes, NEW path \in Paths, NEW new \in Paths,
             NEW overwrite \in BOOLEAN, RenameAsset(scope, path, new, overwrite)
      PROVE  AssetTypeOK'
  <2> DEFINE content == files[scope][path]
  <2>1. IsContent(path, content)
    BY <1>9 DEF RenameAsset, AssetTypeOK
  <2>2. IsContent(new, content)
    BY <1>9, <2>1 DEF RenameAsset, IsContent, AssetAssumptions
  <2>3. files' = [files EXCEPT ![scope] = [@ EXCEPT ![new] = content, ![path] = Nothing]]
    BY <1>9 DEF RenameAsset, AssetTypeOK
  <2>4. FilesOK'
    BY <2>2, <2>3 DEF AssetTypeOK
  <2> QED BY <1>6, <1>9, <2>4 DEF RenameAsset
<1>10. ASSUME NEW p \in Starter, NEW w \in Catalog, NEW view \in Scopes, CreateRunOf(p, w, view)
       PROVE  AssetTypeOK'
  BY <1>10 DEF CreateRunOf, AssetTypeOK
<1> QED BY <1>1, <1>2, <1>3, <1>4, <1>5, <1>7, <1>8, <1>9, <1>10 DEF AssetNext

\* The run that is created has only steps that its project sees.
LEMMA CreatedIsSeen ==
  ASSUME AssetAssumptions, AssetTypeOK, NEW p \in Starter, NEW w \in Catalog, NEW view \in Scopes,
         CreateRunOf(p, w, view), NEW i \in DOMAIN run'.steps
  PROVE  LET step == run'.steps[i]
             sight == Overlay(run'.view)
             c == sight[AppliedTo(step.key)]
         IN  /\ step.content = sight[IF step.key \in Texts THEN step.key ELSE step.text]
             /\ c # Nothing /\ c.enabled /\ c.reads
             /\ step.enabled = c.enabled /\ step.text = c.text
<1> DEFINE refs == Expand(w, view).refs
           steps == [k \in DOMAIN Steps(w, view) |-> Applied(Steps(w, view)[k], view)]
<1>1. run'.view = view /\ run'.steps = Enabled(steps)
  BY DEF CreateRunOf
<1>2. i \in DOMAIN steps /\ steps[i].enabled /\ run'.steps[i] = steps[i]
  BY <1>1 DEF Enabled
<1>3. i \in DOMAIN refs /\ steps[i] = Applied(StepOf(refs[i], view), view)
  BY <1>2 DEF Steps
<1>4. Makes(refs[i], view)
  BY <1>3 DEF CreateRunOf, Loading
<1>5. i \in DOMAIN Steps(w, view) /\ Steps(w, view)[i] = StepOf(refs[i], view)
  BY <1>3 DEF Steps
<1>6. Applicable(StepOf(refs[i], view), view)
  BY <1>5 DEF CreateRunOf
<1> HIDE DEF steps, refs
<1> DEFINE step == Applied(StepOf(refs[i], view), view)
           c == Overlay(view)[AppliedTo(step.key)]
<1>7. /\ step.content = Overlay(view)[IF step.key \in Texts THEN step.key ELSE step.text]
      /\ c # Nothing /\ c.reads /\ step.enabled = c.enabled /\ step.text = c.text
  BY <1>4, <1>6, StepIsSeen
<1>8. run'.steps[i] = step /\ run'.view = view /\ step.enabled
  BY <1>1, <1>2, <1>3
<1> QED BY <1>7, <1>8

\* Whatever is deleted, renamed or written, by edits or by a start that a stop or
\* another start interrupts: a process that has started loads the system workflow, and
\* a run is made of enabled steps whose contracts and texts are its project's own,
\* where it has them, and the global ones elsewhere. For a step that stands for a text
\* that is the text's own content, with the settings of the contract of its name.
THEOREM RunsAreOfTheirProject ==
  ASSUME AssetAssumptions PROVE AssetSpec => StartedIsServed
<1> DEFINE Served == \A p \in Starter :
                       starting[p] # "up" /\ starting'[p] = "up" =>
                         Loading(System, "global") = "loads"
           Seen == run' # run =>
                     LET sight == Overlay(run'.view)
                     IN  \A i \in DOMAIN run'.steps :
                           LET step == run'.steps[i]
                               c == sight[AppliedTo(step.key)]
                           IN  /\ step.content =
                                    sight[IF step.key \in Texts THEN step.key ELSE step.text]
                               /\ c # Nothing /\ c.enabled /\ c.reads
                               /\ step.enabled = c.enabled /\ step.text = c.text
<1>1. ASSUME AssetTypeOK, [AssetNext]_assetVars PROVE [Served /\ Seen]_assetVars
  <2> SUFFICES ASSUME AssetNext PROVE Served /\ Seen
    BY <1>1
  <2>1. ASSUME NEW p \in Starter, Check(p) \/ Write(p) \/ Recheck(p) \/ Crash(p)
        PROVE  Served /\ Seen
    <3>1. Seen
      BY <2>1 DEF Check, Write, Recheck, Crash
    <3>2. ASSUME NEW q \in Starter, starting[q] # "up", starting'[q] = "up"
          PROVE  Loading(System, "global") = "loads"
      <4>1. Loading(System, "global") \in {"loads", "absent", "error"}
        BY DEF Loading
      <4>2. Checked[Loading(System, "global")] = "up" => Loading(System, "global") = "loads"
        BY <4>1 DEF Checked
      <4> QED BY <1>1, <2>1, <3>2, <4>2 DEF Check, Write, Recheck, Crash, AssetTypeOK, After
    <3> QED BY <3>1, <3>2
  <2>2. ASSUME UNCHANGED <<starting, run>> PROVE Served /\ Seen
    BY <2>2
  <2>3. ASSUME NEW p \in Starter, NEW w \in Catalog, NEW view \in Scopes, CreateRunOf(p, w, view)
        PROVE  Served /\ Seen
    <3>1. starting' = starting
      BY <2>3 DEF CreateRunOf
    <3>2. Seen
      BY <1>1, <2>3, CreatedIsSeen
    <3> QED BY <3>1, <3>2
  <2> HIDE DEF Served, Seen
  <2>4. Edit => Served /\ Seen
    BY <2>2 DEF Edit
  <2>5. ASSUME NEW scope \in Scopes, NEW path \in Paths,
               \/ DeleteAsset(scope, path)
               \/ \E content \in Contents(path) : WriteAsset(scope, path, content)
               \/ \E new \in Paths, overwrite \in BOOLEAN :
                    RenameAsset(scope, path, new, overwrite)
        PROVE  Served /\ Seen
    BY <2>4, <2>5 DEF DeleteAsset, WriteAsset, RenameAsset
  <2> QED BY <2>1, <2>3, <2>5 DEF AssetNext
<1>2. AssetInit => AssetTypeOK
  BY AssetTypeInit
<1>3. AssetTypeOK /\ [AssetNext]_assetVars => AssetTypeOK'
  BY AssetTypeStep
<1> QED BY <1>1, <1>2, <1>3, PTL DEF AssetSpec, StartedIsServed
=============================================================================
