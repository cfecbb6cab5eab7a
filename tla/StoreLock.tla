----------------------------- MODULE StoreLock ------------------------------
(***************************************************************************)
(* app/persistence/json_store.py: the store as a file, and the lock file   *)
(* that keeps processes apart while they load, change and save it.         *)
(*                                                                         *)
(* Grain. One system call on the lock file is a step; so are the load and  *)
(* the save. What is in the store is which updates it has.                 *)
(***************************************************************************)
EXTENDS Naturals, FiniteSets

CONSTANTS
  Process,     \* processes that each make one update at a time
  MaxUpdates,  \* bound: updates of a process
  Crasher,     \* processes that may die
  Slow,        \* may a holder take longer than the 60 s of _stale_lock_sec?
  NoProcess

FileAssumptions == MaxUpdates \in Nat /\ Slow \in BOOLEAN /\ NoProcess \notin Process

VARIABLES
  lock,     \* the lock file: who made it, whose pid is in it, is it older than 60 s?
  store,    \* the updates in the file
  pc, seen, \* of each process: where, and the store as it loaded it
  done,     \* updates that returned
  together  \* has a waiter found a lock stale that another one was about to unlink?

fileVars == <<lock, store, pc, seen, done, together>>

NoLock == [there |-> FALSE, by |-> NoProcess, pid |-> NoProcess, old |-> FALSE]
Critical == {"loading", "saving"}
StepTo(p, l) == pc' = [pc EXCEPT ![p] = l]
Alive(p) == pc[p] # "dead"
NextUpdate(p) == <<p, Cardinality({u \in done : u[1] = p}) + 1>>

-----------------------------------------------------------------------------
\* os.open with O_CREAT and O_EXCL
Create(p) ==
  /\ pc[p] = "idle" /\ NextUpdate(p)[2] <= MaxUpdates /\ ~lock.there
  /\ lock' = [NoLock EXCEPT !.there = TRUE, !.by = p]
  /\ StepTo(p, "created") /\ UNCHANGED <<store, seen, done, together>>

\* ... and then the pid is written, into the file that was opened
WritePid(p) ==
  /\ pc[p] = "created"
  /\ lock' = IF lock.by = p THEN [lock EXCEPT !.pid = p] ELSE lock
  /\ StepTo(p, "loading") /\ UNCHANGED <<store, seen, done, together>>

\* Mutant: a lock without a pid belongs to nobody.
MutReclaimable == \/ lock.pid = NoProcess
                  \/ lock.pid # NoProcess /\ ~Alive(lock.pid)
                  \/ lock.old

\* Mutant: only a lock whose holder is dead.
MutReclaimableDead == lock.pid # NoProcess /\ ~Alive(lock.pid)

\* _lock_can_be_reclaimed
Reclaimable == \/ lock.pid # NoProcess /\ ~Alive(lock.pid)
               \/ lock.old

\* A waiter looks, and unlinks by the path afterwards.
FindStale(p) ==
  /\ pc[p] = "idle" /\ NextUpdate(p)[2] <= MaxUpdates
  /\ lock.there /\ Reclaimable
  /\ together' = (together \/ \E q \in Process : pc[q] = "reclaiming")
  /\ StepTo(p, "reclaiming") /\ UNCHANGED <<lock, store, seen, done>>

Reclaim(p) ==
  /\ pc[p] = "reclaiming"
  /\ lock' = NoLock
  /\ StepTo(p, "idle") /\ UNCHANGED <<store, seen, done, together>>

Load(p) ==
  /\ pc[p] = "loading"
  /\ seen' = [seen EXCEPT ![p] = store]
  /\ StepTo(p, "saving") /\ UNCHANGED <<lock, store, done, together>>

\* save_sync replaces the file, and then the finally clause unlinks the lock.
Save(p) ==
  /\ pc[p] = "saving"
  /\ store' = seen[p] \cup {NextUpdate(p)}
  /\ StepTo(p, "leaving") /\ UNCHANGED <<lock, seen, done, together>>

Leave(p) ==
  /\ pc[p] = "leaving"
  /\ lock' = NoLock
  /\ done' = done \cup {NextUpdate(p)}
  /\ StepTo(p, "idle") /\ UNCHANGED <<store, seen, together>>

Age ==
  /\ lock.there /\ ~lock.old
  /\ Slow \/ \A p \in Process : pc[p] \notin Critical \cup {"created", "leaving"}
  /\ lock' = [lock EXCEPT !.old = TRUE]
  /\ UNCHANGED <<store, pc, seen, done, together>>

Die(p) ==
  /\ p \in Crasher /\ Alive(p)
  /\ StepTo(p, "dead") /\ UNCHANGED <<lock, store, seen, done, together>>

-----------------------------------------------------------------------------
FileInit ==
  /\ lock = NoLock /\ store = {} /\ done = {} /\ together = FALSE
  /\ pc = [p \in Process |-> "idle"] /\ seen = [p \in Process |-> {}]

FileMoves(p) == \/ Create(p) \/ WritePid(p) \/ FindStale(p) \/ Reclaim(p)
            \/ Load(p) \/ Save(p) \/ Leave(p)

FileNext ==
  \/ \E p \in Process : FileMoves(p) \/ Die(p)
  \/ Age

FileSpec == FileInit /\ [][FileNext]_fileVars

\* Processes go on or die, and time passes. A waiter gives up after
\* 600 s, ten times the age at which it reclaims a lock: it does not here.
FileFairness == (\A p \in Process : WF_fileVars(FileMoves(p) \/ Die(p))) /\ WF_fileVars(Age)

FairFileSpec == FileSpec /\ FileFairness

-----------------------------------------------------------------------------
(* Properties.                                                             *)

\* Every variable has its type.
FileTypeOK ==
  LET Update == Process \X (1..MaxUpdates) IN
  /\ lock \in [there : BOOLEAN, by : Process \cup {NoProcess},
               pid : Process \cup {NoProcess}, old : BOOLEAN]
  /\ (~lock.there => lock = NoLock)
  /\ pc \in [Process -> {"idle", "created", "loading", "saving", "leaving",
                         "reclaiming", "dead"}]
  /\ together \in BOOLEAN
  /\ {store, done} \subseteq SUBSET Update /\ seen \in [Process -> SUBSET Update]

\* One process at a time is between the load and the save.
OneInside == Cardinality({p \in Process : pc[p] \in Critical}) <= 1

\* An update that returned is in the store, whoever wrote it since.
NothingIsLost == done \subseteq store

\* Both, for whoever waits for a lock and whoever has it, when processes die with
\* the lock or on the way to unlink one, and as long as no two waiters have found
\* the same lock stale: the second then unlinks by its path whatever is there.
FileIsSafe == ~together => OneInside /\ NothingIsLost

\* What a process that died left behind, with or without its pid in it, does
\* not keep the others out: they make all of their updates.
DeadHolderPasses ==
  \A p \in Process \ Crasher : []<>(pc[p] = "idle" /\ NextUpdate(p)[2] > MaxUpdates)
=============================================================================
