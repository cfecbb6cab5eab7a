---------------------------- MODULE SqliteStore ----------------------------
(***************************************************************************)
(* app/persistence/sqlite_store.py: the document every service reads and   *)
(* changes, and the tables that are refreshed from it with every commit.   *)
(*                                                                         *)
(* Grain. A transaction is a step (BEGIN IMMEDIATE admits one writer at a  *)
(* time). load_sync and save_sync are two steps, with any other between.   *)
(* Of a run the model has what meets a key of a table: its steps (run,     *)
(* key), its checkpoints and artifacts (run, id), its lock on the project  *)
(* (project) and its events (contents). Tasks are looked up by their id    *)
(* before one is added (task_checkpoints.py:103) and sessions are the keys *)
(* of dictionaries: their rows meet no key, and are left out.              *)
(***************************************************************************)
EXTENDS Naturals, Sequences, SequencesExt

CONSTANTS
  Run, ProjectOf,
  StepList,     \* the keys of the steps of the workflows, in their order; twice
                \* the same where a manifest includes another one twice
  File, IdOf,   \* files of a run's directory, and the ids of their artifacts
  EventKind,    \* events that may be logged, by their contents
  Keep,         \* checkpoints a run keeps: 100
  MaxPasses,    \* bound: how often steps pass
  OneLock,      \* is a run only given the lock when no other has it?
  Nobody

StepKey == UNION {ToSet(list) : list \in StepList}

StoreAssumptions ==
  /\ Keep \in Nat \ {0} /\ MaxPasses \in Nat /\ Nobody \notin Run
  /\ \A list \in StepList : list \in Seq(StepKey)

VARIABLES
  doc,      \* store_documents.state: the record of each run, or NoRun
  table,    \* the projections
  snap,     \* what load_sync returned to somebody who will save it
  passes,   \* how often a step has passed
  refused   \* the tables for which the last update raised, with its run

storeVars == <<doc, table, snap, passes, refused>>

Project == {ProjectOf[r] : r \in Run}
KeyedTable == {"run_steps", "run_artifacts", "checkpoints"}
NoRun == [there |-> FALSE, steps |-> <<>>, cps |-> <<>>, files |-> {},
          lock |-> FALSE, log |-> {}]
NewRun(list) == [NoRun EXCEPT !.there = TRUE, !.steps = list]

-----------------------------------------------------------------------------
(* The projections of a document.                                          *)

\* The tables whose primary key the insertions violate.
Conflicts(rec) ==
  {t \in KeyedTable :
     CASE t = "run_steps"     -> ~IsInjective(rec.steps)
       [] t = "run_artifacts" -> \E f, g \in rec.files : f # g /\ IdOf[f] = IdOf[g]
       [] t = "checkpoints"   -> ~IsInjective(rec.cps)}

\* The rows of a run in these tables.
RowsOf(rec) == [steps |-> ToSet(rec.steps), cps |-> ToSet(rec.cps), files |-> rec.files]

\* DELETE FROM project_locks WHERE run_id=?
Unlocked(t, r) == [p \in Project |-> IF t.lock[p] = r THEN Nobody ELSE t.lock[p]]

\* Mutant: the events that are no longer in the document are deleted first.
MutLogged(t, r, rec) == rec.log \ t.log[r]

\* INSERT OR IGNORE by the hash of the event; nothing is deleted.
Logged(t, r, rec) == t.log[r] \cup rec.log

\* _sync_run_projection, and for a run that is removed its two deletions
SyncRun(t, r, rec) ==
  [runs |-> IF rec.there THEN t.runs \cup {r} ELSE t.runs \ {r},
   rows |-> [t.rows EXCEPT ![r] = RowsOf(rec)],
   lock |-> IF rec.lock THEN [Unlocked(t, r) EXCEPT ![ProjectOf[r]] = r]
            ELSE Unlocked(t, r),
   log  |-> [t.log EXCEPT ![r] = IF rec.there THEN Logged(t, r, rec) ELSE {}]]

NoRows == [runs |-> {}, rows |-> [r \in Run |-> RowsOf(NoRun)],
           lock |-> [p \in Project |-> Nobody], log |-> [r \in Run |-> {}]]

\* _sync_projections: everything is deleted and written again, run by run; a
\* row of a project that has been written already is replaced.
Rebuilt(d) ==
  LET present == {r \in Run : d[r].there}
      Holders(p) == {r \in present : ProjectOf[r] = p /\ d[r].lock}
  IN  [runs |-> present,
       rows |-> [r \in Run |-> RowsOf(IF r \in present THEN d[r] ELSE NoRun)],
       lock |-> [p \in Project |-> IF Holders(p) = {} THEN Nobody
                                   ELSE CHOOSE r \in Holders(p) : TRUE],
       log  |-> [r \in Run |-> IF r \in present THEN d[r].log ELSE {}]]

-----------------------------------------------------------------------------
(* mutate. An update that raises is rolled back, document and tables.      *)

Mutate(r, rec) ==
  /\ refused' = {r} \X Conflicts(rec)
  /\ IF Conflicts(rec) # {} THEN UNCHANGED <<doc, table>>
     ELSE /\ doc' = [doc EXCEPT ![r] = rec]
          /\ table' = IF rec = doc[r] THEN table ELSE SyncRun(table, r, rec)
  /\ UNCHANGED snap

CreateRun(r, list) ==
  /\ ~doc[r].there /\ Mutate(r, NewRun(list))
  /\ UNCHANGED passes

DeleteRun(r) ==
  /\ doc[r].there /\ Mutate(r, NoRun)
  /\ UNCHANGED passes

\* Mutant: the id is that of the step, as for its attempts.
MutPassed(list, k) ==
  LET all == Append(list, <<k, 0>>)
  IN  IF Len(all) > Keep THEN Tail(all) ELSE all

\* _mark_passed: the id has the length of the list, which is cut at Keep.
Passed(list, k) ==
  LET all == Append(list, <<k, Len(list) + 1>>)
  IN  IF Len(all) > Keep THEN Tail(all) ELSE all

Pass(r, k) ==
  /\ doc[r].there /\ k \in ToSet(doc[r].steps) /\ passes < MaxPasses
  /\ Mutate(r, [doc[r] EXCEPT !.cps = Passed(@, k)])
  /\ passes' = passes + 1

\* refresh_run_artifacts: what is in the run's directory by now
Refresh(r, files) ==
  /\ doc[r].there
  /\ Mutate(r, [doc[r] EXCEPT !.files = files])
  /\ UNCHANGED passes

\* write_project_lock and clear_project_lock, in the record of the run
SetLock(r, b) ==
  /\ doc[r].there
  /\ b /\ OneLock => \A o \in Run \ {r} : ProjectOf[o] = ProjectOf[r] => ~doc[o].lock
  /\ Mutate(r, [doc[r] EXCEPT !.lock = b])
  /\ UNCHANGED passes

\* The timeline gets an event, and may lose its oldest.
Log(r, e, old) ==
  /\ doc[r].there
  /\ Mutate(r, [doc[r] EXCEPT !.log = (@ \ old) \cup {e}])
  /\ UNCHANGED passes

\* Startup and shutdown load everything, change the active runs, and save.
LoadAll ==
  /\ snap = <<>> /\ snap' = doc
  /\ UNCHANGED <<doc, table, passes, refused>>

SaveAll ==
  /\ snap # <<>>
  /\ \A r \in Run : Conflicts(snap[r]) = {}
  /\ doc' = [r \in Run |-> [snap[r] EXCEPT !.lock = FALSE]]
  /\ table' = Rebuilt(doc')
  /\ snap' = <<>> /\ refused' = {} /\ UNCHANGED passes

-----------------------------------------------------------------------------
StoreInit ==
  /\ doc = [r \in Run |-> NoRun] /\ table = NoRows
  /\ snap = <<>> /\ passes = 0 /\ refused = {}

StoreNext ==
  \/ \E r \in Run :
       \/ \E list \in StepList : CreateRun(r, list)
       \/ DeleteRun(r)
       \/ \E files \in SUBSET File : Refresh(r, files)
       \/ \E k \in StepKey : Pass(r, k)
       \/ \E b \in BOOLEAN : SetLock(r, b)
       \/ \E e \in EventKind, old \in SUBSET EventKind : Log(r, e, old)
  \/ LoadAll \/ SaveAll

StoreSpec == StoreInit /\ [][StoreNext]_storeVars

-----------------------------------------------------------------------------
(* Properties.                                                             *)

\* Every variable has its type.
StoreTypeOK ==
  LET Checkpoint == StepKey \X (1..Keep + 1) IN
  /\ \A r \in Run :
       /\ DOMAIN doc[r] = {"there", "steps", "cps", "files", "lock", "log"}
       /\ doc[r].lock \in BOOLEAN /\ doc[r].files \subseteq File
       /\ doc[r].there => doc[r].steps \in StepList
       /\ Len(doc[r].cps) <= Keep /\ ToSet(doc[r].cps) \subseteq Checkpoint
       /\ doc[r].log \subseteq EventKind /\ (~doc[r].there => doc[r] = NoRun)
  /\ DOMAIN snap \in {{}, Run} /\ passes \in 0..MaxPasses
  /\ refused \in SUBSET (Run \X KeyedTable)
  /\ DOMAIN table = {"runs", "rows", "lock", "log"} /\ table.runs \subseteq Run
  /\ table.lock \in [Project -> Run \cup {Nobody}]

\* Whoever queries the tables sees the document: the rows of every run are
\* those of its record, though a commit writes only the rows of one run and
\* a save writes all of them from an older document.
RowsAreOfDocument ==
  \A r \in Run :
    /\ r \in table.runs <=> doc[r].there
    /\ table.rows[r] = RowsOf(doc[r])
    /\ doc[r].log \subseteq table.log[r]

\* project_locks names the run that has the lock of a project in its record,
\* as long as one run at a time has it.
LockRowsAreHeld ==
  \A p \in Project :
    table.lock[p] = (IF \E r \in Run : ProjectOf[r] = p /\ doc[r].lock
                     THEN CHOOSE r \in Run : ProjectOf[r] = p /\ doc[r].lock
                     ELSE Nobody)

\* An update of a run is refused for its checkpoints only when their list is as
\* long as it may be, and for its steps only when the run is created. (For its
\* artifacts it is refused whenever two of its files have one id.)
RefusedWhenFull ==
  \A r \in Run : /\ <<r, "checkpoints">> \in refused => Len(doc[r].cps) = Keep
                 /\ <<r, "run_steps">> \in refused => ~doc[r].there

\* All of it: the tables say of every run what its record in the document says,
\* and the table of locks who has the lock, through single updates and a save of
\* the whole document; an update is only refused for a list that is full, for
\* artifacts that share an id, or for a run that could not be created.
TablesAgree == RowsAreOfDocument /\ LockRowsAreHeld /\ RefusedWhenFull

\* "Every commit also refreshes normalized projection tables": an update of a
\* run commits (sqlite_store.py, the class comment).
UpdatesCommit == refused = {}
=============================================================================
