----------------------------- MODULE Migrations -----------------------------
(***************************************************************************)
(* app/persistence/migrations.py: a controller that opens the database     *)
(* brings its schema up to date, one transaction per version, and checks   *)
(* it. SQLiteStore._init_db does this in every process, whenever it starts.*)
(*                                                                         *)
(* Grain. A statement outside of a transaction and a transaction are one   *)
(* step each; a process may die between any two.                           *)
(***************************************************************************)
EXTENDS Naturals, FiniteSets, FiniteSetsExt

CONSTANTS
  Controller,    \* controllers that open the database
  Latest,        \* LATEST_SQLITE_SCHEMA_VERSION
  MaxOpenFaults  \* bound: transactions that fail, and crashes

SchemaAssumptions == Latest = 4 /\ MaxOpenFaults \in Nat

VARIABLES
  applied,  \* schema_migrations
  schema,   \* which parts of the schema there are
  data,     \* is there a document in it?
  backups,  \* the versions of which a backup was made
  first,    \* what the database was before anybody opened it, and
            \* whether one process at a time does (alone)
  opening,  \* of each controller: where it is
  todo,     \* of each controller: the versions it found missing and has to apply
  openFaults

schemaVars == <<applied, schema, data, backups, first, opening, todo, openFaults>>

Part == {"documents", "projections", "event_key", "audit"}

\* What verify_schema asks for, and what the migration of a version makes: the
\* third makes the tables of the second where they are missing.
Made(v) == CASE v = 1 -> {"documents"}
             [] v = 2 -> {"projections"}
             [] v = 3 -> {"projections", "event_key"}
             [] v = 4 -> {"audit"}

Version(versions) == Max(versions \cup {0})
GoTo(p, l) == opening' = [opening EXCEPT ![p] = l]
AtWork(p) == opening[p] \in {"read", "migrating", "first"}

-----------------------------------------------------------------------------
Missing(versions) == (1..Latest) \ versions

\* run_migrations up to its first change; a newer database is left alone
Open(p) ==
  /\ opening[p] = "off"
  /\ first.alone => \A q \in Controller : ~AtWork(q)
  /\ todo' = [todo EXCEPT ![p] = Missing(applied)]
  /\ GoTo(p, IF Version(applied) > Latest THEN "refused" ELSE "read")
  /\ UNCHANGED <<applied, schema, data, backups, first, openFaults>>

\* Mutant: a backup of the database as it will be.
MutSaved(p) == IF data THEN {Version(applied) + 1} ELSE {}

\* create_pre_migration_backup, of a database that has more than its own table
Saved(p) == IF todo[p] # {} /\ (data \/ schema # {}) THEN {Version(applied)} ELSE {}

Backup(p) ==
  /\ opening[p] = "read"
  /\ backups' = backups \cup Saved(p)
  /\ GoTo(p, "migrating")
  /\ UNCHANGED <<applied, schema, data, first, todo, openFaults>>

\* ROLLBACK
Failed(v) == UNCHANGED <<applied, schema>>

\* One transaction, versions in order: the version is a primary key, so it is
\* applied once.
Migrate(p) ==
  /\ opening[p] = "migrating" /\ todo[p] # {}
  /\ LET v == Min(todo[p]) IN
     \/ /\ v \notin applied
        /\ applied' = applied \cup {v} /\ schema' = schema \cup Made(v)
        /\ todo' = [todo EXCEPT ![p] = @ \ {v}]
        /\ UNCHANGED <<opening, openFaults>>
     \/ /\ v \in applied \/ openFaults < MaxOpenFaults
        /\ openFaults' = IF v \in applied THEN openFaults ELSE openFaults + 1
        /\ Failed(v) /\ GoTo(p, "failed")
        /\ UNCHANGED todo
  /\ UNCHANGED <<data, backups, first>>

\* verify_schema
Verified == Version(applied) = Latest /\ Part \subseteq schema

\* ... and a look for a document
Finish(p) ==
  /\ opening[p] = "migrating" /\ todo[p] = {}
  /\ GoTo(p, IF ~Verified THEN "failed" ELSE IF data THEN "open" ELSE "first")
  /\ UNCHANGED <<applied, schema, data, backups, first, todo, openFaults>>

\* The first document, by whoever found none: its key is there only once.
InsertFirst(p) ==
  /\ opening[p] = "first"
  /\ \/ /\ ~data
        /\ data' = TRUE /\ GoTo(p, "open")
        /\ UNCHANGED openFaults
     \/ /\ data \/ openFaults < MaxOpenFaults
        /\ openFaults' = IF data THEN openFaults ELSE openFaults + 1
        /\ GoTo(p, "failed")
        /\ UNCHANGED data
  /\ UNCHANGED <<applied, schema, backups, first, todo>>

CutOff(p) ==
  /\ AtWork(p) /\ openFaults < MaxOpenFaults
  /\ openFaults' = openFaults + 1 /\ GoTo(p, "off")
  /\ UNCHANGED <<applied, schema, data, backups, first, todo>>

\* Somebody starts the controller again.
StartAgain(p) ==
  /\ opening[p] \in {"failed", "open"}
  /\ GoTo(p, "off")
  /\ UNCHANGED <<applied, schema, data, backups, first, todo, openFaults>>

-----------------------------------------------------------------------------
\* A database of any release, one before there were versions (with or without
\* the tables of the second), or a newer one.
SchemaInit ==
  /\ \E v \in 0..Latest + 1 :
       /\ applied = 1..v
       /\ \/ schema = UNION {Made(u) : u \in 1..Min({v, Latest})}
          \/ v = 0 /\ schema \in {{"documents"}, {"documents", "projections"}}
  /\ data \in {"documents" \in schema}
  /\ backups = {} /\ first \in [applied : {applied}, data : {data}, alone : BOOLEAN]
  /\ opening = [p \in Controller |-> "off"] /\ todo = [p \in Controller |-> {}]
  /\ openFaults = 0

SchemaNext ==
  \E p \in Controller :
    \/ Open(p) \/ Backup(p) \/ Migrate(p) \/ Finish(p) \/ InsertFirst(p)
    \/ CutOff(p) \/ StartAgain(p)

SchemaSpec == SchemaInit /\ [][SchemaNext]_schemaVars

SchemaMoves(p) ==
  Open(p) \/ Backup(p) \/ Migrate(p) \/ Finish(p) \/ InsertFirst(p) \/ StartAgain(p)

SchemaFairness == \A p \in Controller : WF_schemaVars(SchemaMoves(p))

FairSchemaSpec == SchemaSpec /\ SchemaFairness

-----------------------------------------------------------------------------
(* Properties.                                                             *)

\* Every variable has its type.
SchemaTypeOK ==
  /\ applied \subseteq 1..Latest + 1 /\ schema \subseteq Part /\ data \in BOOLEAN
  /\ backups \subseteq 0..Latest + 1
  /\ DOMAIN first = {"applied", "data", "alone"} /\ first.applied \subseteq applied
  /\ opening \in [Controller -> {"off", "read", "migrating", "first", "failed", "open", "refused"}]
  /\ todo \in [Controller -> SUBSET (1..Latest)]
  /\ openFaults \in 0..MaxOpenFaults

\* A version that is recorded has been made, whoever died or failed meanwhile.
AppliedIsMade == \A v \in applied \cap 1..Latest : Made(v) \subseteq schema

\* Data is only migrated after a backup of what it was.
BackedUpFirst ==
  first.data /\ applied # first.applied => Version(first.applied) \in backups

\* With one at a time, nothing but a fault keeps a controller from its
\* database: no version is applied again, and no first document is inserted
\* beside another.
OnlyFaultsFail ==
  first.alone => \A p \in Controller : opening[p] = "failed" => openFaults > 0

\* All three: what a database must be for a controller that opens it.
SchemaIsSafe == AppliedIsMade /\ BackedUpFirst /\ OnlyFaultsFail

\* Whatever was interrupted, and whoever else migrated: a controller that is
\* started until it works gets its database, unless a newer release owns it.
OpensInTheEnd ==
  \A p \in Controller :
    []<>(opening[p] = "open" \/ first.alone \/ Version(first.applied) > Latest)
=============================================================================
