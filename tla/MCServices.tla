----------------------------- MODULE MCServices -----------------------------
(***************************************************************************)
(* What the controllers of the other runs rest on, one instance after      *)
(* another: part says which of them this behaviour is about, and the       *)
(* variables of the others keep their first values.                        *)
(*   store    SqliteStore: two runs of one project, the first passes its   *)
(*            steps and has artifacts, the second logs events              *)
(*   schema   Migrations: two controllers open a database of any release   *)
(*   file     StoreLock: the store as a file, two of three processes die    *)
(*   chats    Chat: two calls, two requests, resets and deletions          *)
(*   retries  RetryGuard: two steps, three messages                        *)
(*   assets   Assets: two starts, edits of the shipped files until a run   *)
(*            is created                                                   *)
(***************************************************************************)
EXTENDS Chat, StoreLock, Migrations, SqliteStore, RetryGuard, Assets, Integers, Sequences, TLC

CONSTANTS r1, r2, project

VARIABLE part

allVars == <<part, vars, storeVars, schemaVars, fileVars, retryVars, assetVars>>

ProjectOfRuns == r1 :> project @@ r2 :> project
Lists == {<<"build">>, <<"build", "build">>}
Ids == [f \in File |-> "a|b"]

Failing(words, task) == [words |-> words, task |-> task]
Messages == {Failing({"pytest"}, "T1"), Failing({"timed out"}, "T1"),
             Failing({"invalid json", "replan_required"}, "")}
RetryTargets == <<1, 2>>
Planner == <<1, 1>>
SmallBudget == [total |-> 4, step |-> 3, task |-> 3, class |-> 4, same |-> 3, fresh |-> 3]

Repository == [path \in {"gen", "scan", "build.yaml", "spec.yaml", "build.md", "spec.md"} |->
  CASE path = "gen" -> Manifest(<<>>, <<"build.yaml">>)
    [] path = "scan" -> Manifest(<<>>, <<"build.md">>)
    [] path = "build.yaml" -> Contract(TRUE, "build.md")
    [] path = "build.md" -> "shipped"
    [] OTHER -> Nothing]
NamesOf == "build.md" :> "build.yaml" @@ "spec.md" :> "spec.yaml"
Edited(path) ==
  CASE path = "gen" -> {Manifest(<<"scan", "scan">>, <<"build.yaml">>)}
    [] path = "scan" -> {Manifest(<<"gen">>, <<>>), Manifest(<<>>, <<"spec.yaml">>)}
    [] path \in {"build.yaml", "spec.yaml"} ->
         {Contract(FALSE, "build.md"), Contract(TRUE, "spec.md"), Unreadable}
    [] OTHER -> {"edited"}

ASSUME StoreAssumptions /\ SchemaAssumptions /\ FileAssumptions
ASSUME RetryAssumptions /\ AssetAssumptions

-----------------------------------------------------------------------------
AllInit ==
  /\ part \in {"store", "schema", "file", "chats", "retries", "assets"}
  /\ StoreInit /\ SchemaInit /\ FileInit /\ Init /\ RetryInit /\ AssetInit
  /\ part # "schema" => first = [applied |-> {}, data |-> FALSE, alone |-> TRUE] /\ schema = {}

AllNext ==
  /\ UNCHANGED part
  /\ \/ /\ part = "store" /\ StoreNext 
        /\ doc'[r1].log = {} /\ doc'[r2].files = {} /\ doc'[r2].cps = <<>>
        /\ UNCHANGED <<schemaVars, fileVars, vars, retryVars, assetVars>>
     \/ /\ part = "schema" /\ SchemaNext
        /\ UNCHANGED <<storeVars, fileVars, vars, retryVars, assetVars>>
     \/ /\ part = "file" /\ FileNext
        /\ UNCHANGED <<storeVars, schemaVars, vars, retryVars, assetVars>>
     \/ /\ part = "chats" /\ Next
        /\ UNCHANGED <<storeVars, schemaVars, fileVars, retryVars, assetVars>>
     \/ /\ part = "retries" /\ RetryNext
        /\ UNCHANGED <<storeVars, schemaVars, fileVars, vars, assetVars>>
     \/ /\ part = "assets" /\ AssetNext /\ (run # Nothing => edits' = edits)
        /\ UNCHANGED <<storeVars, schemaVars, fileVars, vars, retryVars>>

\* Every part has the fairness its module states; a part that is not run has
\* none to ask.
AllSpec ==
  /\ AllInit /\ [][AllNext]_allVars
  /\ \A p \in Controller : WF_schemaVars(part = "schema" /\ SchemaMoves(p))
  /\ \A p \in Process : WF_fileVars(part = "file" /\ (FileMoves(p) \/ Die(p)))
  /\ WF_fileVars(part = "file" /\ Age)
  /\ WF_retryVars(part = "retries" /\ StepEnds)
  /\ \A p \in Starter : WF_assetVars(part = "assets" /\ (Check(p) \/ Write(p) \/ Recheck(p)))

-----------------------------------------------------------------------------
(* TablesAgree is of SqliteStore, SchemaIsSafe of Migrations, FileIsSafe of *)
(* StoreLock, AnsweredOnce and AgentKnowsTheChat of Chat, BudgetsHold of    *)
(* RetryGuard, StartedIsServed of Assets; the other is that of all.        *)

\* Every variable has its type.
PartsTypeOK ==
  /\ StoreTypeOK
  /\ SchemaTypeOK
  /\ FileTypeOK
  /\ TypeOK
  /\ RetryTypeOK
  /\ AssetTypeOK

\* A waiting service comes through in the end: a controller that is started until
\* it works gets its database, through faults and other controllers, unless a
\* newer release owns it; the locks dead processes left do not keep the others
\* out; however its steps fail, a run ends; starts that are repeated succeed, or
\* raise whenever they are tried, for a contract that no step can be made of.
ServedInTheEnd ==
  /\ \A p \in Controller :
       []<>(part = "schema" =>
              opening[p] = "open" \/ first.alone \/ Version(first.applied) > Latest)
  /\ \A p \in Process \ Crasher :
       []<>(part = "file" => pc[p] = "idle" /\ NextUpdate(p)[2] > MaxUpdates)
  /\ []<>(part = "retries" => mode # "runs")
  /\ \A p \in Starter : <>[](part = "assets" => starting[p] \in {"up", "raised"})
=============================================================================
