------------------------------- MODULE Assets -------------------------------
(***************************************************************************)
(* The workflow assets: manifests, step contracts and step texts as files  *)
(* of the global asset folder and of a project's own, what an edit through *)
(* the asset API does to them, what a workflow is when a run is created    *)
(* from them, and the start of the server or of the command line, which    *)
(* writes a minimal system workflow when it cannot load the shipped one.   *)
(* Sources: app/services/workflow_asset_service.py,                        *)
(* app/services/workflow_config_service.py, app/main.py.                   *)
(***************************************************************************)
EXTENDS Naturals, FiniteSets, SequencesExt

CONSTANTS
  Starter,       \* the processes that start: the server and the command line
  Answering,     \* the one that answers the asset API
  System,        \* the workflow every start makes sure of
  Workflows,     \* ids of manifests; a run is created from one of Catalog
  Catalog,       \* ALLOWED_WORKFLOW_IDS
  Contracts,     \* paths of contracts
  Texts,         \* paths of step texts
  SpecContract,  \* the contract and
  SpecText,      \* the text that the minimal workflow is written with
  Namesake,      \* of each text: the contract that has its name
  Shipped,       \* the global files of the repository
  Contents(_),   \* what an edit may write to a path
  MaxEdits,      \* edits through the asset API
  MaxStops,      \* processes that stop, in a start or after it
  Nothing        \* what is at a path without a file

Scopes == {"project", "global"}
Paths == Workflows \cup Contracts \cup Texts
Manifest(includes, steps) == [includes |-> includes, steps |-> steps]
Contract(enabled, text) == [enabled |-> enabled, text |-> text, reads |-> TRUE]

\* The minimal system workflow: one step, its text, its contract, and the order
\* in which they are written.
Minimal == Manifest(<<>>, <<SpecContract>>)
Stages == {"text", "contract", "manifest"}
Target(stage) == CASE stage = "text" -> SpecText
                 [] stage = "contract" -> SpecContract
                 [] stage = "manifest" -> System
Written(stage) == CASE stage = "text" -> "concise spec"
                    [] stage = "contract" -> Contract(TRUE, SpecText)
                    [] stage = "manifest" -> Minimal

After(stage) == CASE stage = "text" -> "contract"
                  [] stage = "contract" -> "manifest"
                  [] stage = "manifest" -> "recheck"

\* A contract that is YAML, which is all an edit is asked for, but has a value no
\* step can be made of, as in "retry: often".
Unreadable == [Contract(TRUE, SpecText) EXCEPT !.reads = FALSE]

\* What a file of each category holds; a step text holds any text.
ManifestRec == [includes : Seq(Workflows), steps : Seq(Contracts \cup Texts)]
ContractRec == [enabled : BOOLEAN, text : Texts, reads : BOOLEAN]
IsContent(path, content) ==
  /\ path \in Workflows => content \in ManifestRec
  /\ path \in Contracts => content \in ContractRec
  /\ content # Nothing

AssetAssumptions ==
  /\ Answering \in Starter /\ System \in Catalog /\ Catalog \subseteq Workflows
  /\ SpecContract \in Contracts /\ SpecText \in Texts /\ Namesake \in [Texts -> Contracts]
  /\ Workflows \cap (Contracts \cup Texts) = {} /\ Contracts \cap Texts = {}
  /\ MaxEdits \in Nat /\ MaxStops \in Nat
  /\ DOMAIN Shipped = Paths
  /\ \A path \in Paths : Shipped[path] # Nothing => IsContent(path, Shipped[path])
  /\ \A path \in Paths : \A content \in Contents(path) : IsContent(path, content)
  /\ \A stage \in Stages : IsContent(Target(stage), Written(stage))

VARIABLES
  files,     \* the content of every path in every scope, Nothing when it is absent
  starting,  \* where each process is in its start
  run,       \* the last run created: its workflow, its view and its steps
  edits,     \* edits made so far
  stops      \* processes stopped so far
assetVars == <<files, starting, run, edits, stops>>

\* Where a view looks for a file, first root first: a run of a project with an
\* asset folder, or one that only sees the global files.
Roots(view) == IF view = "project" THEN <<"project", "global">> ELSE <<"global">>

\* resolve_asset_path with scope "auto": the first root that has the file.
Having(path, view) == {i \in DOMAIN Roots(view) : files[Roots(view)[i]][path] # Nothing}
Found(path, view) ==
  LET has == Having(path, view)
  IN  IF has = {} THEN Nothing
      ELSE files[Roots(view)[CHOOSE i \in has : \A j \in has : i <= j]][path]

Broken == [ok |-> FALSE, refs |-> <<>>]

\* The step references of a workflow, its includes first; seen holds the files
\* being expanded, so that including one of them is a cycle.
Expand(workflow, view) ==
  LET expand[w \in Workflows, seen \in SUBSET Workflows] ==
        IF w \in seen \/ Found(w, view) = Nothing THEN Broken
        ELSE LET m == Found(w, view)
                 parts == [i \in DOMAIN m.includes |-> expand[m.includes[i], seen \cup {w}]]
             IN  IF \E i \in DOMAIN parts : ~parts[i].ok THEN Broken
                 ELSE [ok |-> TRUE,
                       refs |-> FlattenSeq([i \in DOMAIN parts |-> parts[i].refs]) \o m.steps]
  IN  expand[workflow, {}]

\* A reference names a contract, or a step text that stands for a plain contract
\* of its own.
ContractFor(ref, view) ==
  IF ref \in Texts
  THEN IF Found(ref, view) = Nothing THEN Nothing ELSE Contract(TRUE, ref)
  ELSE IF ref \in Contracts THEN Found(ref, view) ELSE Nothing

\* Mutant: the text is always the global one.
MutContent(text, view) == files["global"][text]

\* The content of a text is read when the workflow is: Nothing, which is read as
\* empty, when the text is missing.
Content(text, view) == Found(text, view)

StepOf(ref, view) ==
  LET c == ContractFor(ref, view)
  IN  [key |-> ref, enabled |-> c.enabled, text |-> c.text, content |-> Content(c.text, view)]

\* The creation of a run applies the contracts to the steps once more: that of the
\* same name to a step that stands for a text, and the text it names replaces the
\* other, whose content has been read.
AppliedTo(key) == IF key \in Texts THEN Namesake[key] ELSE key

Applicable(step, view) ==
  /\ Found(AppliedTo(step.key), view) # Nothing
  /\ Found(AppliedTo(step.key), view).reads

Applied(step, view) ==
  LET c == Found(AppliedTo(step.key), view)
  IN  [step EXCEPT !.enabled = c.enabled, !.text = c.text]

\* The enabled steps, by their places in the workflow.
Enabled(steps) == [i \in {k \in DOMAIN steps : steps[k].enabled} |-> steps[i]]

Makes(ref, view) ==
  LET c == ContractFor(ref, view)
  IN  c # Nothing /\ c.reads

\* load_workflow_asset: the workflow, an HTTPException ("absent"), or a ValueError
\* ("error") when the first reference that fails has a contract.
Loading(w, view) ==
  LET x == Expand(w, view)
  IN  IF x.ok /\ \A i \in DOMAIN x.refs : Makes(x.refs[i], view) THEN "loads"
      ELSE IF x.ok /\ \E i \in DOMAIN x.refs :
                        /\ ~Makes(x.refs[i], view) /\ ContractFor(x.refs[i], view) # Nothing
                        /\ \A j \in 1..i - 1 : Makes(x.refs[j], view)
           THEN "error" ELSE "absent"

Steps(w, view) ==
  LET refs == Expand(w, view).refs
  IN  [i \in DOMAIN refs |-> StepOf(refs[i], view)]

-----------------------------------------------------------------------------
(* A start is synchronous in its process, but every file is written by     *)
(* itself, so a crash or the other process comes between two of them.      *)
AssetInit ==
  /\ files = [s \in Scopes |-> IF s = "global" THEN Shipped ELSE [p \in Paths |-> Nothing]]
  /\ starting = [p \in Starter |-> "down"]
  /\ run = Nothing
  /\ edits = 0 /\ stops = 0

\* Only an HTTPException is answered by the minimal workflow.
Checked == [loads |-> "up", absent |-> "text", error |-> "raised"]

Check(p) ==
  /\ starting[p] \in {"down", "raised"}
  /\ starting' = [starting EXCEPT ![p] = Checked[Loading(System, "global")]]
  /\ UNCHANGED <<files, run, edits, stops>>

Write(p) ==
  /\ starting[p] \in {"text", "contract", "manifest"}
  /\ files' = [files EXCEPT !["global"][Target(starting[p])] = Written(starting[p])]
  /\ starting' = [starting EXCEPT ![p] = After(@)]
  /\ UNCHANGED <<run, edits, stops>>

\* A workflow that still does not load ends the start with an error.
Recheck(p) ==
  /\ starting[p] = "recheck"
  /\ starting' = [starting EXCEPT ![p] = IF Loading(System, "global") = "loads"
                                         THEN "up" ELSE "down"]
  /\ UNCHANGED <<files, run, edits, stops>>

Crash(p) ==
  /\ starting[p] # "down" /\ stops < MaxStops /\ stops' = stops + 1
  /\ starting' = [starting EXCEPT ![p] = "down"]
  /\ UNCHANGED <<files, run, edits>>

Edit == starting[Answering] = "up" /\ edits < MaxEdits /\ edits' = edits + 1 /\ UNCHANGED <<starting, run, stops>>

WriteAsset(scope, path, content) ==
  /\ Edit
  /\ files' = [files EXCEPT ![scope][path] = content]

DeleteAsset(scope, path) ==
  /\ Edit /\ files[scope][path] # Nothing
  /\ files' = [files EXCEPT ![scope][path] = Nothing]

(* A rename stays within its category and replaces an existing file only   *)
(* when it was asked to; nothing that refers to the old name is changed.   *)
RenameAsset(scope, old, new, overwrite) ==
  /\ Edit /\ files[scope][old] # Nothing /\ old # new
  /\ \E category \in {Workflows, Contracts, Texts} : {old, new} \subseteq category
  /\ files[scope][new] = Nothing \/ overwrite
  /\ files' = [files EXCEPT ![scope][new] = files[scope][old], ![scope][old] = Nothing]

(* A run takes a copy of the enabled steps as they are now.                *)
CreateRunOf(p, w, view) ==
  /\ starting[p] = "up" /\ run = Nothing
  /\ Loading(w, view) = "loads"
  /\ \A i \in DOMAIN Steps(w, view) : Applicable(Steps(w, view)[i], view)
  /\ LET steps == Enabled([i \in DOMAIN Steps(w, view) |-> Applied(Steps(w, view)[i], view)])
     IN  DOMAIN steps # {} /\ run' = [workflow |-> w, view |-> view, steps |-> steps]
  /\ UNCHANGED <<files, starting, edits, stops>>

AssetNext ==
  \/ \E p \in Starter : Check(p) \/ Write(p) \/ Recheck(p) \/ Crash(p)
  \/ \E scope \in Scopes, path \in Paths :
       \/ DeleteAsset(scope, path)
       \/ \E content \in Contents(path) : WriteAsset(scope, path, content)
       \/ \E new \in Paths, overwrite \in BOOLEAN : RenameAsset(scope, path, new, overwrite)
  \/ \E p \in Starter, w \in Catalog, view \in Scopes : CreateRunOf(p, w, view)

AssetSpec == AssetInit /\ [][AssetNext]_assetVars

-----------------------------------------------------------------------------
\* Every variable has its type, and every file holds what its category does.
AssetTypeOK ==
  /\ DOMAIN files = Scopes
  /\ \A s \in Scopes :
       /\ DOMAIN files[s] = Paths
       /\ \A p \in Paths : files[s][p] # Nothing => IsContent(p, files[s][p])
  /\ starting \in [Starter -> Stages \cup {"down", "raised", "recheck", "up"}]
  /\ edits \in 0..MaxEdits /\ stops \in 0..MaxStops

(* What each view sees, stated file by file: the project's own copy where  *)
(* it has one.                                                             *)
Overlay(view) ==
  [p \in Paths |-> IF view = "project" /\ files["project"][p] # Nothing
                   THEN files["project"][p] ELSE files["global"][p]]

(* A process that has started can load the system workflow, whatever a     *)
(* crash or another process did while the minimal one was being written    *)
(* (ensure_system_workflow); and a run is made of what its project sees:   *)
(* its own contracts and texts where it has them, the global ones          *)
(* elsewhere, and for a run without a project only global ones, whatever   *)
(* was edited in which order (resolve_asset_path, read_prompt_files). A    *)
(* step that stands for a text has the content of that text, and the       *)
(* settings of the contract of the same name, without which no run is made.*)
StartedIsServed ==
  [][/\ \A p \in Starter :
          starting[p] # "up" /\ starting'[p] = "up" => Loading(System, "global") = "loads"
     /\ run' # run =>
          LET seen == Overlay(run'.view)
          IN  \A i \in DOMAIN run'.steps :
                LET step == run'.steps[i]
                    c == seen[AppliedTo(step.key)]
                IN  /\ step.content = seen[IF step.key \in Texts THEN step.key ELSE step.text]
                    /\ c # Nothing /\ c.enabled /\ c.reads
                    /\ step.enabled = c.enabled /\ step.text = c.text]_assetVars

(* Edits and stops are finite, and whoever starts a process starts it      *)
(* again: the start then succeeds, from whatever files a stop between two  *)
(* writes, the other process or an edit left, or raises whenever it is     *)
(* tried, for a contract of the workflow that no step can be made of.      *)
AssetFairness ==
  \A p \in Starter : WF_assetVars(Check(p) \/ Write(p) \/ Recheck(p))
AssetFairSpec == AssetSpec /\ AssetFairness
StartsInTheEnd ==
  \A p \in Starter : <>[](starting[p] \in {"up", "raised"})

(* The catalog is read-only: a start does not replace the manifest that    *)
(* the repository ships (upsert_workflow's answer).                        *)
CatalogIsReadOnly ==
  [][\A p \in Starter : starting[p] = "manifest" /\ starting'[p] = "recheck" =>
       files["global"][System] = Nothing]_assetVars
=============================================================================
