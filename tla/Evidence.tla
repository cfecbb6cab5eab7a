------------------------------ MODULE Evidence ------------------------------
(***************************************************************************)
(* The evidence a run is declared done by: what its tests and the user's   *)
(* validation script said, in which record, and of which project.          *)
(*                                                                         *)
(*   workflow_runtime/builtin_functions/core.py  run_pytest, final review  *)
(*   workflow_runtime/validation_contract.py     the script and its hash   *)
(*   workflow_runtime/completion_gate.py         evaluate_completion       *)
(*   workflow_runtime/executor.py                what a pass, a recovery   *)
(*                                               and the end persist       *)
(*   services/workflow_service.py                skip, mark passed, retry, *)
(*                                               resume, rollback_task     *)
(*                                                                         *)
(* Grain. A step of the workflow is a step. The steps between these four   *)
(* neither validate nor change the project. A project is a number: each    *)
(* build makes a new one. Records carry the project they are of, which the *)
(* code does not know.                                                     *)
(***************************************************************************)
EXTENDS Naturals, Sequences, FiniteSetsExt

CONSTANTS
  Contracts,  \* the validation contracts runs may have: "required", "optional",
              \* or "none"
  MaxBuilds,  \* bound: builds
  MaxRequests \* bound: requests of the user

EvidenceAssumptions ==
  /\ Contracts \subseteq {"required", "optional", "none"}
  /\ {MaxBuilds, MaxRequests} \subseteq Nat

VARIABLES
  contract, \* of the run, from its creation
  project,  \* the content of the project
  built,    \* how many contents there have been
  script,   \* is the user's script as it was when the run was created?
  mem,      \* validation_results of the executor's run
  kept,     \* validation_results in the store
  artifact, \* output/external-validation-result.md
  steps,    \* the status of each step
  at, mode, \* the step that runs, and one of "runs", "stopped", "done"
  accepted, \* the contents that checkpoints hold
  requests,
  ran,      \* history variable: the executions, in their order
  jumped    \* history variable: the user went past a step that had not passed

evidenceVars == <<contract, project, built, script, mem, kept, artifact, steps, at, mode,
                  accepted, requests, ran, jumped>>

Build == 1
RunTest == 2
External == 3
Final == 4
Step == Build..Final

Nothing == [status |-> "none", of |-> 0]
NoResults == [test |-> Nothing, user |-> Nothing]
Rec(status) == [status |-> status, of |-> project]
OK(r) == r.status = "passed"

-----------------------------------------------------------------------------
\* _status in _PASS and _exit_zero
Succeeded(r) == OK(r)

\* evaluate_completion: automated_tests and user_validation. The file that
\* run_pytest writes, output/test-result.md, has no status line and never passes
\* for a record.
Evident(results) ==
  /\ Succeeded(results.test) \/ Succeeded(results.user)
  /\ IF contract = "required" THEN Succeeded(results.user) \/ OK(artifact)
     ELSE results.user.status \in {"none", "not_configured", "passed"}

\* evaluate_completion: and step_state
Complete(results) == Evident(results) /\ \A s \in Step \ {Final} : steps[s] # "failed"

-----------------------------------------------------------------------------
(* The executor.                                                           *)

Running(s) == mode = "runs" /\ at = s

\* set_step and clear_guard; after the last step _mark_done evaluates what was
\* persisted.
Passes(s, results) ==
  /\ mem' = results /\ kept' = results
  /\ steps' = [steps EXCEPT ![s] = "passed"]
  /\ IF s = Final
     THEN /\ mode' = IF Complete(results) THEN "done" ELSE "stopped"
          /\ UNCHANGED at
     ELSE at' = s + 1 /\ UNCHANGED mode

\* Every one of them has build for its retry target. What the action wrote is
\* gone with the run it wrote it into: the recovery reads the store's.
Recovers(s) ==
  /\ at' = Build /\ UNCHANGED mode
  /\ steps' = [t \in Step |-> "pending"]
  /\ mem' = kept /\ UNCHANGED kept

\* No retry is left. So does the run when the controller is stopped or dies.
Stops(s) ==
  /\ mode' = "stopped" /\ UNCHANGED at
  /\ steps' = [steps EXCEPT ![s] = "failed"]
  /\ mem' = kept /\ UNCHANGED kept

Fails(s) == Recovers(s) \/ Stops(s)

BuildStep ==
  /\ Running(Build) /\ built < MaxBuilds
  /\ built' = built + 1 /\ project' = built'
  /\ \/ Passes(Build, mem) /\ accepted' = accepted \cup {built'}
     \/ Stops(Build) /\ UNCHANGED accepted
  /\ UNCHANGED <<contract, script, artifact, requests, ran, jumped>>

Executed(kind, ok, own) == [kind |-> kind, ok |-> ok, of |-> project, own |-> own]

\* run_pytest
TestStep ==
  /\ Running(RunTest)
  /\ \E ok \in BOOLEAN :
       /\ ran' = Append(ran, Executed("test", ok, TRUE))
       /\ IF ok THEN Passes(RunTest, [mem EXCEPT !.test = Rec("passed")])
          ELSE Fails(RunTest)
  /\ UNCHANGED <<contract, project, built, script, artifact, accepted, requests, jumped>>

\* verify_validation_contract
Verified == script = "own"

\* run_external_validation: no script, one that was changed, or its exit code
ExternalStep ==
  /\ Running(External)
  /\ \/ /\ contract = "none"
        /\ artifact' = Rec("not_configured")
        /\ Passes(External, [mem EXCEPT !.user = Rec("not_configured")])
        /\ UNCHANGED ran
     \/ /\ contract # "none" /\ ~Verified
        /\ artifact' = Rec("blocked")
        /\ Fails(External)
        /\ UNCHANGED ran
     \/ /\ contract # "none" /\ Verified
        /\ \E ok \in BOOLEAN :
             /\ ran' = Append(ran, Executed("user", ok, script = "own"))
             /\ artifact' = Rec(IF ok THEN "passed" ELSE "failed")
             /\ IF ok THEN Passes(External, [mem EXCEPT !.user = Rec("passed")])
                ELSE Fails(External)
  /\ UNCHANGED <<contract, project, built, script, accepted, requests, jumped>>

\* validate_general_auto_final: of the results in memory, and of no step's status
FinalStep ==
  /\ Running(Final)
  /\ IF Evident(mem) THEN Passes(Final, mem) ELSE Fails(Final)
  /\ UNCHANGED <<contract, project, built, script, artifact, accepted, requests, ran, jumped>>

\* An agent edits the script, wherever it is.
Tamper ==
  /\ Running(Build) /\ script = "own" /\ contract # "none"
  /\ script' = "changed"
  /\ UNCHANGED <<contract, project, built, mem, kept, artifact, steps, at, mode, accepted,
                 requests, ran, jumped>>

-----------------------------------------------------------------------------
(* The user, while nobody executes the run.                                *)

Request == mode # "runs" /\ requests < MaxRequests /\ requests' = requests + 1

Unpassed == {s \in Step : steps[s] \in {"pending", "failed", "skipped"}}
FirstUnpassed == IF Unpassed = {} THEN Final ELSE Min(Unpassed)

\* retry_run and resume_run with a step; without one it is the first that has
\* not passed. The executor starts from the store's run.
RunFrom(s) ==
  /\ Request
  /\ mode' = "runs" /\ at' = s /\ mem' = kept
  /\ steps' = [t \in Step |-> IF t >= s THEN "pending" ELSE steps[t]]
  /\ jumped' = (jumped \/ s > FirstUnpassed)
  /\ UNCHANGED <<contract, project, built, script, kept, artifact, accepted, ran>>

\* skip_step and mark_step_passed
Override(s, status) ==
  /\ Request
  /\ steps' = [t \in Step |-> IF t = s THEN status
                              ELSE IF t > s /\ steps[t] = "failed" THEN "pending"
                              ELSE steps[t]]
  /\ jumped' = TRUE
  /\ UNCHANGED <<contract, project, built, script, mem, kept, artifact, at, mode,
                 accepted, ran>>

\* Mutant: the results stay.
MutAfterRollback == kept

\* "A restored filesystem invalidates all later validation evidence."
AfterRollback == NoResults

\* rollback_task: the project is what it was, and so is no step's status.
Rollback(c) ==
  /\ Request /\ c \in accepted
  /\ project' = c
  /\ accepted' = {d \in accepted : d <= c}
  /\ kept' = AfterRollback
  /\ UNCHANGED <<contract, built, script, mem, artifact, steps, at, mode, ran, jumped>>

-----------------------------------------------------------------------------
EvidenceInit ==
  /\ contract \in Contracts
  /\ project = 0 /\ built = 0 /\ script = "own"
  /\ mem = NoResults /\ kept = NoResults /\ artifact = Nothing
  /\ steps = [s \in Step |-> "pending"] /\ at = Build /\ mode = "runs"
  /\ accepted = {} /\ requests = 0 /\ ran = <<>> /\ jumped = FALSE

EvidenceNext ==
  \/ BuildStep \/ TestStep \/ ExternalStep \/ FinalStep \/ Tamper
  \/ \E s \in Step : RunFrom(s) \/ \E status \in {"skipped", "passed"} : Override(s, status)
  \/ \E c \in accepted : Rollback(c)

EvidenceSpec == EvidenceInit /\ [][EvidenceNext]_evidenceVars

-----------------------------------------------------------------------------
(* Properties, in terms of what was executed and not of the records.       *)

\* Every variable has its type.
EvidenceTypeOK ==
  LET Record == [status : {"none", "passed", "failed", "blocked", "not_configured"},
                 of : 0..MaxBuilds]
  IN
  /\ contract \in Contracts /\ project \in 0..built /\ built \in 0..MaxBuilds
  /\ script \in {"own", "changed"}
  /\ {mem, kept} \subseteq [test : Record, user : Record] /\ artifact \in Record
  /\ steps \in [Step -> {"pending", "passed", "failed", "skipped"}]
  /\ at \in Step /\ mode \in {"runs", "stopped", "done"}
  /\ accepted \subseteq 1..built /\ requests \in 0..MaxRequests /\ jumped \in BOOLEAN
  /\ ran \in Seq([kind : {"test", "user"}, ok : BOOLEAN, of : 0..MaxBuilds, own : BOOLEAN])

Done == mode # "done" /\ mode' = "done"

\* A run that becomes done without anybody going past a step was tested with
\* the project it is done with, whatever was rolled back, restarted or failed
\* before: by its tests, and by the user's script where that is required.
DoneIsTested ==
  [][Done /\ ~jumped =>
       /\ \E i \in DOMAIN ran : ran[i].ok /\ ran[i].of = project
       /\ contract = "required" =>
            \E i \in DOMAIN ran :
              ran[i].kind = "user" /\ ran[i].ok /\ ran[i].of = project]_evidenceVars

\* Whatever steps the user skips, marks or starts from, no run becomes done of
\* which neither the tests nor the user's script ever succeeded.
NothingIsDoneUntried == [][Done => \E i \in DOMAIN ran : ran[i].ok]_evidenceVars

\* A required script that agents have changed is never what a run is done by.
DoneByOwnScript ==
  [][Done /\ contract = "required" =>
       \E i \in DOMAIN ran : ran[i].kind = "user" /\ ran[i].ok /\ ran[i].own]_evidenceVars

\* The three together: what a run that is done is done by.
DoneIsEarned == DoneIsTested /\ NothingIsDoneUntried /\ DoneByOwnScript

\* "Evaluate the non-bypassable production completion contract" and "Required
\* validators need an executed result with exit code 0" (completion_gate.py): no
\* run becomes done with a project whose tests were run and only ever failed.
NonBypassable ==
  [][Done => LET mine == {i \in DOMAIN ran : ran[i].kind = "test" /\ ran[i].of = project}
             IN  mine # {} => \E i \in mine : ran[i].ok]_evidenceVars
=============================================================================
