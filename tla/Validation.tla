----------------------------- MODULE Validation -----------------------------
(***************************************************************************)
(* Which phases validate a project, who has seen them pass, and what a run *)
(* is allowed to deliver because of it.                                    *)
(*                                                                         *)
(*   workflow_runtime/project_validation_profile.py  the profile on disk   *)
(*   workflow_runtime/validators/plan.py     its execution, the baseline   *)
(*   workflow_runtime/autopilot_preflight.py the baseline of a run         *)
(*   workflow_runtime/autopilot_policy.py    what is delivered             *)
(*   services/workflow_service.py            creation, partial validation  *)
(*                                                                         *)
(* Grain. A phase is a record; executing one gives the identifiers of what *)
(* failed in it, reruns of flaky tests, timeouts and missing commands      *)
(* included. Build descriptors are a version number.                       *)
(***************************************************************************)
EXTENDS Naturals, FiniteSets

CONSTANTS
  Plans,     \* sets of phases [id, category, required] users may confirm
  Markers,   \* what is found in each version of the descriptors
  Failures,  \* what one execution of a phase may fail in: sets of identifiers
  Call,      \* verifications
  Alone,     \* does nobody edit descriptors or profile while something validates?
  MaxEdits,  \* bound: versions of the descriptors
  MaxRetries, \* bound: retries of the run
  None

PhasesAssumptions ==
  /\ Alone \in BOOLEAN /\ {MaxEdits, MaxRetries} \subseteq Nat
  /\ \A p \in UNION Plans : DOMAIN p = {"id", "category", "required"} /\ p.required \in BOOLEAN
  /\ DOMAIN Markers = 0..MaxEdits

VARIABLES
  descriptors, \* the version of the project's build files
  profile,     \* None or [plan, status, fp] in the profile's file
  verification, \* what each verification has loaded
  run,         \* the unattended run
  seen         \* history variable: what passed since descriptors changed, [plan, of]

phaseVars == <<descriptors, profile, verification, run, seen>>

BaselineCategories == {"build", "test", "configuration", "syntax"}
FastCategories == {"build", "focused_test", "syntax", "configuration"}

-----------------------------------------------------------------------------
(* Executing a plan.                                                       *)

Phase(id, category, required) == [id |-> id, category |-> category, required |-> required]

\* primary_validator: the project's own command, else the first language
Primary(markers) ==
  CASE "custom" \in markers -> "custom" [] "python" \in markers -> "python"
    [] "maven" \in markers -> "maven"   [] "gradle" \in markers -> "gradle"
    [] "dotnet" \in markers -> "dotnet" [] "node" \in markers -> "node"
    [] OTHER -> "none"

\* The checks of a language; those of a Node project are its package's scripts.
Checks(primary, markers) ==
  CASE primary = "custom" -> {Phase("custom", "custom", TRUE)}
    [] primary = "none" -> {}
    [] primary = "node" /\ {"build", "test", "lint"} \cap markers # {} ->
         {Phase(c, c, c # "lint") : c \in {x \in {"build", "test", "lint"} : x \in markers}}
    [] primary = "node" -> {Phase("test", "test", TRUE)}
    [] OTHER -> {Phase("build", "build", TRUE), Phase("test", "test", TRUE)}
                \cup {Phase("lint", "lint", FALSE) : x \in markers \cap {"lint"}}

\* build_validation_plan, with the optional checks of other files
DetectedIn(d) ==
  LET markers == Markers[d]
  IN  Checks(Primary(markers), markers)
        \cup {Phase(x, "syntax", FALSE) : x \in markers \cap {"yaml", "xml", "sql"}}
        \cup {Phase(x, "configuration", FALSE) : x \in markers \cap {"docker", "kubernetes"}}

\* A profile without phases is as good as none: the plan is detected.
PlanOf(prof, d) == IF prof.plan = {} THEN DetectedIn(d) ELSE prof.plan

Chosen(plan, categories) == {p \in plan : p.category \in categories}

RequiredFailures(plan, fails) == {p \in plan : p.required /\ fails[p.id] # {}}

Tolerated(p, fails, base) ==
  p \in base.plan /\ base.fails[p.id] # {} /\ fails[p.id] \subseteq base.fails[p.id]

\* execute_validation_plan without fail_fast
Status(plan, fails, base) ==
  LET failed == RequiredFailures(plan, fails)
  IN  IF failed # {}
      THEN IF base # None /\ \A p \in failed : base.plan # {} /\ Tolerated(p, fails, base)
           THEN "passed_with_baseline" ELSE "failed"
      ELSE IF \E p \in plan : fails[p.id] = {} THEN "passed" ELSE "skipped"

Outcomes(plan) == [{p.id : p \in plan} -> Failures]

-----------------------------------------------------------------------------
(* The profile.                                                            *)

\* "verified", and "trusted" after three of them: nothing tells the two apart.
Trusted(status) == status = "verified"

Draft(plan) == [plan |-> plan, status |-> "draft", fp |-> descriptors]

\* load_profile, which creates the file when there is none
Loaded ==
  IF profile = None THEN Draft(DetectedIn(descriptors))
  ELSE IF profile.fp # descriptors THEN [profile EXCEPT !.status = "stale"] ELSE profile
Load == profile' = IF profile = None THEN Loaded ELSE profile

\* record_profile_verification: into what was loaded, with the fingerprint of now
Recorded(prof, status) ==
  [prof EXCEPT !.status = IF status \in {"passed", "passed_with_baseline"} THEN "verified" ELSE "draft",
               !.fp = descriptors]

Validating == run.at = "preflight" \/ \E c \in Call : verification[c] # None
\* Bound: the file and the run, which has its own copy of the profile, are not
\* followed together beyond the end of the run.
Followed == run.at \notin {"delivered", "refused", "review"}
MayEdit == Followed /\ (Alone => ~Validating)

EditDescriptors ==
  /\ MayEdit /\ descriptors < MaxEdits
  /\ descriptors' = descriptors + 1
  /\ seen' = {}
  /\ UNCHANGED <<profile, verification, run>>

Refresh ==
  /\ MayEdit
  /\ profile' = Draft(DetectedIn(descriptors))
  /\ UNCHANGED <<descriptors, verification, run, seen>>

Updated(plan) == [Loaded EXCEPT !.plan = plan, !.status = "draft", !.fp = descriptors]

Update(plan) ==
  /\ MayEdit
  /\ profile' = Updated(plan)
  /\ UNCHANGED <<descriptors, verification, run, seen>>

\* verify_profile
VerifyBegins(c) ==
  /\ verification[c] = None /\ Followed
  /\ verification' = [verification EXCEPT ![c] = Loaded]
  /\ Load
  /\ UNCHANGED <<descriptors, run, seen>>

Seen(plan, of, status) ==
  seen' = IF status = "passed" THEN seen \cup {[plan |-> plan, of |-> of]} ELSE seen

VerifyEnds(c) ==
  /\ verification[c] # None /\ Followed
  /\ LET plan == PlanOf(verification[c], descriptors)
     IN  \E fails \in Outcomes(plan) :
           LET status == Status(plan, fails, None)
           IN  profile' = Recorded(verification[c], status) /\ Seen(plan, descriptors, status)
  /\ verification' = [verification EXCEPT ![c] = None]
  /\ UNCHANGED <<descriptors, run>>

-----------------------------------------------------------------------------
(* The run. at: "none", "created", "preflight", "works", "failed",         *)
(* "delivered", "refused", "review".                                       *)

NoRun == [at |-> "none", full |-> FALSE, atomic |-> TRUE, profile |-> None,
          loaded |-> None, base |-> None,
          env |-> TRUE, copied |-> 0, tries |-> 0, jumped |-> FALSE,
          fails |-> None, evidence |-> None]

CreateRun(full) ==
  /\ run.at = "none"
  /\ run' = [NoRun EXCEPT !.at = "created", !.full = full, !.profile = Loaded, !.copied = descriptors]
  /\ Load
  /\ UNCHANGED <<descriptors, verification, seen>>

\* A preflight that was persisted is not repeated, whatever it found.
BeginPreflight ==
  /\ run.at = "created"
  /\ IF run.base # None THEN run' = [run EXCEPT !.at = "works"] /\ UNCHANGED profile
     ELSE run' = [run EXCEPT !.at = "preflight", !.loaded = Loaded] /\ Load
  /\ UNCHANGED <<descriptors, verification, seen>>

Downgraded(ready) == run.atomic /\ ready

\* The phases run in the copy of the project, and of the profile's categories.
EndPreflight ==
  /\ run.at = "preflight"
  /\ LET plan == Chosen(PlanOf(run.loaded, run.copied), BaselineCategories)
     IN  \E fails \in Outcomes(plan), env \in BOOLEAN :
           LET status == Status(plan, fails, None)
               prof == IF plan = {} THEN run.loaded ELSE Recorded(run.loaded, status)
               ready == plan # {} /\ status = "passed" /\ Trusted(prof.status)
           IN  /\ profile' = IF plan = {} THEN profile ELSE prof
               /\ Seen(plan, run.copied, status)
               /\ run' = [run EXCEPT !.at = IF env THEN "works" ELSE "failed", !.env = env,
                                     !.profile = prof, !.loaded = None, !.base = [plan |-> plan, fails |-> fails],
                                     !.atomic = Downgraded(ready)]
  /\ UNCHANGED <<descriptors, verification>>

\* The controller is stopped while the phases run.
Interrupted ==
  /\ run.at = "preflight"
  /\ run' = [run EXCEPT !.at = "failed", !.loaded = None]
  /\ UNCHANGED <<descriptors, profile, verification, seen>>

\* retry_run from the first step, or a later one
Retry(later) ==
  /\ run.at = "failed" /\ run.tries < MaxRetries
  /\ run' = [run EXCEPT !.at = IF later THEN "works" ELSE "created", !.tries = @ + 1,
                        !.jumped = @ \/ later]
  /\ UNCHANGED <<descriptors, profile, verification, seen>>

\* Mutant: phases that nobody requires are evidence, too.
MutMeasured(plan, fails, status) ==
  plan # {} /\ RequiredFailures(plan, fails) = {} /\ status \in {"passed", "passed_with_baseline"}

Measured(plan, fails, status) ==
  /\ \E p \in plan : p.required
  /\ RequiredFailures(plan, fails) = {}
  /\ status \in {"passed", "passed_with_baseline"}

\* evaluate_delivery_validation
MayDeliver(plan, fails, status) ==
  /\ run.atomic /\ Measured(plan, fails, status)
  /\ run.profile.status \notin {"draft", "stale"}
  /\ run.full => run.env /\ run.base # None /\ Trusted(run.profile.status)

\* deliver_isolated_changes after the last step: refused ones are rolled back.
Deliver ==
  /\ run.at = "works" /\ run.atomic
  /\ LET plan == Chosen(PlanOf(run.profile, descriptors), FastCategories)
     IN  \E fails \in Outcomes(plan) :
           LET status == Status(plan, fails, run.base)
           IN  run' = [run EXCEPT !.fails = fails, !.at = IF MayDeliver(plan, fails, status)
                                                          THEN "delivered" ELSE "refused"]
  /\ UNCHANGED <<descriptors, profile, verification, seen>>

Finish ==
  /\ run.at = "works" /\ ~run.atomic
  /\ run' = [run EXCEPT !.at = "review"]
  /\ UNCHANGED <<descriptors, profile, verification, seen>>

\* validate_patch_selection: all categories, against the run's baseline
ValidateSelection ==
  /\ run.at = "review"
  /\ LET plan == PlanOf(run.profile, descriptors)
     IN  \E fails \in Outcomes(plan) :
           run' = [run EXCEPT !.evidence = [plan |-> plan, fails |-> fails,
                                            status |-> Status(plan, fails, run.base)]]
  /\ UNCHANGED <<descriptors, profile, verification, seen>>

-----------------------------------------------------------------------------
PhasesInit ==
  /\ descriptors = 0 /\ profile = None /\ run = NoRun /\ seen = {}
  /\ verification = [c \in Call |-> None]

PhasesNext ==
  \/ EditDescriptors \/ Refresh
  \/ \E plan \in Plans : Update(plan)
  \/ \E c \in Call : VerifyBegins(c) \/ VerifyEnds(c)
  \/ \E full \in BOOLEAN : CreateRun(full)
  \/ BeginPreflight \/ EndPreflight \/ Interrupted
  \/ \E later \in BOOLEAN : Retry(later)
  \/ Deliver \/ Finish \/ ValidateSelection

PhasesSpec == PhasesInit /\ [][PhasesNext]_phaseVars

-----------------------------------------------------------------------------
(* Properties.                                                             *)

AnyPhase == (UNION Plans) \cup (UNION {DetectedIn(d) : d \in 0..MaxEdits})
AnyOutcome == UNION {[ids -> Failures] : ids \in SUBSET {p.id : p \in AnyPhase}}

Profile == [plan : SUBSET AnyPhase, status : {"draft", "stale", "verified"}, fp : 0..MaxEdits]
Baseline == [plan : SUBSET AnyPhase, fails : AnyOutcome]
Selection == [plan : SUBSET AnyPhase, fails : AnyOutcome,
              status : {"passed", "passed_with_baseline", "failed", "skipped"}]

NothingIsNone == None \notin Profile \cup Baseline \cup Selection

\* Every variable has its type.
PhasesTypeOK ==
  /\ descriptors \in 0..MaxEdits /\ profile \in Profile \cup {None}
  /\ verification \in [Call -> Profile \cup {None}]
  /\ run \in [at : {"none", "created", "preflight", "works", "failed", "delivered",
                    "refused", "review"},
              full : BOOLEAN, atomic : BOOLEAN, profile : Profile \cup {None},
              loaded : Profile \cup {None}, base : Baseline \cup {None}, env : BOOLEAN,
              copied : 0..MaxEdits, tries : 0..MaxRetries, jumped : BOOLEAN,
              fails : AnyOutcome \cup {None}, evidence : Selection \cup {None}]
  /\ run.at # "none" => run.profile # None
  /\ run.at = "preflight" => run.loaded # None

\* A profile that counts as verified has phases that passed since the build
\* files were edited last, all or those of the baseline's categories: with the
\* files the project has now or, in the preflight of a run, with those of its
\* copy, which the code takes for the project's however old the copy is.
VerifiedAsItIs ==
  profile # None /\ Trusted(Loaded.status) =>
    \E s \in seen :
      LET plan == PlanOf(profile, s.of)
      IN  /\ s.of = descriptors \/ (run.base # None /\ s.of = run.copied)
          /\ s.plan \in {plan, Chosen(plan, BaselineCategories)}

\* Not checked, and not so: a preflight of an old copy records as verified the
\* build files that were edited since the run was created.
VerifiedWithTheFilesOfNow ==
  profile # None /\ Trusted(Loaded.status) => \E s \in seen : s.of = descriptors

\* A run delivers only what it has measured before and after: its own baseline
\* passed, and so did required phases on the project with its changes. Going past
\* the preflight by starting from a later step is the user's decision.
DeliveredIsValidated ==
  run.at = "delivered" /\ ~run.jumped =>
    /\ run.base # None /\ run.base.plan # {} /\ RequiredFailures(run.base.plan, run.base.fails) = {}
    /\ LET fast == Chosen(PlanOf(run.profile, descriptors), FastCategories)
          IN  RequiredFailures(fast, run.fails) = {} /\ \E p \in fast : p.required

\* Not even then is it delivered with a profile that nobody has seen pass.
DeliveredIsTrusted == run.at = "delivered" => Trusted(run.profile.status)

\* A selection of a patch that counts as validated fails nothing that did not
\* fail before the run.
NoNewFailures ==
  run.evidence # None /\ run.evidence.status \in {"passed", "passed_with_baseline"} =>
    \A p \in run.evidence.plan :
      p.required /\ run.evidence.fails[p.id] # {} =>
        /\ run.base # None /\ p \in run.base.plan
        /\ run.evidence.fails[p.id] \subseteq run.base.fails[p.id]

\* All of them: what an unattended run counts on was measured.
AcceptedIsMeasured ==
  VerifiedAsItIs /\ DeliveredIsTrusted /\ DeliveredIsValidated /\ NoNewFailures
=============================================================================
