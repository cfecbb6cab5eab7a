----------------------------- MODULE PatchReview -----------------------------
(***************************************************************************)
(* The patch of a run in review mode: what is validated, approved and      *)
(* applied to the original project.                                        *)
(*                                                                         *)
(*   workflow_runtime/patch_approval.py   hashes, gate, apply_patch        *)
(*   security/isolated_workspace.py       changed files, conflicts, apply  *)
(*   services/workflow_service.py         approve, reject,                 *)
(*                                        validate_patch_selection,        *)
(*                                        apply_run_patch, rollback_task   *)
(*   workflow_runtime/executor.py         what of a validation is stored   *)
(*                                                                         *)
(* Grain. A step ends where a call waits for the store or for validators;  *)
(* copying is a step per file, so that it can fail or be cut off between   *)
(* two, and nobody edits the original while it lasts. A hash is what it is *)
(* the hash of; evidence is told apart by a number. Evidence has a fact    *)
(* that the code does not know: the contents it was gained on.             *)
(***************************************************************************)
EXTENDS Naturals, FiniteSets

CONSTANTS
  File,        \* the files of the project
  Base,        \* of each file its content when the run began, or "absent"
  AgentWrites, \* contents agents may give a file
  UserWrites,  \* contents the user may give a file of the original
  MaxReworks,  \* bound: runs of the steps
  MaxEvidence, \* bound: validations
  MaxFaults    \* bound: edits of the user, failures of a copy, crashes

Content == AgentWrites \cup UserWrites \cup {"absent", "base"}

\* "absent" and "base" are what no agent and no user writes.
ASSUME PatchAssumption ==
  /\ Base \in [File -> {"absent", "base"}]
  /\ AgentWrites \cap UserWrites = {} /\ (AgentWrites \cup UserWrites) \cap {"absent", "base"} = {}
  /\ "evidence" \notin File
  /\ {MaxReworks, MaxEvidence, MaxFaults} \subseteq Nat

VARIABLES
  orig, iso,   \* the original project and the isolated one
  evidence,    \* of the whole patch: [n, passed, of]: n stands for its hash,
               \* passed and of for the validation that is on record
  partial,     \* partial_patch_validations: [hash, n, passed, of]
  approval,    \* approval_*: [state, patch, files, ev] and what was looked at
  status,      \* patch_status
  call,        \* what an approval or a validation has read before it writes
  applying,    \* the selection being copied: files, those done, their backups
  reworks, ids, faults,
  unproven,    \* history variable: files changed since the validation on record
  crashed,     \* history variable: the controller died while it copied
  delivered    \* history variable: [file, content, seen, validated] applied

vars == <<orig, iso, evidence, partial, approval, status, call, applying,
          reworks, ids, faults, unproven, crashed, delivered>>

Nobody == [kind |-> "none", files |-> {}]
NoApply == [files |-> {}, done |-> {}, backup |-> Base, facts |-> {}]
Copying == applying.files # {}
NoApproval == [state |-> "pending", patch |-> {}, files |-> {}, ev |-> 0, seen |-> Base]

-----------------------------------------------------------------------------
(* patch_identity, selection_hash, validation_gate                         *)

\* changed_project_files
Changed == {f \in File : orig[f] # iso[f]}

\* The manifest of the changed files together with the hash of the evidence
PatchHash == {<<f, iso[f]>> : f \in Changed} \cup {<<"evidence", evidence.n>>}

\* Mutant: the evidence is looked up by the files only.
MutEvidenceFor(sel) == {p \in partial : p.files = sel /\ p.passed}

\* The evidence of a part of the patch, by the hash of the selection
EvidenceFor(sel) == {p \in partial : p.files = sel /\ p.patch = PatchHash /\ p.passed}

\* The evidence a selection is approved by: none, or one
Grounds(sel) ==
  IF sel = Changed THEN {e \in {evidence} : e.passed} ELSE EvidenceFor(sel)

-----------------------------------------------------------------------------
(* The run. Its steps change the isolated project and validate it, unless  *)
(* they stop before.                                                       *)

\* An execution writes and deletes any files.
ChangeFiles ==
  \E fs \in SUBSET File : \E new \in [fs -> AgentWrites \cup {"absent"}] :
    iso' = [f \in File |-> IF f \in fs THEN new[f] ELSE iso[f]]

\* What the hash of the evidence is of has changed.
NewEvidence(passed, of) ==
  /\ ids < MaxEvidence /\ ids' = ids + 1
  /\ evidence' = [n |-> ids', passed |-> passed, of |-> of]

\* A validation that passes is stored; one that fails is when a later step of
\* the same execution passes.
OnRecord == unproven' = FALSE /\ \E ok \in BOOLEAN : NewEvidence(ok, iso')

\* One that fails, or is not reached, leaves the record of the one before; the
\* hash has the status of the validating steps, too.
OffRecord ==
  /\ unproven' = TRUE
  /\ NewEvidence(evidence.passed, evidence.of) \/ UNCHANGED <<evidence, ids>>

Rework ==
  /\ reworks < MaxReworks /\ ~Copying
  /\ reworks' = reworks + 1
  /\ ChangeFiles
  /\ iso' # iso
  /\ OnRecord \/ OffRecord
  /\ approval' = IF approval.state = "rejected" THEN NoApproval ELSE approval
  /\ status' = IF approval.state = "rejected" THEN "pending" ELSE status
  /\ UNCHANGED <<orig, partial, call, applying, faults, crashed, delivered>>

\* rollback_task of execute_run_action: it discards the results of validations.
RollBack ==
  /\ reworks < MaxReworks /\ ~Copying
  /\ reworks' = reworks + 1
  /\ ChangeFiles
  /\ unproven' = TRUE /\ NewEvidence(FALSE, evidence.of)
  /\ UNCHANGED <<orig, partial, approval, status, call, applying, faults, crashed, delivered>>

-----------------------------------------------------------------------------
(* validate_patch_selection                                                *)

\* The copy that is validated has the selected files over the original ones.
Staged(sel) == [f \in File |-> IF f \in sel THEN iso[f] ELSE orig[f]]

ValidateBegins(sel) ==
  /\ call.kind = "none" /\ ~Copying /\ sel # {} /\ sel \subseteq Changed
  /\ ids < MaxEvidence /\ ids' = ids + 1
  /\ \E ok \in BOOLEAN :
       call' = [kind |-> "validate", files |-> sel,
                row |-> [files |-> sel, patch |-> PatchHash, n |-> ids', passed |-> ok,
                         of |-> Staged(sel)]]
  /\ UNCHANGED <<orig, iso, evidence, partial, approval, status, applying, reworks,
                 faults, unproven, crashed, delivered>>

\* A new record takes the place of the one with the same hash. An approval of
\* another selection is void; one of the same has a hash that is out of date.
ValidateEnds ==
  /\ call.kind = "validate" /\ ~Copying
  /\ LET r == call.row IN
     /\ partial' = {p \in partial : <<p.files, p.patch>> # <<r.files, r.patch>>} \cup {r}
     /\ approval' = IF approval.files = r.files /\ approval.patch = r.patch THEN approval
                    ELSE NoApproval
  /\ call' = Nobody
  /\ UNCHANGED <<orig, iso, evidence, status, applying, reworks, ids, faults,
                 unproven, crashed, delivered>>

-----------------------------------------------------------------------------
(* execute_run_action: approve, reject                                     *)

\* The preview is read, the selection judged and the hashes are taken.
ApproveBegins(sel) ==
  /\ call.kind = "none" /\ ~Copying /\ sel # {} /\ sel \subseteq Changed
  /\ \E e \in Grounds(sel) :
       call' = [kind |-> "approve", files |-> sel,
                row |-> [state |-> "approved", patch |-> PatchHash, files |-> sel,
                         ev |-> e.n, seen |-> iso]]
  /\ UNCHANGED <<orig, iso, evidence, partial, approval, status, applying, reworks, ids,
                 faults, unproven, crashed, delivered>>

ApproveEnds ==
  /\ call.kind = "approve" /\ ~Copying
  /\ approval' = call.row /\ call' = Nobody
  /\ UNCHANGED <<orig, iso, evidence, partial, status, applying, reworks, ids, faults,
                 unproven, crashed, delivered>>

Reject ==
  /\ ~Copying /\ Changed # {}
  /\ approval' = [approval EXCEPT !.state = "rejected"] /\ status' = "rejected"
  /\ UNCHANGED <<orig, iso, evidence, partial, call, applying, reworks, ids, faults,
                 unproven, crashed, delivered>>

-----------------------------------------------------------------------------
(* apply_patch                                                             *)

\* The approval is one of this patch and of this selection of it.
Bound(sel) == approval.files = sel /\ approval.patch = PatchHash

\* Mutant: nobody else has edited the original.
MutConflicts(sel) == {}

\* detect_original_conflicts
Conflicts(sel) == {f \in sel : orig[f] # Base[f]}

ApplyBegins(sel) ==
  /\ ~Copying /\ sel # {} /\ sel \subseteq Changed
  /\ approval.state = "approved" /\ Bound(sel)
  /\ \E e \in Grounds(sel) : approval.ev = e.n
  /\ Conflicts(sel) = {}
  /\ applying' = [files |-> sel, done |-> {}, backup |-> orig,
                  facts |-> {[file |-> f, content |-> iso[f], seen |-> approval.seen[f],
                              validated |-> \/ sel = Changed /\ unproven
                                            \/ \E e \in Grounds(sel) : e.of[f] = iso[f]]
                               : f \in sel}]
  /\ UNCHANGED <<orig, iso, evidence, partial, approval, status, call, reworks, ids,
                 faults, unproven, crashed, delivered>>

Copy(f) ==
  /\ Copying /\ f \in applying.files \ applying.done
  /\ orig' = [orig EXCEPT ![f] = iso[f]]
  /\ applying' = [applying EXCEPT !.done = @ \cup {f}]
  /\ UNCHANGED <<iso, evidence, partial, approval, status, call, reworks, ids, faults,
                 unproven, crashed, delivered>>

ApplyEnds ==
  /\ Copying /\ applying.done = applying.files
  /\ status' = "applied" /\ applying' = NoApply
  /\ delivered' = delivered \cup applying.facts
  /\ UNCHANGED <<orig, iso, evidence, partial, approval, call, reworks, ids, faults,
                 unproven, crashed>>

Fault == faults < MaxFaults /\ faults' = faults + 1

\* rollback_atomic_apply: a file that was not there is removed.
RolledBack ==
  [f \in File |-> IF f \in applying.done THEN applying.backup[f] ELSE orig[f]]

CopyFails ==
  /\ Copying /\ applying.done # applying.files /\ Fault
  /\ orig' = RolledBack /\ applying' = NoApply
  /\ UNCHANGED <<iso, evidence, partial, approval, status, call, reworks, ids,
                 unproven, crashed, delivered>>

\* There is no journal: nobody goes on with the copies or undoes them.
Crash ==
  /\ Copying \/ call.kind # "none"
  /\ Fault
  /\ crashed' = (crashed \/ Copying)
  /\ applying' = NoApply /\ call' = Nobody
  /\ UNCHANGED <<orig, iso, evidence, partial, approval, status, reworks, ids,
                 unproven, delivered>>

UserEdits ==
  /\ ~Copying /\ Fault
  /\ \E f \in File, c \in UserWrites : orig' = [orig EXCEPT ![f] = c]
  /\ UNCHANGED <<iso, evidence, partial, approval, status, call, applying, reworks, ids,
                 unproven, crashed, delivered>>

-----------------------------------------------------------------------------
Init ==
  /\ orig = Base /\ iso = Base
  /\ evidence = [n |-> 0, passed |-> FALSE, of |-> Base]
  /\ partial = {} /\ approval = NoApproval /\ status = "pending"
  /\ call = Nobody /\ applying = NoApply
  /\ reworks = 0 /\ ids = 0 /\ faults = 0
  /\ unproven = FALSE /\ crashed = FALSE /\ delivered = {}

Next ==
  \/ Rework \/ RollBack
  \/ \E sel \in SUBSET File : ValidateBegins(sel) \/ ApproveBegins(sel) \/ ApplyBegins(sel)
  \/ ValidateEnds \/ ApproveEnds \/ Reject
  \/ \E f \in File : Copy(f)
  \/ ApplyEnds \/ CopyFails \/ Crash \/ UserEdits

Spec == Init /\ [][Next]_vars

-----------------------------------------------------------------------------
(* Properties.                                                             *)

Hash == SUBSET ((File \X Content) \cup ({"evidence"} \X (0..MaxEvidence)))
Row == [files : SUBSET File, patch : Hash, n : 0..MaxEvidence, passed : BOOLEAN,
        of : [File -> Content]]
Approval == [state : {"pending", "approved", "rejected"}, patch : Hash,
             files : SUBSET File, ev : 0..MaxEvidence, seen : [File -> Content]]
Fact == [file : File, content : Content, seen : Content, validated : BOOLEAN]

\* Every variable has its type.
TypeOK ==
  /\ orig \in [File -> Content] /\ iso \in [File -> Content \ UserWrites]
  /\ evidence \in [n : 0..MaxEvidence, passed : BOOLEAN, of : [File -> Content]]
  /\ partial \subseteq Row
  /\ approval \in Approval
  /\ status \in {"pending", "rejected", "applied"}
  /\ \/ call = Nobody
     \/ call \in [kind : {"validate"}, files : SUBSET File, row : Row]
     \/ call \in [kind : {"approve"}, files : SUBSET File, row : Approval]
  /\ applying \in [files : SUBSET File, done : SUBSET File, backup : [File -> Content],
                   facts : SUBSET Fact]
  /\ applying.done \subseteq applying.files
  /\ reworks \in 0..MaxReworks /\ ids \in 0..MaxEvidence /\ faults \in 0..MaxFaults
  /\ unproven \in BOOLEAN /\ crashed \in BOOLEAN
  /\ delivered \subseteq Fact

\* What is applied is what the user looked at when approving it, whatever the
\* run, validations and other approvals have done since.
AppliedIsApproved == \A d \in delivered : d.content = d.seen

\* What is applied was validated with the contents it is applied with: a part of
\* the patch always; all of it unless its files were changed after the validation
\* that is on record, by steps that stopped before they validated or whose
\* validation failed.
AppliedIsValidated == \A d \in delivered : d.validated

\* What a file of the original may hold: what it held, what the user wrote, what
\* was delivered.
Allowed(f) == {Base[f]} \cup UserWrites \cup
              {d.content : d \in {e \in delivered : e.file = f}}

\* The original has no part of a selection whose application failed.
WholeSelections ==
  ~crashed /\ ~Copying => \A f \in File : orig[f] \in Allowed(f)

\* The three together: the original only has what was looked at and applied as a
\* whole, validated as it is but for the patch that changed since its record.
AppliedIsReviewed == AppliedIsApproved /\ AppliedIsValidated /\ WholeSelections

\* No content the user gave a file of the original is overwritten.
EditsSurvive ==
  [][\A f \in File : orig[f] \in UserWrites => orig'[f] \in UserWrites]_vars
=============================================================================
