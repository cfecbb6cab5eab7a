----------------------------- MODULE ReviewProofs -----------------------------
(***************************************************************************)
(* What is accepted of a run, proved: by whoever reviews its patch, by the *)
(* gate that lets it be done, by what may be delivered without a review.   *)
(*                                                                         *)
(* The review of patches, for any number of files, of runs of the steps,   *)
(* of validations and of faults. A hash is worth what it is the hash of:   *)
(* whoever has the hash of a patch has the contents of its files (Holds).  *)
(* An approval, an evidence of a part and a call that is about to write    *)
(* one have looked at the contents their hash is of (Looked), the evidence *)
(* of the whole patch is of the isolated project unless that was changed   *)
(* since the validation on record (Latest), and so what is being copied was seen and  *)
(* validated (Reviewed). While it is copied, each file of the original is  *)
(* as the backup has it or as the isolated project has it (InCopy).        *)
(*                                                                         *)
(* The completion gate, for any number of builds, rollbacks and requests.  *)
(* A record of a success is true of the contents it names (RecordsAreTrue) *)
(* although these are not in the code's records: that they are the present *)
(* ones needs that the executor goes through the steps in their order      *)
(* (OrderInv) and that nobody went past one (FreshInv).                    *)
(*                                                                         *)
(* Validation, for any plans, languages, failures, edits and retries. What *)
(* a run works from was measured (RunInv), and a profile that counts as    *)
(* verified passed since the build files were edited last (ProfileInv).    *)
(* Both need that nobody edits while something validates (Alone).          *)
(*                                                                         *)
(* The security scan, for any agents, attempts, artifacts and repetitions. *)
(* An artifact that has passed stays as it passed until its agent answers  *)
(* again, and the scan does not go past an agent that has none             *)
(* (AgentsPassed); a report that may be scored is of the findings there    *)
(* are, and only a scored one becomes final (ReportIsCurrent).             *)
(***************************************************************************)
EXTENDS PatchReview, Evidence, Validation, SequenceTheorems, TLAPS

-----------------------------------------------------------------------------
(* The review of patches.                                                  *)

\* The patch has these contents of these files.
Holds(patch, files, contents) == \A f \in files : <<f, contents[f]>> \in patch

Looked ==
  /\ Holds(approval.patch, approval.files, approval.seen)
  /\ \A p \in partial : Holds(p.patch, p.files, p.of)
  /\ call.kind = "validate" => Holds(call.row.patch, call.row.files, call.row.of)
  /\ call.kind = "approve" => Holds(call.row.patch, call.row.files, call.row.seen)

Latest == unproven \/ evidence.of = iso

IsReviewed(facts) == \A x \in facts : x.content = x.seen /\ x.validated

Reviewed == IsReviewed(applying.facts) /\ IsReviewed(delivered)

InCopy ==
  Copying =>
    \A f \in File :
      /\ orig[f] = IF f \in applying.done THEN iso[f] ELSE applying.backup[f]
      /\ f \in applying.files =>
           /\ applying.backup[f] = Base[f]
           /\ \E x \in applying.facts : x.file = f /\ x.content = iso[f]
      /\ ~crashed => applying.backup[f] \in Allowed(f)

IInv == TypeOK /\ Looked /\ Latest /\ Reviewed /\ InCopy /\ WholeSelections

-----------------------------------------------------------------------------
(* The hashes.                                                             *)

LEMMA HashTyped == ASSUME TypeOK PROVE PatchHash \in Hash
BY DEF PatchHash, Hash, TypeOK, Changed, Content

LEMMA HashHolds ==
  ASSUME NEW sel, sel \subseteq Changed
  PROVE  Holds(PatchHash, sel, iso)
BY DEF Holds, PatchHash

\* The hash of the patch holds of a file only what the isolated project has.
LEMMA HashOf ==
  ASSUME NEW f \in File, NEW c, <<f, c>> \in PatchHash
  PROVE  c = iso[f]
BY PatchAssumption DEF PatchHash

LEMMA StagedTyped == ASSUME TypeOK, NEW sel PROVE Staged(sel) \in [File -> Content]
BY DEF TypeOK, Staged

-----------------------------------------------------------------------------
LEMMA InitInv == Init => IInv
<1> SUFFICES ASSUME Init PROVE IInv
  OBVIOUS
<1> USE PatchAssumption
<1>1. Base \in [File -> Content \ UserWrites] /\ Base \in [File -> Content]
  BY DEF Content
<1>2. NoApproval \in Approval
  BY <1>1 DEF NoApproval, Approval, Hash
<1>3. NoApply \in [files : SUBSET File, done : SUBSET File,
                   backup : [File -> Content], facts : SUBSET Fact]
  BY <1>1 DEF NoApply
<1>4. evidence \in [n : 0..MaxEvidence, passed : BOOLEAN, of : [File -> Content]]
  BY <1>1 DEF Init
<1>7. orig \in [File -> Content] /\ iso \in [File -> Content \ UserWrites]
  BY <1>1 DEF Init
<1>8. applying.done \subseteq applying.files
  BY DEF Init, NoApply
<1>9. reworks \in 0..MaxReworks /\ ids \in 0..MaxEvidence /\ faults \in 0..MaxFaults
  BY DEF Init
<1>10. TypeOK
  BY <1>2, <1>3, <1>4, <1>7, <1>8, <1>9 DEF Init, TypeOK
<1>5. Looked /\ Latest /\ Reviewed
  BY DEF Init, Looked, Latest, Reviewed, IsReviewed, Holds, NoApproval, NoApply, Nobody
<1>6. InCopy /\ WholeSelections
  BY DEF Init, InCopy, Copying, NoApply, WholeSelections, Allowed
<1> QED BY <1>10, <1>5, <1>6 DEF IInv

-----------------------------------------------------------------------------
(* The steps outside of a copy.                                            *)

\* What does not copy leaves the original whole.
LEMMA OutsideACopy ==
  ASSUME IInv, ~Copying, UNCHANGED <<applying, delivered, crashed>>,
         \A f \in File : orig'[f] \in {orig[f]} \cup UserWrites
  PROVE  Reviewed' /\ InCopy' /\ WholeSelections'
BY DEF IInv, Reviewed, IsReviewed, InCopy, Copying, WholeSelections, Allowed

LEMMA EvidenceTyped ==
  ASSUME TypeOK, NEW p \in BOOLEAN, NEW c \in [File -> Content], NewEvidence(p, c)
  PROVE  /\ evidence' \in [n : 0..MaxEvidence, passed : BOOLEAN, of : [File -> Content]]
         /\ ids' \in 0..MaxEvidence
BY PatchAssumption DEF NewEvidence, TypeOK

LEMMA ChangesAreTyped ==
  ASSUME TypeOK, ChangeFiles
  PROVE  iso' \in [File -> Content \ UserWrites] /\ iso' \in [File -> Content]
<1>1. PICK fs \in SUBSET File :
        \E new \in [fs -> AgentWrites \cup {"absent"}] :
          iso' = [f \in File |-> IF f \in fs THEN new[f] ELSE iso[f]]
  BY DEF ChangeFiles
<1>2. PICK new \in [fs -> AgentWrites \cup {"absent"}] :
        iso' = [f \in File |-> IF f \in fs THEN new[f] ELSE iso[f]]
  BY <1>1
<1>3. AgentWrites \cup {"absent"} \subseteq Content \ UserWrites
  BY PatchAssumption DEF Content
<1>4. \A f \in File : iso[f] \in Content \ UserWrites
  BY DEF TypeOK
<1>5. \A f \in File : (IF f \in fs THEN new[f] ELSE iso[f]) \in Content \ UserWrites
  BY <1>3, <1>4
<1> QED BY <1>2, <1>5

LEMMA ReworkInv == ASSUME IInv, Rework PROVE IInv'
<1> USE PatchAssumption DEF IInv
<1>1. ChangeFiles
  BY DEF Rework
<1>2. iso' \in [File -> Content \ UserWrites] /\ iso' \in [File -> Content]
  BY <1>1, ChangesAreTyped
<1>3. NoApproval \in Approval
  BY DEF NoApproval, Approval, Hash, Content
<1>4. evidence' \in [n : 0..MaxEvidence, passed : BOOLEAN, of : [File -> Content]]
      /\ ids' \in 0..MaxEvidence /\ unproven' \in BOOLEAN
  <2>1. CASE unproven' = TRUE /\ UNCHANGED <<evidence, ids>>
    BY <2>1 DEF TypeOK
  <2>2. CASE unproven' = TRUE /\ NewEvidence(evidence.passed, evidence.of)
    BY <2>2, EvidenceTyped DEF TypeOK
  <2>3. CASE OnRecord
    BY <1>2, <2>3, EvidenceTyped DEF OnRecord
  <2> QED BY <2>1, <2>2, <2>3 DEF Rework, OffRecord
<1>5. approval' \in Approval /\ status' \in {"pending", "rejected", "applied"}
  BY <1>3 DEF Rework, TypeOK
<1>6. reworks' \in 0..MaxReworks
  BY DEF Rework, TypeOK
<1>7. TypeOK'
  BY <1>2, <1>4, <1>5, <1>6 DEF Rework, TypeOK
<1>8. Looked'
  BY DEF Rework, Looked, Holds, NoApproval
<1>9. Latest'
  <2>1. unproven' = TRUE
        \/ \E ok \in BOOLEAN : evidence' = [n |-> ids', passed |-> ok, of |-> iso']
    BY DEF Rework, OnRecord, OffRecord, NewEvidence
  <2> QED BY <2>1 DEF Latest
<1>10. Reviewed' /\ InCopy' /\ WholeSelections'
  BY OutsideACopy DEF Rework
<1> QED BY <1>7, <1>8, <1>9, <1>10

LEMMA RollBackInv == ASSUME IInv, RollBack PROVE IInv'
<1> USE PatchAssumption DEF IInv
<1>1. ChangeFiles
  BY DEF RollBack
<1>2. iso' \in [File -> Content \ UserWrites]
  BY <1>1, ChangesAreTyped
<1>3. evidence' \in [n : 0..MaxEvidence, passed : BOOLEAN, of : [File -> Content]]
      /\ ids' \in 0..MaxEvidence
  <2>1. evidence.of \in [File -> Content]
    BY DEF TypeOK
  <2> QED BY <2>1, EvidenceTyped DEF RollBack
<1>4. reworks' \in 0..MaxReworks
  BY DEF RollBack, TypeOK
<1>5. TypeOK'
  BY <1>2, <1>3, <1>4 DEF RollBack, TypeOK
<1>6. Looked' /\ Latest'
  BY DEF RollBack, Looked, Latest
<1>7. Reviewed' /\ InCopy' /\ WholeSelections'
  BY OutsideACopy DEF RollBack
<1> QED BY <1>5, <1>6, <1>7

LEMMA ValidateInv ==
  ASSUME IInv, NEW sel \in SUBSET File, ValidateBegins(sel)
  PROVE  IInv'
<1> USE PatchAssumption DEF IInv
<1>1. PICK ok \in BOOLEAN :
        call' = [kind |-> "validate", files |-> sel,
                 row |-> [files |-> sel, patch |-> PatchHash, n |-> ids', passed |-> ok,
                          of |-> Staged(sel)]]
  BY DEF ValidateBegins
<1>2. ids' \in 0..MaxEvidence
  BY DEF ValidateBegins, TypeOK
<1>3. call'.row \in Row
  BY <1>1, <1>2, HashTyped, StagedTyped DEF Row
<1>4. call' \in [kind : {"validate"}, files : SUBSET File, row : Row]
  BY <1>1, <1>3
<1>5. TypeOK'
  BY <1>2, <1>4 DEF ValidateBegins, TypeOK
<1>6. Holds(PatchHash, sel, Staged(sel))
  BY HashHolds DEF ValidateBegins, Holds, Staged
<1>7. Looked'
  BY <1>1, <1>6 DEF ValidateBegins, Looked
<1>8. Latest'
  BY DEF ValidateBegins, Latest
<1>9. Reviewed' /\ InCopy' /\ WholeSelections'
  BY OutsideACopy DEF ValidateBegins
<1> QED BY <1>5, <1>7, <1>8, <1>9

LEMMA ValidatedInv == ASSUME IInv, ValidateEnds PROVE IInv'
<1> USE PatchAssumption DEF IInv
<1>1. call \in [kind : {"validate"}, files : SUBSET File, row : Row]
  BY DEF ValidateEnds, TypeOK, Nobody
<1>2. partial' \subseteq Row /\ \A p \in partial' : p \in partial \/ p = call.row
  BY <1>1 DEF ValidateEnds, TypeOK
<1>3. NoApproval \in Approval
  BY DEF NoApproval, Approval, Hash, Content
<1>4. approval' \in Approval
  BY <1>3 DEF ValidateEnds, TypeOK
<1>5. TypeOK'
  BY <1>2, <1>4 DEF ValidateEnds, TypeOK
<1>6. Looked'
  BY <1>2 DEF ValidateEnds, Looked, Holds, NoApproval, Nobody
<1>7. Latest'
  BY DEF ValidateEnds, Latest
<1>8. Reviewed' /\ InCopy' /\ WholeSelections'
  BY OutsideACopy DEF ValidateEnds
<1> QED BY <1>5, <1>6, <1>7, <1>8

LEMMA ApproveInv ==
  ASSUME IInv, NEW sel \in SUBSET File, ApproveBegins(sel)
  PROVE  IInv'
<1> USE PatchAssumption DEF IInv
<1>1. PICK e \in Grounds(sel) :
        call' = [kind |-> "approve", files |-> sel,
                 row |-> [state |-> "approved", patch |-> PatchHash, files |-> sel,
                          ev |-> e.n, seen |-> iso]]
  BY DEF ApproveBegins
<1>2. e.n \in 0..MaxEvidence
  BY DEF Grounds, EvidenceFor, TypeOK, Row
<1>3. iso \in [File -> Content]
  BY DEF TypeOK
<1>4. call'.row \in Approval
  BY <1>1, <1>2, <1>3, HashTyped DEF Approval
<1>5. call' \in [kind : {"approve"}, files : SUBSET File, row : Approval]
  BY <1>1, <1>4
<1>6. TypeOK'
  BY <1>5 DEF ApproveBegins, TypeOK
<1>7. Looked'
  BY <1>1, HashHolds DEF ApproveBegins, Looked
<1>8. Latest'
  BY DEF ApproveBegins, Latest
<1>9. Reviewed' /\ InCopy' /\ WholeSelections'
  BY OutsideACopy DEF ApproveBegins
<1> QED BY <1>6, <1>7, <1>8, <1>9

LEMMA ApprovedInv == ASSUME IInv, ApproveEnds PROVE IInv'
<1> USE DEF IInv
<1>1. call \in [kind : {"approve"}, files : SUBSET File, row : Approval]
  BY DEF ApproveEnds, TypeOK, Nobody
<1>2. TypeOK'
  BY <1>1 DEF ApproveEnds, TypeOK
<1>3. Looked'
  BY DEF ApproveEnds, Looked, Nobody
<1>4. Latest'
  BY DEF ApproveEnds, Latest
<1>5. Reviewed' /\ InCopy' /\ WholeSelections'
  BY OutsideACopy DEF ApproveEnds
<1> QED BY <1>2, <1>3, <1>4, <1>5

LEMMA RejectInv == ASSUME IInv, Reject PROVE IInv'
<1> USE DEF IInv
<1>1. approval' \in Approval /\ UNCHANGED <<approval.patch, approval.files, approval.seen>>
  BY DEF Reject, TypeOK, Approval
<1>2. TypeOK'
  BY <1>1 DEF Reject, TypeOK
<1>3. Looked'
  BY <1>1 DEF Reject, Looked
<1>4. Latest'
  BY DEF Reject, Latest
<1>5. Reviewed' /\ InCopy' /\ WholeSelections'
  BY OutsideACopy DEF Reject
<1> QED BY <1>2, <1>3, <1>4, <1>5

LEMMA UserEditsInv == ASSUME IInv, UserEdits PROVE IInv'
<1> USE PatchAssumption DEF IInv
<1>1. PICK f \in File, c \in UserWrites : orig' = [orig EXCEPT ![f] = c]
  BY DEF UserEdits
<1>2. faults' \in 0..MaxFaults
  BY DEF UserEdits, Fault, TypeOK
<1>3. TypeOK'
  BY <1>1, <1>2 DEF UserEdits, TypeOK, Content
<1>4. Looked' /\ Latest'
  BY DEF UserEdits, Looked, Latest
<1>5. Reviewed' /\ InCopy' /\ WholeSelections'
  BY <1>1, OutsideACopy DEF UserEdits, TypeOK
<1> QED BY <1>3, <1>4, <1>5

-----------------------------------------------------------------------------
(* The copy.                                                               *)

\* What an application is granted for is what was seen and, but for a whole patch
\* that changed since, validated.
LEMMA Granted ==
  ASSUME IInv, NEW sel \in SUBSET File, ApplyBegins(sel), NEW f \in sel
  PROVE  /\ approval.seen[f] = iso[f]
         /\ (sel = Changed /\ unproven) \/ \E e \in Grounds(sel) : e.of[f] = iso[f]
<1> USE DEF IInv
<1>1. approval.seen[f] = iso[f]
  <2>1. <<f, approval.seen[f]>> \in PatchHash
    BY DEF ApplyBegins, Bound, Looked, Holds
  <2> QED BY <2>1, HashOf
<1>2. PICK e \in Grounds(sel) : approval.ev = e.n
  BY DEF ApplyBegins
<1>3. ASSUME sel = Changed, ~unproven PROVE e.of[f] = iso[f]
  BY <1>2, <1>3 DEF Grounds, Latest
<1>4. ASSUME sel # Changed PROVE e.of[f] = iso[f]
  <2>1. <<f, e.of[f]>> \in PatchHash
    BY <1>2, <1>4 DEF Grounds, EvidenceFor, Looked, Holds
  <2> QED BY <2>1, HashOf
<1> QED BY <1>1, <1>2, <1>3, <1>4

LEMMA ApplyBeginsInv ==
  ASSUME IInv, NEW sel \in SUBSET File, ApplyBegins(sel)
  PROVE  IInv'
<1> USE DEF IInv
<1> DEFINE fact(f) == [file |-> f, content |-> iso[f], seen |-> approval.seen[f],
                       validated |-> \/ sel = Changed /\ unproven
                                     \/ \E e \in Grounds(sel) : e.of[f] = iso[f]]
<1>1. applying' = [files |-> sel, done |-> {}, backup |-> orig,
                   facts |-> {fact(f) : f \in sel}]
  BY DEF ApplyBegins
<1>2. \A f \in sel : fact(f) \in Fact
  BY DEF TypeOK, Approval, Fact
<1>3. applying' \in [files : SUBSET File, done : SUBSET File,
                     backup : [File -> Content], facts : SUBSET Fact]
  BY <1>1, <1>2 DEF TypeOK
<1>4. TypeOK'
  BY <1>1, <1>3 DEF ApplyBegins, TypeOK
<1>5. Looked' /\ Latest'
  BY DEF ApplyBegins, Looked, Latest
<1>6. \A f \in sel : fact(f).content = fact(f).seen /\ fact(f).validated
  BY Granted
<1>7. Reviewed'
  BY <1>1, <1>6 DEF ApplyBegins, Reviewed, IsReviewed
<1>8. \A f \in sel : orig[f] = Base[f]
  BY DEF ApplyBegins, Conflicts
<1>9. \A f \in sel : fact(f) \in applying'.facts /\ fact(f).file = f /\ fact(f).content = iso[f]
  BY <1>1
<1>10. ASSUME NEW f \in File, ~crashed PROVE orig[f] \in Allowed(f)
  BY <1>10 DEF ApplyBegins, WholeSelections
<1>12. \A f \in File : Allowed(f)' = Allowed(f)
  BY DEF ApplyBegins, Allowed
<1>13. /\ applying'.files = sel /\ applying'.done = {} /\ applying'.backup = orig
       /\ orig' = orig /\ iso' = iso /\ crashed' = crashed
  BY <1>1 DEF ApplyBegins
<1>15. ASSUME NEW f \in sel PROVE \E x \in applying'.facts : x.file = f /\ x.content = iso[f]
  BY <1>9, <1>15
<1>14. InCopy'
  <2> HIDE DEF fact
  <2> SUFFICES ASSUME NEW f \in File
               PROVE  /\ orig[f] = applying'.backup[f]
                      /\ f \in sel => /\ applying'.backup[f] = Base[f]
                                     /\ \E x \in applying'.facts : x.file = f /\ x.content = iso[f]
                      /\ ~crashed => applying'.backup[f] \in Allowed(f)'
    BY <1>13 DEF InCopy
  <2> QED BY <1>8, <1>10, <1>12, <1>13, <1>15
<1>11. WholeSelections'
  BY <1>1 DEF ApplyBegins, WholeSelections, Copying
<1> QED BY <1>4, <1>5, <1>7, <1>11, <1>14

LEMMA CopyInv == ASSUME IInv, NEW f \in File, Copy(f) PROVE IInv'
<1> USE DEF IInv
<1>1. /\ applying'.files = applying.files /\ applying'.done = applying.done \cup {f}
      /\ applying'.backup = applying.backup /\ applying'.facts = applying.facts
      /\ applying' \in [files : SUBSET File, done : SUBSET File,
                        backup : [File -> Content], facts : SUBSET Fact]
  BY DEF Copy, TypeOK
<1>2. orig' \in [File -> Content]
      /\ \A g \in File : orig'[g] = IF g = f THEN iso[f] ELSE orig[g]
  BY DEF Copy, TypeOK
<1>3. TypeOK'
  BY <1>1, <1>2 DEF Copy, TypeOK
<1>4. Looked' /\ Latest' /\ Reviewed'
  BY <1>1 DEF Copy, Looked, Latest, Reviewed
<1>5. InCopy'
  BY <1>1, <1>2 DEF Copy, InCopy, Copying, Allowed
<1>6. WholeSelections'
  BY <1>1 DEF Copy, WholeSelections, Copying
<1> QED BY <1>3, <1>4, <1>5, <1>6

LEMMA ApplyEndsInv == ASSUME IInv, ApplyEnds PROVE IInv'
<1> USE PatchAssumption DEF IInv
<1>1. NoApply \in [files : SUBSET File, done : SUBSET File,
                   backup : [File -> Content], facts : SUBSET Fact]
  BY DEF NoApply, Content
<1>2. TypeOK'
  BY <1>1 DEF ApplyEnds, TypeOK, NoApply
<1>3. Looked' /\ Latest'
  BY DEF ApplyEnds, Looked, Latest
<1>4. Reviewed'
  BY DEF ApplyEnds, Reviewed, IsReviewed, NoApply
<1>5. \A f \in File : Allowed(f) \subseteq Allowed(f)'
  BY DEF ApplyEnds, Allowed
<1>6. ASSUME ~crashed, NEW f \in File PROVE orig[f] \in Allowed(f)'
  <2>1. CASE f \in applying.files
    BY <2>1 DEF ApplyEnds, InCopy, Allowed
  <2>2. CASE f \notin applying.files
    BY <1>5, <1>6, <2>2 DEF ApplyEnds, InCopy
  <2> QED BY <2>1, <2>2
<1>7. WholeSelections'
  BY <1>6 DEF ApplyEnds, WholeSelections
<1>8. InCopy'
  BY DEF ApplyEnds, InCopy, Copying, NoApply
<1> QED BY <1>2, <1>3, <1>4, <1>7, <1>8

LEMMA CopyFailsInv == ASSUME IInv, CopyFails PROVE IInv'
<1> USE PatchAssumption DEF IInv
<1>1. NoApply \in [files : SUBSET File, done : SUBSET File,
                   backup : [File -> Content], facts : SUBSET Fact]
  BY DEF NoApply, Content
<1>2. orig' \in [File -> Content] /\ \A f \in File : orig'[f] = applying.backup[f]
  BY DEF CopyFails, RolledBack, TypeOK, InCopy
<1>3. faults' \in 0..MaxFaults
  BY DEF CopyFails, Fault, TypeOK
<1>4. TypeOK'
  BY <1>1, <1>2, <1>3 DEF CopyFails, TypeOK, NoApply
<1>5. Looked' /\ Latest'
  BY DEF CopyFails, Looked, Latest
<1>6. Reviewed'
  BY DEF CopyFails, Reviewed, IsReviewed, NoApply
<1>7. WholeSelections'
  BY <1>2 DEF CopyFails, WholeSelections, InCopy, Allowed
<1>8. InCopy'
  BY DEF CopyFails, InCopy, Copying, NoApply
<1> QED BY <1>4, <1>5, <1>6, <1>7, <1>8

LEMMA CrashInv == ASSUME IInv, Crash PROVE IInv'
<1> USE PatchAssumption DEF IInv
<1>1. NoApply \in [files : SUBSET File, done : SUBSET File,
                   backup : [File -> Content], facts : SUBSET Fact]
  BY DEF NoApply, Content
<1>2. faults' \in 0..MaxFaults /\ crashed' \in BOOLEAN
  BY DEF Crash, Fault, TypeOK
<1>3. TypeOK'
  BY <1>1, <1>2 DEF Crash, TypeOK, NoApply
<1>4. Looked' /\ Latest'
  BY DEF Crash, Looked, Latest, Nobody
<1>5. Reviewed'
  BY DEF Crash, Reviewed, IsReviewed, NoApply
<1>6. WholeSelections'
  BY DEF Crash, WholeSelections, Allowed
<1>7. InCopy'
  BY DEF Crash, InCopy, Copying, NoApply
<1> QED BY <1>3, <1>4, <1>5, <1>6, <1>7

-----------------------------------------------------------------------------
LEMMA StepInv == IInv /\ [Next]_vars => IInv'
<1> SUFFICES ASSUME IInv, [Next]_vars PROVE IInv'
  OBVIOUS
<1>1. CASE UNCHANGED vars
  BY <1>1 DEF vars, IInv, TypeOK, Looked, Latest, Reviewed, InCopy, Copying,
              WholeSelections, Allowed
<1>2. CASE Next
  <2>1. CASE \E sel \in SUBSET File : ValidateBegins(sel) \/ ApproveBegins(sel) \/ ApplyBegins(sel)
    BY <2>1, ValidateInv, ApproveInv, ApplyBeginsInv
  <2>2. CASE \E f \in File : Copy(f)
    BY <2>2, CopyInv
  <2>3. CASE ValidateEnds \/ ApproveEnds \/ Reject \/ Rework \/ RollBack
    BY <2>3, ValidatedInv, ApprovedInv, RejectInv, ReworkInv, RollBackInv
  <2>4. CASE ApplyEnds \/ CopyFails \/ Crash \/ UserEdits
    BY <2>4, ApplyEndsInv, CopyFailsInv, CrashInv, UserEditsInv
  <2> QED BY <1>2, <2>1, <2>2, <2>3, <2>4 DEF Next
<1> QED BY <1>1, <1>2

\* The invariant the rest follows from, with the types of all variables.
THEOREM Invariance == Spec => []IInv
BY InitInv, StepInv, PTL DEF Spec

\* Every variable has its type, for any files and bounds.
THEOREM PatchTypeCorrect == Spec => []TypeOK
<1>1. IInv => TypeOK
  BY DEF IInv
<1> QED BY <1>1, Invariance, PTL

\* What apply_patch copies was looked at and comes whole; a part of a patch was
\* validated as it is, a whole patch unless it changed since the validation that
\* is on record.
THEOREM AppliedWasReviewed == Spec => []AppliedIsReviewed
<1>1. IInv => AppliedIsReviewed
  BY DEF IInv, Reviewed, IsReviewed, AppliedIsReviewed, AppliedIsApproved, AppliedIsValidated
<1> QED BY <1>1, Invariance, PTL

\* No copy and no rollback of one overwrites what the user wrote.
THEOREM EditsAreKept == Spec => EditsSurvive
<1> DEFINE A == \A f \in File : orig[f] \in UserWrites => orig'[f] \in UserWrites
<1>1. IInv /\ [Next]_vars => [A]_vars
  <2> SUFFICES ASSUME IInv, Next PROVE A
    BY DEF vars
  <2> USE PatchAssumption DEF IInv
  <2>1. CASE UserEdits
    BY <2>1 DEF UserEdits, TypeOK
  <2>2. ASSUME NEW f \in File, Copy(f) PROVE A
    <3>1. orig[f] \notin UserWrites
      BY <2>2 DEF Copy, InCopy, Content
    <3> QED BY <2>2, <3>1 DEF Copy, TypeOK
  <2>3. CASE CopyFails
    <3>1. \A f \in applying.done : f \in File /\ orig[f] = iso[f]
      BY <2>3 DEF CopyFails, InCopy, TypeOK
    <3>2. \A f \in applying.done : orig[f] \notin UserWrites
      BY <3>1 DEF TypeOK
    <3> QED BY <2>3, <3>2 DEF CopyFails, RolledBack
  <2>4. CASE UNCHANGED orig
    BY <2>4
  <2> QED BY <2>1, <2>2, <2>3, <2>4
      DEF Next, Rework, RollBack, ValidateBegins, ApproveBegins, ApplyBegins, ValidateEnds,
          ApproveEnds, Reject, ApplyEnds, Crash
<1>2. Spec => [][A]_vars
  BY <1>1, Invariance, PTL DEF Spec
<1> QED BY <1>2 DEF EditsSurvive

-----------------------------------------------------------------------------
(* The completion gate.                                                    *)

Statuses == {"none", "passed", "failed", "blocked", "not_configured"}
Record == [status : Statuses, of : 0..MaxBuilds]
Results == [test : Record, user : Record]

\* Somebody executed it, unchanged, on these contents, and it succeeded.
RanWell(kind, c) ==
  \E i \in DOMAIN ran : ran[i].kind = kind /\ ran[i].ok /\ ran[i].own /\ ran[i].of = c

\* What a record says has happened, when it was of the contents it names.
Claims(r, kind) == r.status = "passed" => RanWell(kind, r.of)

RecordsAreTrue ==
  /\ Claims(mem.test, "test") /\ Claims(mem.user, "user")
  /\ Claims(kept.test, "test") /\ Claims(kept.user, "user")
  /\ Claims(artifact, "user")

\* The executor works on what is in the store, from the front to the end.
OrderInv ==
  mode = "runs" =>
    /\ mem = kept
    /\ \A t \in Step : t >= at => steps[t] = "pending"
    /\ ~jumped => \A t \in Step : t < at => steps[t] = "passed"

\* Where a step has passed and nobody went past one, its record is of the
\* project there is, unless a rollback has removed it; the file of the user's
\* validation outlives that.
Fresh(r) == r.status = "passed" => r.of = project

FreshInv ==
  ~jumped =>
    /\ steps[RunTest] = "passed" => Fresh(kept.test)
    /\ steps[External] = "passed" =>
         Fresh(kept.user) /\ (kept # NoResults => Fresh(artifact))

EvidenceInv == EvidenceTypeOK /\ RecordsAreTrue /\ OrderInv /\ FreshInv

LEMMA StepsAre == Step = {1, 2, 3, 4} /\ Build = 1 /\ RunTest = 2 /\ External = 3 /\ Final = 4
BY DEF Step, Build, RunTest, External, Final

LEMMA TypesAre ==
  ASSUME EvidenceAssumptions, EvidenceTypeOK
  PROVE  /\ project \in 0..built /\ built \in 0..MaxBuilds /\ MaxBuilds \in Nat
         /\ mem \in Results /\ kept \in Results /\ artifact \in Record
         /\ steps \in [Step -> {"pending", "passed", "failed", "skipped"}]
         /\ at \in Step /\ mode \in {"runs", "stopped", "done"} /\ jumped \in BOOLEAN
         /\ ran \in Seq([kind : {"test", "user"}, ok : BOOLEAN, of : 0..MaxBuilds, own : BOOLEAN])
BY DEF EvidenceTypeOK, EvidenceAssumptions, Results, Record, Statuses

LEMMA EvidenceInvInit == ASSUME EvidenceAssumptions, EvidenceInit PROVE EvidenceInv
<1>1. Nothing \in Record /\ NoResults \in Results /\ Nothing.status = "none"
  BY DEF EvidenceAssumptions, Nothing, NoResults, Record, Results, Statuses
<1>2. EvidenceTypeOK
  <2>1. /\ contract \in Contracts /\ project = 0 /\ built = 0 /\ script = "own"
        /\ mem = NoResults /\ kept = NoResults /\ artifact = Nothing
        /\ steps = [s \in Step |-> "pending"] /\ at = 1 /\ mode = "runs"
        /\ accepted = {} /\ requests = 0 /\ ran = <<>> /\ jumped = FALSE
    BY StepsAre DEF EvidenceInit
  <2>2. /\ at \in Step /\ 0 \in 0..MaxBuilds /\ 0 \in 0..0 /\ 0 \in 0..MaxRequests
        /\ \A S : <<>> \in Seq(S)
    BY <2>1, StepsAre DEF EvidenceAssumptions
  <2> QED BY <1>1, <2>1, <2>2 DEF EvidenceTypeOK, Record, Results, Statuses
<1>3. RecordsAreTrue
  BY <1>1 DEF EvidenceInit, RecordsAreTrue, Claims, NoResults, Nothing
<1>4. OrderInv /\ FreshInv
  BY StepsAre DEF EvidenceInit, OrderInv, FreshInv
<1> QED BY <1>2, <1>3, <1>4 DEF EvidenceInv

\* What was executed has been executed.
LEMMA RanStays ==
  ASSUME EvidenceAssumptions, EvidenceTypeOK,
         ran' = ran \/ \E e : ran' = Append(ran, e),
         NEW kind, NEW c, RanWell(kind, c)
  PROVE  RanWell(kind, c)'
<1>1. PICK i \in DOMAIN ran : ran[i].kind = kind /\ ran[i].ok /\ ran[i].own /\ ran[i].of = c
  BY DEF RanWell
<1>2. i \in DOMAIN ran' /\ ran'[i] = ran[i]
  <2>1. CASE ran' = ran
    BY <1>1, <2>1
  <2>2. ASSUME NEW e, ran' = Append(ran, e) PROVE i \in DOMAIN ran' /\ ran'[i] = ran[i]
    BY <1>1, <2>2, TypesAre
  <2> QED BY <2>1, <2>2
<1> QED BY <1>1, <1>2 DEF RanWell

\* What was executed last has been executed.
LEMMA RanLast ==
  ASSUME EvidenceAssumptions, EvidenceTypeOK, NEW kind \in {"test", "user"}, NEW ok \in BOOLEAN,
         ran' = Append(ran, Executed(kind, ok, TRUE)), UNCHANGED project
  PROVE  /\ ran' \in Seq([kind : {"test", "user"}, ok : BOOLEAN, of : 0..MaxBuilds, own : BOOLEAN])
         /\ ok => RanWell(kind, project)'
<1> DEFINE e == Executed(kind, ok, TRUE)
           Entry == [kind : {"test", "user"}, ok : BOOLEAN, of : 0..MaxBuilds, own : BOOLEAN]
<1>0. e \in Entry
  BY TypesAre DEF Executed
<1>1. e.kind = kind /\ e.ok = ok /\ e.own = TRUE /\ e.of = project
  BY DEF Executed
<1>2. ran \in Seq(Entry) /\ ran' = Append(ran, e)
  BY TypesAre
<1> HIDE DEF e, Entry
<1>3. /\ ran' \in Seq(Entry) /\ Len(ran') = Len(ran) + 1 /\ ran'[Len(ran) + 1] = e
  <2>1. /\ Append(ran, e) \in Seq(Entry) /\ Len(Append(ran, e)) = Len(ran) + 1
        /\ Append(ran, e)[Len(ran) + 1] = e
    BY <1>0, <1>2, AppendProperties
  <2> QED BY <1>2, <2>1, Zenon
<1>5. Len(ran) \in Nat /\ DOMAIN ran' = 1..Len(ran')
  BY <1>2, <1>3, LenProperties
<1>4. ok => RanWell(kind, project)'
  <2>1. Len(ran) + 1 \in DOMAIN ran'
    BY <1>3, <1>5
  <2> QED BY <1>1, <1>3, <2>1 DEF RanWell
<1> QED BY <1>3, <1>4 DEF Entry

\* A step of the executor passes or fails: where it stands then.
LEMMA ExecutorOrder ==
  ASSUME EvidenceAssumptions, EvidenceTypeOK, OrderInv, NEW s \in Step, Running(s),
         UNCHANGED jumped, (\E results : Passes(s, results)) \/ Fails(s)
  PROVE  /\ OrderInv'
         /\ steps' \in [Step -> {"pending", "passed", "failed", "skipped"}]
         /\ at' \in Step /\ mode' \in {"runs", "stopped", "done"}
<1> USE TypesAre, StepsAre
<1>1. mode = "runs" /\ at = s
  BY DEF Running
<1>2. ASSUME NEW results, Passes(s, results)
      PROVE  /\ OrderInv'
             /\ steps' \in [Step -> {"pending", "passed", "failed", "skipped"}]
             /\ at' \in Step /\ mode' \in {"runs", "stopped", "done"}
  BY <1>1, <1>2 DEF Passes, OrderInv
<1>3. CASE Recovers(s)
  BY <1>1, <1>3 DEF Recovers, OrderInv
<1>4. CASE Stops(s)
  BY <1>1, <1>4 DEF Stops, OrderInv
<1> QED BY <1>2, <1>3, <1>4 DEF Fails

\* What a step that fails leaves: the records in the store, and no step that has
\* passed but those that had.
LEMMA FailedLeaves ==
  ASSUME EvidenceAssumptions, EvidenceTypeOK, NEW s \in Step, Fails(s)
  PROVE  /\ mem' = kept /\ kept' = kept
         /\ \A t \in Step : steps'[t] = "passed" => t # s /\ steps[t] = "passed"
BY TypesAre, StepsAre DEF Fails, Recovers, Stops

LEMMA PassedLeaves ==
  ASSUME EvidenceAssumptions, EvidenceTypeOK, NEW s \in Step, NEW results, Passes(s, results)
  PROVE  /\ mem' = results /\ kept' = results
         /\ steps'[s] = "passed" /\ \A t \in Step : t # s => steps'[t] = steps[t]
BY TypesAre, StepsAre DEF Passes

-----------------------------------------------------------------------------
LEMMA EvidenceInvStep ==
  ASSUME EvidenceAssumptions, EvidenceInv, [EvidenceNext]_evidenceVars PROVE EvidenceInv'
<1> USE StepsAre
<1>0. EvidenceTypeOK /\ RecordsAreTrue /\ OrderInv /\ FreshInv
  BY DEF EvidenceInv
<1>1. /\ project \in 0..built /\ built \in 0..MaxBuilds /\ MaxBuilds \in Nat
      /\ mem \in Results /\ kept \in Results /\ artifact \in Record
      /\ steps \in [Step -> {"pending", "passed", "failed", "skipped"}]
      /\ at \in Step /\ mode \in {"runs", "stopped", "done"} /\ jumped \in BOOLEAN
      /\ ran \in Seq([kind : {"test", "user"}, ok : BOOLEAN, of : 0..MaxBuilds, own : BOOLEAN])
      /\ contract \in Contracts /\ script \in {"own", "changed"} /\ accepted \subseteq 1..built
      /\ requests \in 0..MaxRequests /\ MaxRequests \in Nat
  BY <1>0, TypesAre DEF EvidenceTypeOK, EvidenceAssumptions
<1>2. ASSUME mem' \in Results, kept' \in Results, artifact' \in Record,
             steps' \in [Step -> {"pending", "passed", "failed", "skipped"}],
             at' \in Step, mode' \in {"runs", "stopped", "done"}, jumped' \in BOOLEAN,
             ran' \in Seq([kind : {"test", "user"}, ok : BOOLEAN, of : 0..MaxBuilds,
                           own : BOOLEAN]),
             UNCHANGED contract, script' \in {"own", "changed"},
             project' \in 0..built', built' \in 0..MaxBuilds, accepted' \subseteq 1..built',
             requests' \in 0..MaxRequests
      PROVE  EvidenceTypeOK'
  BY <1>1, <1>2 DEF EvidenceTypeOK, Results, Record, Statuses
<1>3. \A said \in Statuses : Rec(said) \in Record
  BY <1>1 DEF Rec, Record
<1>4. CASE BuildStep
  <2>1. /\ Running(Build) /\ built < MaxBuilds /\ built' = built + 1 /\ project' = built'
        /\ UNCHANGED <<contract, script, artifact, requests, ran, jumped>>
        /\ \/ Passes(Build, mem) /\ accepted' = accepted \cup {built'}
           \/ Stops(Build) /\ UNCHANGED accepted
    BY <1>4 DEF BuildStep
  <2>2. /\ OrderInv' /\ at' \in Step /\ mode' \in {"runs", "stopped", "done"}
        /\ steps' \in [Step -> {"pending", "passed", "failed", "skipped"}]
    BY <1>0, <2>1, ExecutorOrder DEF Fails
  <2>3. mem = kept /\ mem' = kept /\ kept' = kept
    BY <1>0, <2>1, PassedLeaves, FailedLeaves DEF Running, OrderInv, Fails
  <2>4. steps'[RunTest] # "passed" /\ steps'[External] # "passed"
    <3>1. steps[RunTest] = "pending" /\ steps[External] = "pending"
      BY <1>0, <2>1 DEF Running, OrderInv
    <3> QED BY <1>0, <2>1, <3>1, PassedLeaves, FailedLeaves DEF Fails
  <2>5. EvidenceTypeOK'
    <3>1. built' \in 0..MaxBuilds /\ project' \in 0..built' /\ accepted' \subseteq 1..built'
      <4>1. built + 1 \in 0..MaxBuilds /\ 1..built \subseteq 1..(built + 1)
        BY <1>1, <2>1
      <4>2. accepted' \subseteq accepted \cup {built + 1}
        BY <2>1
      <4>3. built + 1 \in 0..(built + 1) /\ built + 1 \in 1..(built + 1)
        BY <1>1
      <4> QED BY <1>1, <2>1, <4>1, <4>2, <4>3
    <3> QED BY <1>1, <1>2, <2>1, <2>2, <2>3, <3>1
  <2>6. RecordsAreTrue'
    BY <1>0, <2>1, <2>3 DEF RecordsAreTrue, Claims, RanWell
  <2>7. FreshInv'
    BY <2>4 DEF FreshInv
  <2> QED BY <2>2, <2>5, <2>6, <2>7 DEF EvidenceInv
<1>5. CASE TestStep
  <2>1. PICK ok \in BOOLEAN :
          /\ ran' = Append(ran, Executed("test", ok, TRUE))
          /\ IF ok THEN Passes(RunTest, [mem EXCEPT !.test = Rec("passed")]) ELSE Fails(RunTest)
    BY <1>5 DEF TestStep
  <2>2. /\ Running(RunTest)
        /\ UNCHANGED <<contract, project, built, script, artifact, accepted, requests, jumped>>
    BY <1>5 DEF TestStep
  <2>3. /\ OrderInv' /\ at' \in Step /\ mode' \in {"runs", "stopped", "done"}
        /\ steps' \in [Step -> {"pending", "passed", "failed", "skipped"}]
    BY <1>0, <2>1, <2>2, ExecutorOrder
  <2>4. mem = kept /\ steps[External] = "pending"
    BY <1>0, <2>2 DEF Running, OrderInv
  <2>5. \A kind, c : RanWell(kind, c) => RanWell(kind, c)'
    BY <1>0, <2>1, RanStays
  <2>6. steps'[External] # "passed"
    BY <1>0, <2>1, <2>4, PassedLeaves, FailedLeaves
  <2>8. /\ ran' \in Seq([kind : {"test", "user"}, ok : BOOLEAN, of : 0..MaxBuilds, own : BOOLEAN])
        /\ ok => RanWell("test", project)'
    BY <1>0, <2>1, <2>2, RanLast
  <2>9. CASE ok
    <3> DEFINE new == [mem EXCEPT !.test = Rec("passed")]
    <3>1. /\ mem' = new /\ kept' = new /\ new.test = Rec("passed") /\ new.user = kept.user
          /\ new \in Results
      BY <1>0, <1>1, <1>3, <2>1, <2>4, <2>9, PassedLeaves DEF Results, Statuses
    <3>3. EvidenceTypeOK'
      BY <1>1, <1>2, <2>2, <2>3, <2>8, <3>1
    <3>4. RecordsAreTrue'
      BY <1>0, <2>2, <2>5, <2>8, <2>9, <3>1 DEF RecordsAreTrue, Claims, Rec
    <3>5. FreshInv'
      BY <2>2, <2>6, <3>1 DEF FreshInv, Fresh, Rec
    <3> QED BY <2>3, <3>3, <3>4, <3>5 DEF EvidenceInv
  <2>10. CASE ~ok
    <3>1. /\ mem' = kept /\ kept' = kept /\ steps'[RunTest] # "passed"
      BY <1>0, <2>1, <2>10, FailedLeaves
    <3>2. EvidenceTypeOK'
      BY <1>1, <1>2, <2>2, <2>3, <2>8, <3>1
    <3>3. RecordsAreTrue'
      BY <1>0, <2>2, <2>5, <3>1 DEF RecordsAreTrue, Claims
    <3>4. FreshInv'
      BY <2>6, <3>1 DEF FreshInv
    <3> QED BY <2>3, <3>2, <3>3, <3>4 DEF EvidenceInv
  <2> QED BY <2>9, <2>10
<1>6. CASE ExternalStep
  <2>1. /\ Running(External)
        /\ UNCHANGED <<contract, project, built, script, accepted, requests, jumped>>
    BY <1>6 DEF ExternalStep
  <2>2. mem = kept
    BY <1>0, <2>1 DEF Running, OrderInv
  \* It passes: the record and the file say the same, of what there is.
  <2>3. ASSUME NEW said \in {"passed", "not_configured"},
               artifact' = Rec(said), Passes(External, [mem EXCEPT !.user = Rec(said)]),
               ran' \in Seq([kind : {"test", "user"}, ok : BOOLEAN, of : 0..MaxBuilds,
                             own : BOOLEAN]),
               ran' = ran \/ \E e : ran' = Append(ran, e),
               said = "passed" => RanWell("user", project)'
        PROVE  EvidenceInv'
    <3> DEFINE new == [mem EXCEPT !.user = Rec(said)]
    <3>1. /\ OrderInv' /\ at' \in Step /\ mode' \in {"runs", "stopped", "done"}
          /\ steps' \in [Step -> {"pending", "passed", "failed", "skipped"}]
      BY <1>0, <2>1, <2>3, ExecutorOrder
    <3>2. /\ mem' = new /\ kept' = new /\ new.user = Rec(said) /\ new.test = kept.test
          /\ new \in Results
          /\ \A t \in Step : t # External => steps'[t] = steps[t]
      BY <1>0, <1>1, <1>3, <2>2, <2>3, PassedLeaves DEF Results, Statuses
    <3>3. \A kind, c : RanWell(kind, c) => RanWell(kind, c)'
      BY <1>0, <2>3, RanStays
    <3>4. EvidenceTypeOK'
      BY <1>1, <1>2, <1>3, <2>1, <2>3, <3>1, <3>2 DEF Statuses
    <3>5. RecordsAreTrue'
      BY <1>0, <2>1, <2>3, <3>2, <3>3 DEF RecordsAreTrue, Claims, Rec
    <3>6. FreshInv'
      BY <1>0, <2>1, <2>3, <3>2 DEF FreshInv, Fresh, Rec
    <3> QED BY <3>1, <3>4, <3>5, <3>6 DEF EvidenceInv
  \* It fails, and the file says so.
  <2>4. ASSUME NEW said \in {"blocked", "failed"},
               artifact' = Rec(said), Fails(External),
               ran' \in Seq([kind : {"test", "user"}, ok : BOOLEAN, of : 0..MaxBuilds,
                             own : BOOLEAN]),
               ran' = ran \/ \E e : ran' = Append(ran, e)
        PROVE  EvidenceInv'
    <3>1. /\ OrderInv' /\ at' \in Step /\ mode' \in {"runs", "stopped", "done"}
          /\ steps' \in [Step -> {"pending", "passed", "failed", "skipped"}]
      BY <1>0, <2>1, <2>4, ExecutorOrder
    <3>2. /\ mem' = kept /\ kept' = kept
          /\ steps'[External] # "passed"
          /\ steps'[RunTest] = "passed" => steps[RunTest] = "passed"
      BY <1>0, <2>4, FailedLeaves
    <3>3. \A kind, c : RanWell(kind, c) => RanWell(kind, c)'
      BY <1>0, <2>4, RanStays
    <3>4. EvidenceTypeOK'
      BY <1>1, <1>2, <1>3, <2>1, <2>4, <3>1, <3>2 DEF Statuses
    <3>5. RecordsAreTrue'
      BY <1>0, <2>1, <2>4, <3>2, <3>3 DEF RecordsAreTrue, Claims, Rec
    <3>6. FreshInv'
      BY <1>0, <2>1, <3>2 DEF FreshInv, Fresh
    <3> QED BY <3>1, <3>4, <3>5, <3>6 DEF EvidenceInv
  <2>5. CASE UNCHANGED ran
    <3>1. \/ /\ artifact' = Rec("not_configured")
             /\ Passes(External, [mem EXCEPT !.user = Rec("not_configured")])
          \/ artifact' = Rec("blocked") /\ Fails(External)
          \/ \E e : ran' = Append(ran, e)
      BY <1>6 DEF ExternalStep
    <3>2. ~\E e : ran' = Append(ran, e)
      BY <1>1, <2>5
    <3> QED BY <1>1, <2>3, <2>4, <2>5, <3>1, <3>2
  <2>6. CASE ~UNCHANGED ran
    <3>1. PICK ok \in BOOLEAN :
            /\ ran' = Append(ran, Executed("user", ok, script = "own")) /\ Verified
            /\ artifact' = Rec(IF ok THEN "passed" ELSE "failed")
            /\ IF ok THEN Passes(External, [mem EXCEPT !.user = Rec("passed")])
               ELSE Fails(External)
      BY <1>6, <2>6 DEF ExternalStep
    <3>2. /\ ran' = Append(ran, Executed("user", ok, TRUE))
      BY <3>1 DEF Verified
    <3>3. /\ ran' \in Seq([kind : {"test", "user"}, ok : BOOLEAN, of : 0..MaxBuilds,
                            own : BOOLEAN])
          /\ ok => RanWell("user", project)'
      BY <1>0, <2>1, <3>2, RanLast
    <3> QED BY <2>3, <2>4, <3>1, <3>3
  <2> QED BY <2>5, <2>6
<1>7. CASE FinalStep
  <2>1. /\ Running(Final) /\ IF Evident(mem) THEN Passes(Final, mem) ELSE Fails(Final)
        /\ UNCHANGED <<contract, project, built, script, artifact, accepted, requests, ran, jumped>>
    BY <1>7 DEF FinalStep
  <2>2. /\ OrderInv' /\ at' \in Step /\ mode' \in {"runs", "stopped", "done"}
        /\ steps' \in [Step -> {"pending", "passed", "failed", "skipped"}]
    BY <1>0, <2>1, ExecutorOrder
  <2>3. /\ mem = kept /\ mem' = kept /\ kept' = kept
        /\ \A t \in {RunTest, External} : steps'[t] = "passed" => steps[t] = "passed"
    BY <1>0, <2>1, PassedLeaves, FailedLeaves DEF Running, OrderInv
  <2>4. EvidenceTypeOK'
    BY <1>1, <1>2, <2>1, <2>2, <2>3
  <2>5. RecordsAreTrue' /\ FreshInv'
    BY <1>0, <2>1, <2>3 DEF RecordsAreTrue, Claims, RanWell, FreshInv, Fresh
  <2> QED BY <2>2, <2>4, <2>5 DEF EvidenceInv
<1>8. CASE Tamper
  BY <1>0, <1>1, <1>2, <1>8 DEF Tamper, EvidenceInv, RecordsAreTrue, Claims, RanWell, OrderInv,
     FreshInv, Fresh
<1>9. ASSUME NEW s \in Step, RunFrom(s) PROVE EvidenceInv'
  <2>1. /\ mode' = "runs" /\ at' = s /\ mem' = kept
        /\ steps' = [t \in Step |-> IF t >= s THEN "pending" ELSE steps[t]]
        /\ jumped' = (jumped \/ s > FirstUnpassed)
        /\ requests < MaxRequests /\ requests' = requests + 1
        /\ UNCHANGED <<contract, project, built, script, kept, artifact, accepted, ran>>
    BY <1>9 DEF RunFrom, Request
  <2>2. ~jumped' => ~jumped /\ \A t \in Step : t < s => steps[t] = "passed"
    <3>1. SUFFICES ASSUME ~(s > FirstUnpassed), NEW t \in Step, t < s, steps[t] # "passed"
                   PROVE  FALSE
      BY <2>1
    <3>2. t \in Unpassed
      BY <1>1, <3>1 DEF Unpassed
    <3>3. \E x \in Unpassed : \A y \in Unpassed : x =< y
      <4>1. CASE 1 \in Unpassed
        BY <4>1 DEF Unpassed
      <4>2. CASE 1 \notin Unpassed /\ 2 \in Unpassed
        BY <4>2 DEF Unpassed
      <4>3. CASE 1 \notin Unpassed /\ 2 \notin Unpassed /\ 3 \in Unpassed
        BY <4>3 DEF Unpassed
      <4>4. CASE 1 \notin Unpassed /\ 2 \notin Unpassed /\ 3 \notin Unpassed
        BY <3>2, <4>4 DEF Unpassed
      <4> QED BY <4>1, <4>2, <4>3, <4>4
    <3>4. FirstUnpassed \in Step /\ FirstUnpassed <= t
      BY <3>2, <3>3 DEF FirstUnpassed, Min, Unpassed
    <3> QED BY <3>1, <3>4
  <2>3. EvidenceTypeOK'
    BY <1>1, <1>2, <2>1
  <2>4. RecordsAreTrue'
    BY <1>0, <2>1 DEF RecordsAreTrue, Claims, RanWell
  <2>5. OrderInv'
    BY <1>1, <2>1, <2>2 DEF OrderInv
  <2>6. FreshInv'
    BY <1>0, <1>1, <2>1, <2>2 DEF FreshInv, Fresh
  <2> QED BY <2>3, <2>4, <2>5, <2>6 DEF EvidenceInv
<1>10. ASSUME NEW s \in Step, NEW said \in {"skipped", "passed"}, Override(s, said)
       PROVE  EvidenceInv'
  <2>1. /\ mode # "runs" /\ jumped' = TRUE
        /\ requests < MaxRequests /\ requests' = requests + 1
        /\ steps' \in [Step -> {"pending", "passed", "failed", "skipped"}]
        /\ UNCHANGED <<contract, project, built, script, mem, kept, artifact, at, mode,
                       accepted, ran>>
    BY <1>1, <1>10 DEF Override, Request
  <2>2. EvidenceTypeOK'
    BY <1>1, <1>2, <2>1
  <2> QED BY <1>0, <2>1, <2>2
      DEF EvidenceInv, RecordsAreTrue, Claims, RanWell, OrderInv, FreshInv
<1>11. ASSUME NEW c \in accepted, Rollback(c) PROVE EvidenceInv'
  <2>1. /\ mode # "runs" /\ project' = c /\ accepted' = {d \in accepted : d <= c}
        /\ kept' = NoResults /\ requests < MaxRequests /\ requests' = requests + 1
        /\ UNCHANGED <<contract, built, script, mem, artifact, steps, at, mode, ran, jumped>>
    BY <1>11 DEF Rollback, Request, AfterRollback
  <2>2. NoResults \in Results /\ NoResults.test.status = "none" /\ NoResults.user.status = "none"
    BY <1>1 DEF NoResults, Nothing, Results, Record, Statuses
  <2>3. project' \in 0..built' /\ accepted' \subseteq 1..built'
    <3>1. c \in 1..built /\ accepted' \subseteq accepted
      BY <1>1, <2>1
    <3>2. c \in 0..built /\ built' = built /\ project' = c
      BY <1>1, <2>1, <3>1
    <3>3. accepted' \subseteq 1..built
      BY <1>1, <3>1
    <3> QED BY <3>2, <3>3
  <2>4. EvidenceTypeOK'
    BY <1>1, <1>2, <2>1, <2>2, <2>3
  <2> QED BY <1>0, <2>1, <2>2, <2>4
      DEF EvidenceInv, RecordsAreTrue, Claims, RanWell, OrderInv, FreshInv, Fresh
<1>12. CASE UNCHANGED evidenceVars
  BY <1>0, <1>1, <1>2, <1>12
  DEF evidenceVars, EvidenceInv, RecordsAreTrue, Claims, RanWell, OrderInv, FreshInv, Fresh
<1> QED BY <1>4, <1>5, <1>6, <1>7, <1>8, <1>9, <1>10, <1>11, <1>12 DEF EvidenceNext

LEMMA EvidenceInvAlways ==
  ASSUME EvidenceAssumptions PROVE EvidenceSpec => []EvidenceInv
<1>1. EvidenceInit => EvidenceInv
  BY EvidenceInvInit
<1>2. EvidenceInv /\ [EvidenceNext]_evidenceVars => EvidenceInv'
  BY EvidenceInvStep
<1> QED BY <1>1, <1>2, PTL DEF EvidenceSpec

\* A run only becomes done by its last step, from what is in its records.
LEMMA DoneByFinal ==
  ASSUME EvidenceAssumptions, EvidenceInv, EvidenceNext, Done
  PROVE  Running(Final) /\ Evident(mem)
<1> USE StepsAre
<1>1. \A s \in Step : ~Recovers(s) /\ ~Stops(s)
  BY DEF Done, Recovers, Stops
<1>2. \A s \in Step : \A results : Passes(s, results) => s = Final
  BY DEF Done, Passes
<1>3. ~BuildStep /\ ~TestStep /\ ~ExternalStep
  <2>1. ~Fails(Build) /\ ~Fails(RunTest) /\ ~Fails(External) /\ ~Stops(Build)
    BY <1>1 DEF Fails
  <2>2. \A results : ~Passes(Build, results) /\ ~Passes(RunTest, results)
                      /\ ~Passes(External, results)
    BY <1>2
  <2>3. ~BuildStep
    BY <2>1, <2>2, Zenon DEF BuildStep
  <2>4. ~TestStep
    BY <2>1, <2>2, Zenon DEF TestStep
  <2>5. ~ExternalStep
    BY <2>1, <2>2, Zenon DEF ExternalStep
  <2> QED BY <2>3, <2>4, <2>5
<1>4. ~Tamper /\ (\A s \in Step : ~RunFrom(s))
      /\ \A s \in Step : \A said \in {"skipped", "passed"} : ~Override(s, said)
  BY DEF Done, Tamper, RunFrom, Override
<1>5. \A c \in accepted : ~Rollback(c)
  BY DEF Done, Rollback
<1>6. FinalStep
  BY <1>3, <1>4, <1>5 DEF EvidenceNext
<1> QED BY <1>1, <1>6 DEF FinalStep, Fails

\* What the records say at the end has happened, and without a step gone past it
\* happened to the project there is.
LEMMA EvidenceHolds ==
  ASSUME EvidenceAssumptions, EvidenceInv, Running(Final), Evident(mem)
  PROVE  /\ RanWell("test", mem.test.of) \/ RanWell("user", mem.user.of)
         /\ ~jumped => RanWell("test", project) \/ RanWell("user", project)
         /\ contract = "required" =>
              /\ RanWell("user", mem.user.of) \/ RanWell("user", artifact.of)
              /\ ~jumped => RanWell("user", project)
<1> USE StepsAre
<1>1. EvidenceTypeOK /\ RecordsAreTrue /\ OrderInv /\ FreshInv /\ mem \in Results
  BY TypesAre DEF EvidenceInv
<1>2. mem = kept
  BY <1>1 DEF Running, OrderInv
<1>3. mem.test.status = "passed" \/ mem.user.status = "passed"
  BY DEF Evident, Succeeded, OK
<1>4. contract = "required" => mem.user.status = "passed" \/ artifact.status = "passed"
  BY DEF Evident, Succeeded, OK
<1>5. mem # NoResults
  BY <1>3 DEF NoResults, Nothing
<1>6. ~jumped => Fresh(mem.test) /\ Fresh(mem.user) /\ Fresh(artifact)
  <2>1. ~jumped => steps[RunTest] = "passed" /\ steps[External] = "passed"
    BY <1>1 DEF Running, OrderInv
  <2> QED BY <1>1, <1>2, <1>5, <2>1 DEF FreshInv
<1> QED BY <1>1, <1>3, <1>4, <1>6 DEF RecordsAreTrue, Claims, Fresh

\* Every variable keeps its type.
THEOREM EvidenceTypeCorrect ==
  ASSUME EvidenceAssumptions PROVE EvidenceSpec => []EvidenceTypeOK
BY EvidenceInvAlways, PTL DEF EvidenceInv

\* What a run is done by has been executed and has succeeded: with the project it is
\* done with, unless the user went past a step, and by the user's own script, where
\* that is required. For any number of builds, restarts, rollbacks and requests.
THEOREM DoneRunsAreTested == ASSUME EvidenceAssumptions PROVE EvidenceSpec => DoneIsEarned
<1> DEFINE Tried == Done => \E i \in DOMAIN ran : ran[i].ok
           Own == Done /\ contract = "required" =>
             \E i \in DOMAIN ran : ran[i].kind = "user" /\ ran[i].ok /\ ran[i].own
           Tested == Done /\ ~jumped =>
             /\ \E i \in DOMAIN ran : ran[i].ok /\ ran[i].of = project
             /\ contract = "required" =>
                  \E i \in DOMAIN ran :
                    ran[i].kind = "user" /\ ran[i].ok /\ ran[i].of = project
<1>1. EvidenceInv /\ [EvidenceNext]_evidenceVars =>
        [Tried]_evidenceVars /\ [Own]_evidenceVars /\ [Tested]_evidenceVars
  <2>1. SUFFICES ASSUME EvidenceInv, EvidenceNext, Done PROVE Tried /\ Own /\ Tested
    OBVIOUS
  <2>2. Running(Final) /\ Evident(mem)
    BY <2>1, DoneByFinal
  <2>3. /\ RanWell("test", mem.test.of) \/ RanWell("user", mem.user.of)
        /\ ~jumped => RanWell("test", project) \/ RanWell("user", project)
        /\ contract = "required" =>
             /\ RanWell("user", mem.user.of) \/ RanWell("user", artifact.of)
             /\ ~jumped => RanWell("user", project)
    BY <2>1, <2>2, EvidenceHolds
  <2> QED BY <2>3 DEF RanWell
<1>2. EvidenceSpec => [][Tried]_evidenceVars /\ [][Own]_evidenceVars /\ [][Tested]_evidenceVars
  BY <1>1, EvidenceInvAlways, PTL DEF EvidenceSpec
<1> QED BY <1>2 DEF DoneIsEarned, DoneIsTested, NothingIsDoneUntried, DoneByOwnScript

-----------------------------------------------------------------------------
(* Validation.                                                             *)

Place == {"none", "created", "preflight", "works", "failed", "delivered", "refused", "review"}
Run == [at : Place, full : BOOLEAN, atomic : BOOLEAN, profile : Profile \cup {None},
        loaded : Profile \cup {None}, base : Baseline \cup {None}, env : BOOLEAN,
        copied : 0..MaxEdits, tries : 0..MaxRetries, jumped : BOOLEAN,
        fails : AnyOutcome \cup {None}, evidence : Selection \cup {None}]

\* What the types say, one by one.
PhasesTyped ==
  /\ descriptors \in 0..MaxEdits /\ MaxEdits \in Nat /\ MaxRetries \in Nat
  /\ profile \in Profile \cup {None} /\ verification \in [Call -> Profile \cup {None}]
  /\ run \in Run
  /\ run.at # "none" => run.profile # None
  /\ run.at = "preflight" => run.loaded # None

LEMMA PhasesTypesAre ==
  ASSUME PhasesAssumptions PROVE PhasesTypeOK => PhasesTyped
BY DEF PhasesTypeOK, PhasesTyped, PhasesAssumptions, Run, Place

LEMMA TypesFromPhases == PhasesTyped => PhasesTypeOK
BY DEF PhasesTypeOK, PhasesTyped, Run, Place

-----------------------------------------------------------------------------
(* Lemmas on the operators.                                                *)

LEMMA DetectedIsTyped ==
  ASSUME NEW d \in 0..MaxEdits PROVE DetectedIn(d) \in SUBSET AnyPhase
BY Zenon DEF AnyPhase

LEMMA PlansAreTyped ==
  ASSUME NEW prof \in Profile, NEW d \in 0..MaxEdits
  PROVE  PlanOf(prof, d) \in SUBSET AnyPhase
<1>1. DetectedIn(d) \subseteq AnyPhase
  BY DetectedIsTyped
<1> QED BY <1>1 DEF PlanOf, Profile

LEMMA OutcomesAreTyped ==
  ASSUME NEW plan \in SUBSET AnyPhase, NEW fails \in Outcomes(plan) PROVE fails \in AnyOutcome
<1>1. {p.id : p \in plan} \in SUBSET {p.id : p \in AnyPhase}
  OBVIOUS
<1> QED BY <1>1, Zenon DEF Outcomes, AnyOutcome

\* What a plan's execution is called: passed only when nothing required failed, or
\* nothing that had not failed in the baseline.
LEMMA StatusCases ==
  ASSUME NEW plan, NEW fails, NEW base
  PROVE  /\ Status(plan, fails, base) \in {"passed", "passed_with_baseline", "failed", "skipped"}
         /\ Status(plan, fails, base) = "passed" => RequiredFailures(plan, fails) = {}
         /\ Status(plan, fails, base) = "passed_with_baseline" =>
              base # None /\ \A p \in RequiredFailures(plan, fails) : Tolerated(p, fails, base)
BY DEF Status

LEMMA DraftsAreTyped ==
  ASSUME PhasesTyped, NEW plan \in SUBSET AnyPhase
  PROVE  /\ Draft(plan) \in Profile
         /\ Draft(plan).status = "draft" /\ Draft(plan).fp = descriptors
BY DEF PhasesTyped, Draft, Profile

\* What is loaded is a profile, and counts as verified only as it is in the file.
LEMMA LoadedCases ==
  ASSUME PhasesTyped
  PROVE  /\ Loaded \in Profile
         /\ profile = None => Loaded.status = "draft" /\ Loaded.fp = descriptors
         /\ profile # None /\ Loaded.status = "verified" =>
              profile.fp = descriptors /\ profile.status = "verified"
<1>1. DetectedIn(descriptors) \in SUBSET AnyPhase
  BY DetectedIsTyped DEF PhasesTyped
<1>2. CASE profile = None
  BY <1>1, <1>2, DraftsAreTyped DEF Loaded
<1>3. CASE profile # None
  <2>1. profile \in Profile
    BY <1>3 DEF PhasesTyped
  <2> QED BY <1>3, <2>1 DEF Loaded, Profile
<1> QED BY <1>2, <1>3

LEMMA RecordedIs ==
  ASSUME PhasesTyped, NEW prof \in Profile, NEW said
  PROVE  /\ Recorded(prof, said) \in Profile /\ Recorded(prof, said).plan = prof.plan
         /\ Recorded(prof, said).fp = descriptors
         /\ Recorded(prof, said).status =
              IF said \in {"passed", "passed_with_baseline"} THEN "verified" ELSE "draft"
BY DEF PhasesTyped, Recorded, Profile

-----------------------------------------------------------------------------
(* The invariant.                                                          *)

\* What a run has measured before it works, and that it stays what it was judged by.
RunInv ==
  /\ run.at = "preflight" => run.base = None
  /\ run.base # None /\ run.atomic =>
       run.base.plan # {} /\ RequiredFailures(run.base.plan, run.base.fails) = {}
  /\ run.at = "works" /\ ~run.jumped => run.base # None
  /\ run.evidence # None => run.at = "review"
  /\ DeliveredIsTrusted /\ DeliveredIsValidated /\ NoNewFailures

\* The profile in the file is of descriptors there have been.
ProfileInv ==
  /\ profile # None => profile.fp <= descriptors
  /\ run.at = "none" => run.base = None
  /\ VerifiedAsItIs

\* A run keeps the copy that its baseline is of.
BaseStays ==
  /\ run.base # None => run'.base # None /\ run'.copied = run.copied
  /\ run'.at = "none" => run'.base = None

PhasesInv == PhasesTyped /\ RunInv /\ ProfileInv

LEMMA PhasesInvInit == ASSUME PhasesAssumptions, PhasesInit PROVE PhasesInv
<1>1. /\ descriptors = 0 /\ profile = None /\ verification = [c \in Call |-> None]
      /\ run = NoRun /\ 0 \in 0..MaxEdits /\ 0 \in 0..MaxRetries
      /\ MaxEdits \in Nat /\ MaxRetries \in Nat
  BY DEF PhasesInit, PhasesAssumptions
<1>2. /\ run.at = "none" /\ run.base = None /\ run.evidence = None
      /\ run \in Run
  BY <1>1 DEF NoRun, Run, Place
<1> QED BY <1>1, <1>2 DEF PhasesInv, PhasesTyped, RunInv, ProfileInv, DeliveredIsTrusted,
       DeliveredIsValidated, NoNewFailures, VerifiedAsItIs

\* A step that leaves the run alone, and what it delivered.
LEMMA RunRests ==
  ASSUME RunInv, UNCHANGED run, Followed \/ UNCHANGED descriptors PROVE RunInv'
BY DEF RunInv, Followed, DeliveredIsTrusted, DeliveredIsValidated, NoNewFailures

\* A step that leaves the profile alone, but may have seen more.
LEMMA ProfileRests ==
  ASSUME ProfileInv, UNCHANGED <<profile, descriptors>>, seen \subseteq seen',
         BaseStays
  PROVE  ProfileInv'
<1>1. Loaded' = Loaded
  BY DEF Loaded, Draft
<1>2. VerifiedAsItIs'
  BY <1>1 DEF ProfileInv, VerifiedAsItIs, BaseStays
<1> QED BY <1>2 DEF ProfileInv, BaseStays

\* A step that writes a profile of now into the file: one that counts as verified
\* has just been seen to pass.
LEMMA ProfileWritten ==
  ASSUME PhasesTyped, ProfileInv, UNCHANGED descriptors,
         profile' \in Profile, profile'.fp <= descriptors,
         BaseStays,
         profile'.status = "verified" /\ profile'.fp = descriptors =>
           \E s \in seen' :
             /\ s.of = descriptors \/ (run'.base # None /\ s.of = run'.copied)
             /\ s.plan \in {PlanOf(profile', s.of),
                            Chosen(PlanOf(profile', s.of), BaselineCategories)}
  PROVE  ProfileInv'
<1>1. CASE profile' = None
  BY <1>1 DEF ProfileInv, VerifiedAsItIs, BaseStays
<1>2. CASE profile' # None
  <2>1. Loaded'.status = "verified" => profile'.fp = descriptors /\ profile'.status = "verified"
    BY <1>2 DEF Loaded, Profile
  <2> QED BY <1>2, <2>1 DEF ProfileInv, VerifiedAsItIs, Trusted, BaseStays
<1> QED BY <1>1, <1>2

\* load_profile writes a draft, where there is none.
LEMMA LoadKeeps ==
  ASSUME PhasesTyped, ProfileInv, Load, UNCHANGED <<descriptors, seen>>, BaseStays
  PROVE  ProfileInv' /\ profile' \in Profile \cup {None}
<1>1. CASE profile = None
  <2>1. profile' \in Profile /\ profile'.status = "draft" /\ profile'.fp = descriptors
    BY <1>1, LoadedCases DEF Load
  <2> QED BY <2>1, ProfileWritten DEF PhasesTyped
<1>2. CASE profile # None
  BY <1>2, ProfileRests DEF Load, PhasesTyped
<1> QED BY <1>1, <1>2

LEMMA PhasesInvStep ==
  ASSUME PhasesAssumptions, NothingIsNone, Alone, PhasesInv, [PhasesNext]_phaseVars
  PROVE  PhasesInv'
<1>0. PhasesTyped /\ RunInv /\ ProfileInv
  BY DEF PhasesInv
<1>1. /\ descriptors \in 0..MaxEdits /\ MaxEdits \in Nat /\ MaxRetries \in Nat
      /\ profile \in Profile \cup {None} /\ verification \in [Call -> Profile \cup {None}]
      /\ run \in Run
      /\ run.at # "none" => run.profile # None
      /\ run.at = "preflight" => run.loaded # None
  BY <1>0 DEF PhasesTyped
<1>2. Loaded \in Profile /\ None \notin Profile /\ None \notin Baseline /\ None \notin Selection
  BY <1>0, LoadedCases DEF NothingIsNone
<1>3. UNCHANGED run => BaseStays
  BY <1>0 DEF ProfileInv, BaseStays
<1>4. CASE EditDescriptors
  <2>1. /\ Followed /\ ~Validating
        /\ descriptors < MaxEdits /\ descriptors' = descriptors + 1
        /\ UNCHANGED <<profile, verification, run>>
    BY <1>4 DEF EditDescriptors, MayEdit
  <2>2. PhasesTyped'
    BY <1>1, <2>1 DEF PhasesTyped
  <2>3. RunInv'
    BY <1>0, <2>1, RunRests
  <2>4. profile # None => profile'.fp # descriptors'
    BY <1>0, <1>1, <2>1 DEF ProfileInv, Profile
  <2>5. Loaded'.status # "verified" \/ profile' = None
    BY <1>1, <2>1, <2>4 DEF Loaded, Profile
  <2>6. ProfileInv'
    BY <1>0, <1>1, <2>1, <2>5 DEF ProfileInv, VerifiedAsItIs, Trusted, Profile
  <2> QED BY <2>2, <2>3, <2>6 DEF PhasesInv
<1>5. ASSUME NEW plan \in Plans, Update(plan) PROVE PhasesInv'
  <2>1. /\ UNCHANGED <<descriptors, verification, run, seen>>
        /\ profile' = Updated(plan) /\ plan \subseteq AnyPhase
    BY <1>5, Zenon DEF Update, AnyPhase
  <2>2. /\ profile' \in Profile /\ profile'.fp = descriptors /\ profile'.status = "draft"
    BY <1>1, <1>2, <2>1 DEF Updated, Profile
  <2>3. PhasesTyped' /\ RunInv'
    BY <1>0, <1>1, <2>1, <2>2, RunRests DEF PhasesTyped
  <2>4. ProfileInv'
    BY <1>0, <1>1, <1>3, <2>1, <2>2, ProfileWritten
  <2> QED BY <2>3, <2>4 DEF PhasesInv
<1>6. CASE Refresh
  <2>1. /\ UNCHANGED <<descriptors, verification, run, seen>>
        /\ profile' \in Profile /\ profile'.fp = descriptors /\ profile'.status = "draft"
    BY <1>0, <1>1, <1>6, DetectedIsTyped, DraftsAreTyped DEF Refresh
  <2>2. PhasesTyped' /\ RunInv'
    BY <1>0, <1>1, <2>1, RunRests DEF PhasesTyped
  <2>3. ProfileInv'
    BY <1>0, <1>1, <1>3, <2>1, ProfileWritten
  <2> QED BY <2>2, <2>3 DEF PhasesInv
<1>7. ASSUME NEW c \in Call, VerifyBegins(c) PROVE PhasesInv'
  <2>1. /\ verification' = [verification EXCEPT ![c] = Loaded] /\ Load
        /\ UNCHANGED <<descriptors, run, seen>>
    BY <1>7 DEF VerifyBegins
  <2>2. ProfileInv' /\ profile' \in Profile \cup {None}
    BY <1>0, <1>3, <2>1, LoadKeeps
  <2>3. PhasesTyped' /\ RunInv'
    BY <1>0, <1>1, <1>2, <2>1, <2>2, RunRests DEF PhasesTyped
  <2> QED BY <2>2, <2>3 DEF PhasesInv
<1>8. ASSUME NEW c \in Call, VerifyEnds(c) PROVE PhasesInv'
  <2> DEFINE prof == verification[c]
             plan == PlanOf(prof, descriptors)
  <2>1. prof \in Profile
    BY <1>1, <1>8 DEF VerifyEnds
  <2>2. PICK fails \in Outcomes(plan) :
          /\ profile' = Recorded(prof, Status(plan, fails, None))
          /\ Seen(plan, descriptors, Status(plan, fails, None))
    BY <1>8 DEF VerifyEnds
  <2>3. /\ verification' = [verification EXCEPT ![c] = None] /\ UNCHANGED <<descriptors, run>>
    BY <1>8 DEF VerifyEnds
  <2>4. Status(plan, fails, None) # "passed_with_baseline"
    BY StatusCases
  <2>5. /\ profile' \in Profile /\ profile'.plan = prof.plan /\ profile'.fp = descriptors
        /\ profile'.status = "verified" => Status(plan, fails, None) = "passed"
    BY <1>0, <2>1, <2>2, <2>4, RecordedIs
  <2>6. PlanOf(profile', descriptors) = plan
    BY <2>5 DEF PlanOf
  <2>7. profile'.status = "verified" => [plan |-> plan, of |-> descriptors] \in seen'
    BY <2>2, <2>5 DEF Seen
  <2> HIDE DEF prof, plan
  <2>8. profile'.status = "verified" =>
          \E s \in seen' : s.of = descriptors /\ s.plan = PlanOf(profile', s.of)
    BY <2>6, <2>7
  <2>9. ProfileInv'
    BY <1>0, <1>1, <1>3, <2>3, <2>5, <2>8, ProfileWritten
  <2>10. PhasesTyped' /\ RunInv'
    BY <1>0, <1>1, <2>3, <2>5, RunRests DEF PhasesTyped
  <2> QED BY <2>9, <2>10 DEF PhasesInv
<1>9. ASSUME NEW full \in BOOLEAN, CreateRun(full) PROVE PhasesInv'
  <2>1. /\ Load /\ UNCHANGED <<descriptors, verification, seen>>
        /\ run' = [NoRun EXCEPT !.at = "created", !.full = full, !.profile = Loaded,
                                !.copied = descriptors]
    BY <1>9 DEF CreateRun
  <2>2. /\ run' \in Run /\ run'.at = "created" /\ run'.base = None /\ run'.evidence = None
        /\ run'.profile # None /\ run'.copied = descriptors
    <3>1. run' = [at |-> "created", full |-> full, atomic |-> TRUE, profile |-> Loaded,
                  loaded |-> None, base |-> None, env |-> TRUE, copied |-> descriptors,
                  tries |-> 0, jumped |-> FALSE, fails |-> None, evidence |-> None]
      BY <2>1 DEF NoRun
    <3>2. 0 \in 0..MaxRetries
      BY <1>1
    <3> QED BY <1>1, <1>2, <3>1, <3>2 DEF Run, Place
  <2>3. ProfileInv' /\ profile' \in Profile \cup {None}
    <3>1. BaseStays
      BY <1>0, <1>9, <2>2 DEF BaseStays, ProfileInv, CreateRun
    <3> QED BY <1>0, <2>1, <3>1, LoadKeeps
  <2>4. PhasesTyped' /\ RunInv'
    BY <1>1, <2>1, <2>2, <2>3 DEF PhasesTyped, RunInv, DeliveredIsTrusted,
       DeliveredIsValidated, NoNewFailures
  <2> QED BY <2>3, <2>4 DEF PhasesInv
\* A run that goes to another place with what it has.
<1>10. ASSUME NEW l \in {"created", "preflight", "works", "failed", "review"},
              run'.at = l, run' \in Run, UNCHANGED descriptors,
              run'.base = run.base, run'.atomic = run.atomic, run'.copied = run.copied,
              run'.evidence = run.evidence, run.evidence = None,
              l = "preflight" => run.base = None /\ run'.loaded # None,
              l = "works" => run.base # None \/ run'.jumped,
              run'.profile # None, run.at # "none",
              UNCHANGED <<profile, seen>> \/ (Load /\ UNCHANGED seen),
              verification' = verification
       PROVE  PhasesInv'
  <2>1. BaseStays
    BY <1>10 DEF BaseStays
  <2>2. ProfileInv' /\ profile' \in Profile \cup {None}
    BY <1>0, <1>1, <1>10, <2>1, LoadKeeps, ProfileRests
  <2>3. PhasesTyped'
    BY <1>1, <1>10, <2>2 DEF PhasesTyped
  <2>4. RunInv'
    BY <1>0, <1>10 DEF RunInv, DeliveredIsTrusted, DeliveredIsValidated, NoNewFailures
  <2> QED BY <2>2, <2>3, <2>4 DEF PhasesInv
<1>11. run.at # "review" => run.evidence = None
  BY <1>0 DEF RunInv
<1>12. CASE BeginPreflight
  <2>1. run.at = "created" /\ UNCHANGED <<descriptors, verification, seen>>
    BY <1>12 DEF BeginPreflight
  <2>2. CASE run.base # None
    <3>1. run' = [run EXCEPT !.at = "works"] /\ UNCHANGED profile
      BY <1>12, <2>2 DEF BeginPreflight
    <3>2. run' \in Run /\ run'.at = "works" /\ run'.base = run.base /\ run'.atomic = run.atomic
          /\ run'.copied = run.copied /\ run'.evidence = run.evidence
          /\ run'.profile = run.profile
      BY <1>1, <3>1 DEF Run, Place
    <3> QED BY <1>1, <1>10, <1>11, <2>1, <2>2, <3>1, <3>2
  <2>3. CASE run.base = None
    <3>1. run' = [run EXCEPT !.at = "preflight", !.loaded = Loaded] /\ Load
      BY <1>12, <2>3 DEF BeginPreflight
    <3>2. run' \in Run /\ run'.at = "preflight" /\ run'.base = run.base /\ run'.atomic = run.atomic
          /\ run'.copied = run.copied /\ run'.evidence = run.evidence
          /\ run'.profile = run.profile /\ run'.loaded # None
      BY <1>1, <1>2, <3>1 DEF Run, Place
    <3> QED BY <1>1, <1>10, <1>11, <2>1, <2>3, <3>1, <3>2
  <2> QED BY <2>2, <2>3
<1>13. CASE Interrupted
  <2>1. /\ run.at = "preflight" /\ run' = [run EXCEPT !.at = "failed", !.loaded = None]
        /\ UNCHANGED <<descriptors, profile, verification, seen>>
    BY <1>13 DEF Interrupted
  <2>2. run' \in Run /\ run'.at = "failed" /\ run'.base = run.base /\ run'.atomic = run.atomic
        /\ run'.copied = run.copied /\ run'.evidence = run.evidence
        /\ run'.profile = run.profile
    BY <1>1, <2>1 DEF Run, Place
  <2> QED BY <1>1, <1>10, <1>11, <2>1, <2>2
<1>14. ASSUME NEW later \in BOOLEAN, Retry(later) PROVE PhasesInv'
  <2> DEFINE l == IF later THEN "works" ELSE "created"
  <2>1. /\ run.at = "failed" /\ run.tries < MaxRetries
        /\ run' = [run EXCEPT !.at = l, !.tries = run.tries + 1, !.jumped = run.jumped \/ later]
        /\ UNCHANGED <<descriptors, profile, verification, seen>>
    BY <1>14 DEF Retry
  <2>2. run.tries + 1 \in 0..MaxRetries /\ (run.jumped \/ later) \in BOOLEAN /\ l \in Place
    BY <1>1, <2>1 DEF Run, Place
  <2>3. run' \in Run /\ run'.at = l /\ run'.base = run.base /\ run'.atomic = run.atomic
        /\ run'.copied = run.copied /\ run'.evidence = run.evidence
        /\ run'.profile = run.profile /\ (later => run'.jumped)
    BY <1>1, <2>1, <2>2 DEF Run
  <2> QED BY <1>1, <1>10, <1>11, <2>1, <2>3
<1>15. CASE Finish
  <2>1. /\ run.at = "works" /\ run' = [run EXCEPT !.at = "review"]
        /\ UNCHANGED <<descriptors, profile, verification, seen>>
    BY <1>15 DEF Finish
  <2>2. run' \in Run /\ run'.at = "review" /\ run'.base = run.base /\ run'.atomic = run.atomic
        /\ run'.copied = run.copied /\ run'.evidence = run.evidence
        /\ run'.profile = run.profile
    BY <1>1, <2>1 DEF Run, Place
  <2> QED BY <1>1, <1>10, <1>11, <2>1, <2>2
<1>16. CASE EndPreflight
  <2> DEFINE plan == Chosen(PlanOf(run.loaded, run.copied), BaselineCategories)
  <2>1. PICK fails \in Outcomes(plan), env \in BOOLEAN :
          LET st == Status(plan, fails, None)
              prof == IF plan = {} THEN run.loaded ELSE Recorded(run.loaded, st)
              ready == plan # {} /\ st = "passed" /\ Trusted(prof.status)
          IN  /\ profile' = IF plan = {} THEN profile ELSE prof
              /\ Seen(plan, run.copied, st)
              /\ run' = [run EXCEPT !.at = IF env THEN "works" ELSE "failed", !.env = env,
                                    !.profile = prof, !.loaded = None,
                                    !.base = [plan |-> plan, fails |-> fails],
                                    !.atomic = Downgraded(ready)]
    BY <1>16 DEF EndPreflight
  <2> DEFINE st == Status(plan, fails, None)
             prof == IF plan = {} THEN run.loaded ELSE Recorded(run.loaded, st)
             ready == plan # {} /\ st = "passed" /\ Trusted(prof.status)
             base == [plan |-> plan, fails |-> fails]
             l == IF env THEN "works" ELSE "failed"
             atomic == Downgraded(ready)
  <2>2. /\ run.at = "preflight" /\ UNCHANGED <<descriptors, verification>>
        /\ profile' = IF plan = {} THEN profile ELSE prof
        /\ Seen(plan, run.copied, st)
        /\ run' = [run EXCEPT !.at = l, !.env = env, !.profile = prof, !.loaded = None,
                              !.base = base, !.atomic = atomic]
    BY <1>16, <2>1 DEF EndPreflight
  <2>3. run.loaded \in Profile /\ run.copied \in 0..MaxEdits /\ run.base = None
    BY <1>0, <1>1, <2>2 DEF RunInv, Run
  <2>4. plan \in SUBSET AnyPhase
    BY <1>1, <2>3, PlansAreTyped DEF Chosen
  <2>5. base \in Baseline
    BY <2>4, OutcomesAreTyped DEF Baseline
  <2>6. /\ prof \in Profile /\ prof.plan = run.loaded.plan
        /\ plan # {} => prof.fp = descriptors /\ (prof.status = "verified" => st = "passed")
    BY <1>0, <2>3, RecordedIs, StatusCases
  <2>7. atomic \in BOOLEAN /\ (atomic => plan # {} /\ RequiredFailures(plan, fails) = {})
    BY <1>1, StatusCases DEF Downgraded, Run
  <2>8. Chosen(PlanOf(prof, run.copied), BaselineCategories) = plan
    BY <2>3, <2>6 DEF PlanOf
  <2>9. st = "passed" => [plan |-> plan, of |-> run.copied] \in seen'
    BY <2>2, <2>3 DEF Seen
  <2>10. seen \subseteq seen'
    BY <2>2 DEF Seen
  <2>11. base.plan = plan /\ base.fails = fails
    OBVIOUS
  <2>12. l \in {"works", "failed"}
    OBVIOUS
  <2> HIDE DEF plan, st, prof, base, atomic, l
  <2>13. /\ run' \in Run /\ run'.at = l /\ run'.base = base /\ run'.atomic = atomic
         /\ run'.copied = run.copied /\ run'.profile = prof /\ run'.evidence = run.evidence
    BY <1>1, <2>2, <2>5, <2>6, <2>7, <2>12 DEF Run, Place
  <2>14. run'.base # None /\ run'.profile # None /\ run'.evidence = None
    BY <1>2, <1>11, <2>2, <2>5, <2>6, <2>13
  <2>15. ProfileInv'
    <3>0. BaseStays
      BY <2>3, <2>12, <2>13, <2>14 DEF BaseStays
    <3>1. CASE plan = {}
      BY <1>0, <2>2, <2>10, <3>0, <3>1, ProfileRests
    <3>2. CASE plan # {}
      <4>1. profile' = prof
        BY <2>2, <3>2
      <4>2. profile'.status = "verified" =>
              \E s \in seen' :
                /\ run'.base # None /\ s.of = run'.copied
                /\ s.plan \in {PlanOf(profile', s.of),
                               Chosen(PlanOf(profile', s.of), BaselineCategories)}
        BY <2>6, <2>8, <2>9, <2>13, <2>14, <3>2, <4>1
      <4> QED BY <1>0, <1>1, <2>2, <2>6, <3>0, <3>2, <4>1, <4>2, ProfileWritten
    <3> QED BY <3>1, <3>2
  <2>16. PhasesTyped'
    BY <1>1, <2>2, <2>6, <2>12, <2>13, <2>14 DEF PhasesTyped
  <2>17. RunInv'
    BY <2>7, <2>11, <2>12, <2>13, <2>14 DEF RunInv, DeliveredIsTrusted,
       DeliveredIsValidated, NoNewFailures
  <2> QED BY <2>15, <2>16, <2>17 DEF PhasesInv
<1>17. CASE Deliver
  <2> DEFINE plan == Chosen(PlanOf(run.profile, descriptors), FastCategories)
  <2>1. /\ run.at = "works" /\ run.atomic
        /\ UNCHANGED <<descriptors, profile, verification, seen>>
    BY <1>17 DEF Deliver
  <2>2. PICK fails \in Outcomes(plan) :
          LET st == Status(plan, fails, run.base)
          IN  run' = [run EXCEPT !.fails = fails,
                                 !.at = IF MayDeliver(plan, fails, st) THEN "delivered"
                                        ELSE "refused"]
    BY <1>17 DEF Deliver
  <2> DEFINE ok == MayDeliver(plan, fails, Status(plan, fails, run.base))
             l == IF ok THEN "delivered" ELSE "refused"
  <2>3. run' = [run EXCEPT !.fails = fails, !.at = l]
    BY <2>2
  <2>4. plan \in SUBSET AnyPhase
    BY <1>1, <2>1, PlansAreTyped DEF Chosen, Run
  <2>5. fails \in AnyOutcome
    BY <2>4, OutcomesAreTyped
  <2>6. ok => /\ \E p \in plan : p.required
              /\ RequiredFailures(plan, fails) = {}
              /\ run.profile.status \notin {"draft", "stale"}
    BY DEF MayDeliver, Measured
  <2>7. l \in {"delivered", "refused"} /\ (l = "delivered" => ok)
    OBVIOUS
  <2> HIDE DEF l, ok
  <2>8. /\ run' \in Run /\ run'.at = l /\ run'.base = run.base /\ run'.atomic = run.atomic
        /\ run'.copied = run.copied /\ run'.evidence = run.evidence /\ run'.jumped = run.jumped
        /\ run'.profile = run.profile /\ run'.fails = fails
    BY <1>1, <2>3, <2>5, <2>7 DEF Run, Place
  <2>9. PhasesTyped'
    BY <1>1, <2>1, <2>7, <2>8 DEF PhasesTyped
  <2>10. ProfileInv'
    <3>1. BaseStays
      BY <2>7, <2>8 DEF BaseStays
    <3> QED BY <1>0, <2>1, <3>1, ProfileRests
  <2>11. DeliveredIsTrusted'
    <3>1. run.profile \in Profile
      BY <1>1, <2>1 DEF Run
    <3> QED BY <2>6, <2>7, <2>8, <3>1 DEF DeliveredIsTrusted, Trusted, Profile
  <2>12. DeliveredIsValidated'
    <3>1. Chosen(PlanOf(run.profile, descriptors), FastCategories)' = plan
      BY <2>1, <2>8
    <3> HIDE DEF plan
    <3> QED BY <1>0, <2>1, <2>6, <2>7, <2>8, <3>1 DEF DeliveredIsValidated, RunInv
  <2>13. RunInv'
    BY <1>0, <1>11, <2>1, <2>7, <2>8, <2>11, <2>12 DEF RunInv, NoNewFailures
  <2> QED BY <2>9, <2>10, <2>13 DEF PhasesInv
<1>18. CASE ValidateSelection
  <2> DEFINE plan == PlanOf(run.profile, descriptors)
  <2>1. run.at = "review" /\ UNCHANGED <<descriptors, profile, verification, seen>>
    BY <1>18 DEF ValidateSelection
  <2>2. PICK fails \in Outcomes(plan) :
          run' = [run EXCEPT !.evidence = [plan |-> plan, fails |-> fails,
                                           status |-> Status(plan, fails, run.base)]]
    BY <1>18 DEF ValidateSelection
  <2> DEFINE st == Status(plan, fails, run.base)
             new == [plan |-> plan, fails |-> fails, status |-> st]
  <2>3. plan \in SUBSET AnyPhase
    BY <1>1, <2>1, PlansAreTyped DEF Run
  <2>4. new \in Selection
    BY <2>3, OutcomesAreTyped, StatusCases DEF Selection
  <2>5. /\ st = "passed" => RequiredFailures(plan, fails) = {}
        /\ st = "passed_with_baseline" =>
             /\ run.base # None
             /\ \A p \in RequiredFailures(plan, fails) : Tolerated(p, fails, run.base)
    BY StatusCases
  <2>6. new.plan = plan /\ new.fails = fails /\ new.status = st
    OBVIOUS
  <2>7. run' = [run EXCEPT !.evidence = new]
    BY <2>2
  <2> HIDE DEF plan, st, new
  <2>8. /\ run' \in Run /\ run'.at = run.at /\ run'.base = run.base /\ run'.atomic = run.atomic
        /\ run'.copied = run.copied /\ run'.evidence = new /\ run'.jumped = run.jumped
        /\ run'.profile = run.profile
    BY <1>1, <2>4, <2>7 DEF Run
  <2>9. PhasesTyped'
    BY <1>1, <2>1, <2>8 DEF PhasesTyped
  <2>10. ProfileInv'
    <3>1. BaseStays
      BY <1>0, <1>1, <2>1, <2>8 DEF BaseStays, ProfileInv
    <3> QED BY <1>0, <2>1, <3>1, ProfileRests
  <2>11. NoNewFailures'
    BY <2>5, <2>6, <2>8 DEF NoNewFailures, RequiredFailures, Tolerated
  <2>12. RunInv'
    BY <1>0, <2>1, <2>8, <2>11 DEF RunInv, DeliveredIsTrusted, DeliveredIsValidated
  <2> QED BY <2>9, <2>10, <2>12 DEF PhasesInv
<1>19. CASE UNCHANGED phaseVars
  <2>1. UNCHANGED <<descriptors, profile, verification, run, seen>>
    BY <1>19 DEF phaseVars
  <2>2. PhasesTyped' /\ RunInv'
    BY <1>0, <1>1, <2>1, RunRests DEF PhasesTyped
  <2>3. ProfileInv'
    BY <1>0, <1>3, <2>1, ProfileRests
  <2> QED BY <2>2, <2>3 DEF PhasesInv
<1> QED BY <1>4, <1>5, <1>6, <1>7, <1>8, <1>9, <1>12, <1>13, <1>14, <1>15, <1>16, <1>17,
       <1>18, <1>19 DEF PhasesNext

LEMMA PhasesInvAlways ==
  ASSUME PhasesAssumptions, NothingIsNone, Alone PROVE PhasesSpec => []PhasesInv
<1>1. PhasesInit => PhasesInv
  BY PhasesInvInit
<1>2. PhasesInv /\ [PhasesNext]_phaseVars => PhasesInv'
  BY PhasesInvStep
<1> QED BY <1>1, <1>2, PTL DEF PhasesSpec

\* Every variable keeps its type.
THEOREM PhasesTypeCorrect ==
  ASSUME PhasesAssumptions, NothingIsNone, Alone PROVE PhasesSpec => []PhasesTypeOK
<1>1. PhasesInv => PhasesTypeOK
  BY TypesFromPhases DEF PhasesInv
<1> QED BY <1>1, PhasesInvAlways, PTL

\* While nobody edits the build files or the profile during a validation, a profile
\* that counts as verified passed since they were edited last, with them or, in a
\* preflight, with those of the run's copy; a run delivers only with one and
\* only what was measured before and after, and a selection that counts as validated
\* fails nothing that did not fail before: for any plans, languages, edits and retries.
THEOREM WhatIsAcceptedWasMeasured ==
  ASSUME PhasesAssumptions, NothingIsNone, Alone PROVE PhasesSpec => []AcceptedIsMeasured
<1>1. PhasesInv => AcceptedIsMeasured
  BY DEF PhasesInv, RunInv, ProfileInv, AcceptedIsMeasured
<1> QED BY <1>1, PhasesInvAlways, PTL

-----------------------------------------------------------------------------
(* The security scan.                                                      *)

CONSTANTS AgentCount, MaxAttempts, MaxAgain, Artifacts, Contexts
VARIABLES again, scanning, scanStep, passedBy, agent, attempt, written, scanFiles, scores,
          context, findings, report, reportScore, final

Scan == INSTANCE SecurityScan WITH status <- scanning, step <- scanStep, files <- scanFiles

ScanSetting == Scan!Assumptions /\ Scan!RepairsAreFiles

StepIds == {"collect", "scan", "combine", "generate", "validate", "finalize"}
AfterScan == StepIds \ {"collect", "scan"}

\* The artifact of agent i is one that passed, and is scored as it is.
Passed(i) ==
  /\ scanFiles[i] # None /\ Scan!WellFormed(scanFiles[i])
  /\ scores[i] = Scan!Scored(scanFiles[i]) /\ scores[i].pass

ScanTyped ==
  /\ scanning \in {"running", "stopped", "done"} /\ scanStep \in StepIds
  /\ passedBy \subseteq Scan!Before(scanStep)
  /\ agent \in 1 .. AgentCount /\ attempt \in 1 .. MaxAttempts /\ written \in BOOLEAN
  /\ again \in 0 .. MaxAgain
  /\ scanFiles = [i \in 1 .. AgentCount |-> scanFiles[i]]
  /\ scores = [i \in 1 .. AgentCount |-> scores[i]]

\* An attempt validates what its agent has just written; the agents before it,
\* and once the scan is over all of them unless the user went past, have passed.
AgentsPassed ==
  /\ written => scanStep = "scan" /\ scanFiles[agent] \in Artifacts
  /\ \A i \in 1 .. AgentCount :
       \/ scanStep \in AfterScan /\ "scan" \notin passedBy
       \/ scanStep = "scan" /\ i < agent
       => Passed(i)

\* What the user has not gone past: a report that may be scored is of the findings
\* there are, and one that may become final was scored.
ReportIsCurrent ==
  /\ scanStep \in {"validate", "finalize"} /\ "generate" \notin passedBy =>
       findings # None /\ report = Scan!Rendered(findings)
  /\ scanStep = "finalize" /\ "validate" \notin passedBy =>
       reportScore = [of |-> report, pass |-> TRUE]
  /\ scanning = "done" => scanStep = "finalize" /\ final = report

ScanInv == ScanTyped /\ AgentsPassed /\ ReportIsCurrent

-----------------------------------------------------------------------------
\* The steps, and those before each of them.
LEMMA ScanStepsAre ==
  /\ Scan!Range(Scan!Steps) = StepIds
  /\ Scan!Before("collect") = {}
  /\ Scan!Before("scan") = {"collect"}
  /\ Scan!Before("combine") = {"collect", "scan"}
  /\ Scan!Before("generate") = {"collect", "scan", "combine"}
  /\ Scan!Before("validate") = {"collect", "scan", "combine", "generate"}
  /\ Scan!Before("finalize") = {"collect", "scan", "combine", "generate", "validate"}
<1>1. /\ DOMAIN Scan!Steps = 1 .. 6
      /\ Scan!Steps[1] = "collect" /\ Scan!Steps[2] = "scan" /\ Scan!Steps[3] = "combine"
      /\ Scan!Steps[4] = "generate" /\ Scan!Steps[5] = "validate" /\ Scan!Steps[6] = "finalize"
  BY DEF Scan!Steps
<1>2. Scan!Range(Scan!Steps) = StepIds
  BY <1>1 DEF Scan!Range, StepIds
<1>3. \A s, t : t \in Scan!Before(s) <=>
        \E j, k \in 1 .. 6 : j < k /\ Scan!Steps[k] = s /\ Scan!Steps[j] = t
  BY <1>1 DEF Scan!Before
<1>4. \A i \in 1 .. 6 : i = 1 \/ i = 2 \/ i = 3 \/ i = 4 \/ i = 5 \/ i = 6
  OBVIOUS
<1>5. Scan!Before("collect") = {} /\ Scan!Before("scan") = {"collect"}
  BY <1>1, <1>3, <1>4
<1>6. Scan!Before("combine") = {"collect", "scan"}
  BY <1>1, <1>3, <1>4
<1>7. Scan!Before("generate") = {"collect", "scan", "combine"}
  BY <1>1, <1>3, <1>4
<1>8. Scan!Before("validate") = {"collect", "scan", "combine", "generate"}
  BY <1>1, <1>3, <1>4
<1>9. Scan!Before("finalize") = {"collect", "scan", "combine", "generate", "validate"}
  BY <1>1, <1>3, <1>4
<1> QED BY <1>2, <1>5, <1>6, <1>7, <1>8, <1>9

\* The same of the step to come.
LEMMA BeforeMoves == Scan!Before(scanStep)' = Scan!Before(scanStep')
BY DEF Scan!Before, Scan!Steps

\* The positions of the loop.
LEMMA ScanFacts ==
  ASSUME ScanSetting
  PROVE  /\ 1 \in 1 .. AgentCount /\ 1 \in 1 .. MaxAttempts /\ AgentCount \in Nat /\ MaxAttempts \in Nat
         /\ MaxAgain \in Nat /\ 0 \in 0 .. MaxAgain
         /\ again \in 0 .. MaxAgain /\ again < MaxAgain => again + 1 \in 0 .. MaxAgain
         /\ agent \in 1 .. AgentCount /\ agent # AgentCount => agent + 1 \in 1 .. AgentCount
         /\ attempt \in 1 .. MaxAttempts /\ attempt < MaxAttempts => attempt + 1 \in 1 .. MaxAttempts
BY DEF ScanSetting, Scan!Assumptions

\* Whatever a scan starts again from, or stops at, nothing is lost of what had
\* passed.
LEMMA ScanFails ==
  ASSUME ScanSetting, ScanInv, NEW target \in {"scan", "combine", "generate", "finalize"},
         Scan!Fail(target), scanning = "running",
         \/ target = "scan" /\ scanStep = "scan"
         \/ /\ target = scanStep /\ target # "scan"
            /\ UNCHANGED <<scanFiles, scores, findings, report, reportScore>>
         \/ /\ target = "generate" /\ scanStep = "validate"
            /\ UNCHANGED <<scanFiles, scores, findings>>
            /\ "generate" \notin passedBy => report' = Scan!Rendered(findings),
         scanFiles' = [i \in 1 .. AgentCount |-> scanFiles'[i]],
         scores' = [i \in 1 .. AgentCount |-> scores'[i]]
  PROVE  ScanInv'
<1>1. /\ agent' = 1 /\ attempt' = 1 /\ written' = FALSE /\ scanning' \in {"running", "stopped"}
      /\ \/ scanStep' = target /\ passedBy' = passedBy \cap Scan!Before(target)
         \/ scanStep' = scanStep /\ passedBy' = passedBy
      /\ again' = again \/ (again < MaxAgain /\ again' = again + 1)
  BY DEF Scan!Fail, Scan!Rewound
<1>2. scanStep' \in StepIds /\ passedBy' \subseteq Scan!Before(scanStep')
  BY <1>1 DEF ScanInv, ScanTyped, StepIds
<1>3. scanStep' = scanStep => passedBy' = passedBy
  BY <1>1 DEF ScanInv, ScanTyped
<1>4. ScanTyped'
  <2>1. again' \in 0 .. MaxAgain
    BY <1>1, ScanFacts DEF ScanInv, ScanTyped
  <2>2. agent' \in 1 .. AgentCount /\ attempt' \in 1 .. MaxAttempts /\ written' \in BOOLEAN
    BY <1>1, ScanFacts
  <2> QED BY <1>1, <1>2, <2>1, <2>2, BeforeMoves DEF ScanTyped
<1>5. AgentsPassed'
  <2>1. CASE scanStep = "scan"
    BY <1>1, <2>1, ScanFacts DEF AgentsPassed, AfterScan, StepIds
  <2>2. CASE scanStep # "scan"
    <3>1. /\ UNCHANGED <<scanFiles, scores>> /\ target \in AfterScan /\ scanStep \in AfterScan
          /\ scanStep' \in AfterScan
      BY <1>1, <2>2 DEF AfterScan, StepIds
    <3>2. "scan" \notin passedBy' => "scan" \notin passedBy
      BY <1>1, <3>1, ScanStepsAre DEF AfterScan, StepIds
    <3> QED BY <1>1, <3>1, <3>2, ScanFacts DEF ScanInv, AgentsPassed, Passed, AfterScan
  <2> QED BY <2>1, <2>2
<1>6. ReportIsCurrent'
  <2>1. scanStep' \in {"validate", "finalize"} => scanStep' = scanStep
    BY <1>1
  <2> QED BY <1>1, <1>3, <2>1 DEF ScanInv, ReportIsCurrent, Scan!Rendered
<1> QED BY <1>4, <1>5, <1>6 DEF ScanInv

\* What an agent does, and what becomes of its artifact.
LEMMA ScanAgents ==
  ASSUME ScanSetting, ScanInv,
         Scan!AgentAnswers \/ Scan!AgentFails \/ Scan!ArtifactValidated
  PROVE  ScanInv'
<1>1. scanning = "running" /\ scanStep = "scan"
  BY DEF Scan!AgentAnswers, Scan!AgentFails, Scan!ArtifactValidated, Scan!At
<1>2. ScanTyped /\ agent \in 1 .. AgentCount
  BY DEF ScanInv, ScanTyped
<1>3. ASSUME Scan!AttemptFails, \A i \in 1 .. AgentCount : i < agent => (Passed(i) => Passed(i)'),
             scanFiles' = [i \in 1 .. AgentCount |-> scanFiles'[i]],
             scores' = [i \in 1 .. AgentCount |-> scores'[i]]
      PROVE  ScanInv'
  <2>1. CASE Scan!Fail("scan")
    BY <1>1, <1>3, <2>1, ScanFails
  <2>2. CASE /\ attempt < MaxAttempts /\ attempt' = attempt + 1 /\ written' = FALSE
             /\ UNCHANGED <<again, scanning, scanStep, passedBy, agent>>
    <3>1. ScanTyped'
      BY <1>2, <1>3, <2>2, ScanFacts DEF ScanTyped
    <3>2. AgentsPassed'
      BY <1>1, <1>3, <2>2 DEF ScanInv, AgentsPassed, AfterScan
    <3>3. ReportIsCurrent'
      BY <1>1, <2>2 DEF ScanInv, ReportIsCurrent
    <3> QED BY <3>1, <3>2, <3>3 DEF ScanInv
  <2> QED BY <1>3, <2>1, <2>2 DEF Scan!AttemptFails, Scan!NextAttempt
<1>4. CASE Scan!AgentAnswers
  <2>1. PICK a \in Artifacts : scanFiles' = [scanFiles EXCEPT ![agent] = a]
    BY <1>4 DEF Scan!AgentAnswers
  <2>2. written' = TRUE /\ UNCHANGED <<again, scanning, scanStep, passedBy, agent, attempt, scores>>
    BY <1>4 DEF Scan!AgentAnswers
  <2>3. \A i \in 1 .. AgentCount : scanFiles'[i] = IF i = agent THEN a ELSE scanFiles[i]
    BY <1>2, <2>1 DEF ScanTyped
  <2>4. ScanTyped'
    BY <1>2, <2>1, <2>2 DEF ScanTyped
  <2>5. AgentsPassed'
    BY <1>1, <1>2, <2>2, <2>3 DEF ScanInv, ScanTyped, AgentsPassed, Passed, AfterScan
  <2>6. ReportIsCurrent'
    BY <1>1, <2>2 DEF ScanInv, ReportIsCurrent
  <2> QED BY <2>4, <2>5, <2>6 DEF ScanInv
<1>5. CASE Scan!AgentFails
  <2>1. Scan!AttemptFails /\ UNCHANGED <<scanFiles, scores>>
    BY <1>5 DEF Scan!AgentFails, Scan!outputs
  <2>2. \A i \in 1 .. AgentCount : Passed(i) => Passed(i)'
    BY <2>1 DEF Passed
  <2> QED BY <1>2, <1>3, <2>1, <2>2 DEF ScanTyped
<1>6. CASE Scan!ArtifactValidated
  <2> DEFINE a == Scan!RepairedFile(scanFiles[agent])
             fit == Scan!WellFormed(a)
  <2>1. /\ written /\ scanFiles' = [scanFiles EXCEPT ![agent] = a]
        /\ scores' = IF fit THEN [scores EXCEPT ![agent] = Scan!Scored(a)] ELSE scores
        /\ IF fit /\ Scan!Scored(a).pass THEN Scan!AgentPasses ELSE Scan!AttemptFails
    BY <1>6 DEF Scan!ArtifactValidated
  <2>2. a # None
    BY <2>1 DEF ScanInv, AgentsPassed, ScanSetting, Scan!RepairsAreFiles
  <2> HIDE DEF a, fit
  <2>3. /\ scanFiles' = [i \in 1 .. AgentCount |-> scanFiles'[i]]
        /\ scores' = [i \in 1 .. AgentCount |-> scores'[i]]
        /\ \A i \in 1 .. AgentCount : scanFiles'[i] = IF i = agent THEN a ELSE scanFiles[i]
        /\ \A i \in 1 .. AgentCount :
             scores'[i] = IF i = agent /\ fit THEN Scan!Scored(a) ELSE scores[i]
    BY <1>2, <2>1 DEF ScanTyped
  <2>4. \A i \in 1 .. AgentCount : i < agent => (Passed(i) => Passed(i)')
    BY <1>2, <2>3 DEF Passed, ScanTyped
  <2>5. CASE ~(fit /\ Scan!Scored(a).pass)
    BY <1>3, <2>1, <2>3, <2>4, <2>5
  <2>6. CASE fit /\ Scan!Scored(a).pass
    <3>1. \A i \in 1 .. AgentCount : i <= agent => Passed(i)'
      <4>1. ASSUME NEW i \in 1 .. AgentCount, i = agent PROVE Passed(i)'
        <5>1. scanFiles'[i] = a /\ scores'[i] = Scan!Scored(a) /\ Scan!WellFormed(a)
          BY <2>3, <2>6, <4>1 DEF fit
        <5> QED BY <2>2, <2>6, <5>1 DEF Passed
      <4>2. \A i \in 1 .. AgentCount : i < agent => Passed(i)
        BY <1>1 DEF ScanInv, AgentsPassed
      <4>3. \A i \in 1 .. AgentCount : i <= agent => i < agent \/ i = agent
        BY <1>2, ScanFacts
      <4> QED BY <2>4, <4>1, <4>2, <4>3
    <3>2. Scan!AgentPasses /\ UNCHANGED <<findings, report, reportScore, final>>
      BY <1>6, <2>1, <2>6 DEF Scan!ArtifactValidated
    <3>3. CASE agent = AgentCount
      <4>1. /\ agent' = 1 /\ attempt' = 1 /\ written' = FALSE /\ scanStep' = "combine"
            /\ scanning' = "running" /\ again' = again /\ passedBy' = passedBy
        BY <3>2, <3>3 DEF Scan!AgentPasses, Scan!Pass, Scan!Rewound
      <4>2. passedBy \subseteq Scan!Before("combine")
        BY <1>1, <1>2, ScanStepsAre DEF ScanTyped
      <4>5. ScanTyped'
        BY <1>2, <2>3, <4>1, <4>2, ScanFacts, BeforeMoves DEF ScanTyped, StepIds
      <4>3. AgentsPassed'
        BY <1>2, <3>1, <3>3, <4>1, ScanFacts DEF AgentsPassed
      <4>4. ReportIsCurrent'
        BY <4>1 DEF ReportIsCurrent
      <4> QED BY <4>3, <4>4, <4>5 DEF ScanInv
    <3>4. CASE agent # AgentCount
      <4>1. /\ agent' = agent + 1 /\ attempt' = 1 /\ written' = FALSE
            /\ UNCHANGED <<again, scanning, scanStep, passedBy>>
        BY <3>2, <3>4 DEF Scan!AgentPasses
      <4>2. ScanTyped'
        BY <1>2, <2>3, <3>4, <4>1, ScanFacts DEF ScanTyped
      <4>3. \A i \in 1 .. AgentCount : i < agent + 1 => i <= agent
        BY <1>2, ScanFacts
      <4>4. AgentsPassed'
        BY <1>1, <3>1, <4>1, <4>3 DEF AgentsPassed, AfterScan
      <4>5. ReportIsCurrent'
        BY <1>1, <4>1 DEF ReportIsCurrent
      <4> QED BY <4>2, <4>4, <4>5 DEF ScanInv
    <3> QED BY <3>3, <3>4
  <2> QED BY <2>5, <2>6
<1> QED BY <1>4, <1>5, <1>6

\* The steps before and after the agents.
LEMMA ScanSteps ==
  ASSUME ScanSetting, ScanInv,
         \/ Scan!Collect \/ Scan!Combine \/ Scan!Generate \/ Scan!ReportValidated
         \/ Scan!Finalize
  PROVE  ScanInv'
<1>1. scanning = "running" /\ scanStep \in StepIds \ {"scan"} /\ ~written
  BY DEF Scan!Collect, Scan!Combine, Scan!Generate, Scan!ReportValidated, Scan!Finalize, Scan!At,
         StepIds, ScanInv, AgentsPassed
<1>2. UNCHANGED <<scanFiles, scores>> /\ ScanTyped
  BY DEF Scan!Collect, Scan!Combine, Scan!Generate, Scan!ReportValidated, Scan!Finalize, ScanInv
<1>3. /\ scanFiles' = [i \in 1 .. AgentCount |-> scanFiles'[i]]
      /\ scores' = [i \in 1 .. AgentCount |-> scores'[i]]
  BY <1>2 DEF ScanTyped
<1>4. ASSUME NEW next \in StepIds, Scan!Pass(next), Scan!Before(scanStep) \subseteq Scan!Before(next),
             next \in AfterScan => scanStep \in AfterScan, ReportIsCurrent'
      PROVE  ScanInv'
  <2>1. /\ agent' = 1 /\ attempt' = 1 /\ written' = FALSE /\ scanStep' = next
        /\ scanning' = "running" /\ again' = again /\ passedBy' = passedBy
    BY <1>4 DEF Scan!Pass, Scan!Rewound
  <2>2. passedBy \subseteq Scan!Before(next)
    BY <1>2, <1>4 DEF ScanTyped
  <2>3. ScanTyped'
    BY <1>2, <1>3, <2>1, <2>2, ScanFacts, BeforeMoves DEF ScanTyped
  <2>4. AgentsPassed'
    BY <1>2, <1>4, <2>1, ScanFacts DEF ScanInv, AgentsPassed, Passed, AfterScan
  <2> QED BY <1>4, <2>3, <2>4 DEF ScanInv
<1>5. \A next \in StepIds :
        Scan!Pass(next) => scanStep' = next /\ scanning' = "running" /\ passedBy' = passedBy
  BY DEF Scan!Pass
<1>6. CASE Scan!Collect
  <2>1. Scan!Pass("scan") /\ scanStep = "collect"
    BY <1>6 DEF Scan!Collect, Scan!At
  <2>2. ReportIsCurrent'
    BY <1>5, <2>1 DEF ReportIsCurrent, StepIds
  <2> QED BY <1>4, <2>1, <2>2, ScanStepsAre DEF StepIds, AfterScan
<1>7. CASE Scan!Combine
  <2>1. scanStep = "combine" /\ UNCHANGED <<report, reportScore>>
    BY <1>7 DEF Scan!Combine, Scan!At
  <2>2. CASE Scan!Fail("combine") /\ UNCHANGED findings
    BY <1>1, <1>2, <1>3, <2>1, <2>2, ScanFails
  <2>3. CASE Scan!Pass("generate")
    <3>1. ReportIsCurrent'
      BY <1>5, <2>3 DEF ReportIsCurrent, StepIds
    <3> QED BY <1>4, <2>1, <2>3, <3>1, ScanStepsAre DEF StepIds, AfterScan
  <2> QED BY <1>7, <2>2, <2>3 DEF Scan!Combine
<1>8. CASE Scan!Generate
  <2>1. scanStep = "generate" /\ UNCHANGED <<findings, reportScore>>
    BY <1>8 DEF Scan!Generate, Scan!At
  <2>2. CASE Scan!Fail("generate") /\ UNCHANGED report
    BY <1>1, <1>2, <1>3, <2>1, <2>2, ScanFails
  <2>3. CASE findings # None /\ report' = Scan!Rendered(findings) /\ Scan!Pass("validate")
    <3>1. ReportIsCurrent'
      BY <1>5, <2>1, <2>3 DEF ReportIsCurrent, StepIds, Scan!Rendered
    <3> QED BY <1>4, <2>1, <2>3, <3>1, ScanStepsAre DEF StepIds, AfterScan
  <2> QED BY <1>8, <2>2, <2>3 DEF Scan!Generate
<1>9. CASE Scan!ReportValidated
  <2> DEFINE r == Scan!Refreshed(report, Scan!Read(findings))
  <2>1. scanStep = "validate" /\ UNCHANGED findings
    BY <1>9 DEF Scan!ReportValidated, Scan!At
  <2>2. "generate" \notin passedBy =>
          /\ findings # None /\ report = Scan!Rendered(findings) /\ r = Scan!Rendered(findings)
    BY <2>1 DEF ScanInv, ReportIsCurrent, Scan!Refreshed, Scan!Read
  <2>3. CASE report = None
    <3>1. Scan!Fail("generate") /\ UNCHANGED report
      BY <1>9, <2>3 DEF Scan!ReportValidated
    <3>2. "generate" \notin passedBy => report' = Scan!Rendered(findings)
      BY <2>2, <3>1
    <3> QED BY <1>1, <1>2, <1>3, <2>1, <3>1, <3>2, ScanFails
  <2>4. CASE report # None
    <3>1. PICK formed, pass \in BOOLEAN :
            LET scored == formed /\ Scan!ReportCovers(r, Scan!Read(findings))
            IN /\ report' = r
               /\ reportScore' = IF scored THEN [of |-> r, pass |-> pass] ELSE reportScore
               /\ IF scored /\ pass THEN Scan!Pass("finalize") ELSE Scan!Fail("generate")
      BY <1>9, <2>4 DEF Scan!ReportValidated
    <3> DEFINE scored == formed /\ Scan!ReportCovers(r, Scan!Read(findings))
    <3>2. /\ report' = r
          /\ reportScore' = IF scored THEN [of |-> r, pass |-> pass] ELSE reportScore
          /\ IF scored /\ pass THEN Scan!Pass("finalize") ELSE Scan!Fail("generate")
      BY <3>1
    <3> HIDE DEF r, scored
    <3>3. CASE scored /\ pass
      <4>1. Scan!Pass("finalize") /\ reportScore' = [of |-> report', pass |-> TRUE]
        BY <3>2, <3>3
      <4>2. "generate" \notin passedBy => findings' # None /\ report' = Scan!Rendered(findings)'
        BY <2>1, <2>2, <3>2 DEF Scan!Rendered
      <4>3. ReportIsCurrent'
        BY <1>5, <4>1, <4>2 DEF ReportIsCurrent, StepIds
      <4> QED BY <1>4, <2>1, <4>1, <4>3, ScanStepsAre DEF StepIds, AfterScan
    <3>4. CASE ~(scored /\ pass)
      <4>1. Scan!Fail("generate")
        BY <3>2, <3>4
      <4>2. "generate" \notin passedBy => report' = Scan!Rendered(findings)
        BY <2>2, <3>2
      <4> QED BY <1>1, <1>2, <1>3, <2>1, <4>1, <4>2, ScanFails
    <3> QED BY <3>3, <3>4
  <2> QED BY <2>3, <2>4
<1>10. CASE Scan!Finalize
  <2>1. scanStep = "finalize" /\ UNCHANGED <<findings, report, reportScore>>
    BY <1>10 DEF Scan!Finalize, Scan!At
  <2>2. CASE Scan!Fail("finalize")
    BY <1>1, <1>2, <1>3, <2>1, <2>2, ScanFails
  <2>3. CASE /\ final' = report /\ scanning' = "done" /\ UNCHANGED <<again, scanStep, passedBy>>
             /\ Scan!Rewound
    <3>1. agent' = 1 /\ attempt' = 1 /\ written' = FALSE
      BY <2>3 DEF Scan!Rewound
    <3>2. ScanTyped'
      BY <1>2, <1>3, <2>3, <3>1, ScanFacts, BeforeMoves DEF ScanTyped
    <3>3. AgentsPassed'
      BY <1>2, <2>1, <2>3, <3>1 DEF ScanInv, AgentsPassed, Passed, AfterScan
    <3>4. ReportIsCurrent'
      BY <2>1, <2>3 DEF ScanInv, ReportIsCurrent, Scan!Rendered
    <3> QED BY <3>2, <3>3, <3>4 DEF ScanInv
  <2> QED BY <1>10, <2>2, <2>3 DEF Scan!Finalize
<1> QED BY <1>6, <1>7, <1>8, <1>9, <1>10

\* A step is interrupted, or the scan is run again from any one.
LEMMA ScanInterrupted ==
  ASSUME ScanSetting, ScanInv, Scan!Interrupt \/ Scan!RunFrom PROVE ScanInv'
<1>1. /\ agent' = 1 /\ attempt' = 1 /\ written' = FALSE
      /\ UNCHANGED <<scanFiles, scores, findings, report, reportScore, final>>
  BY DEF Scan!Interrupt, Scan!RunFrom, Scan!Rewound, Scan!outputs
<1>2. /\ scanning' \in {"running", "stopped"} /\ again' \in 0 .. MaxAgain
      /\ scanStep' \in StepIds /\ passedBy' \subseteq Scan!Before(scanStep')
      /\ \A s \in StepIds : s \in Scan!Before(scanStep') /\ s \notin passedBy' =>
           s \in Scan!Before(scanStep) /\ s \notin passedBy
  <2>1. CASE Scan!Interrupt
    BY <2>1 DEF Scan!Interrupt, ScanInv, ScanTyped
  <2>2. CASE Scan!RunFrom
    BY <2>2, ScanStepsAre, ScanFacts DEF Scan!RunFrom, ScanInv, ScanTyped
  <2> QED BY <2>1, <2>2
<1>3. scanStep \in StepIds /\ scanStep' \in StepIds
  BY <1>2 DEF ScanInv, ScanTyped
<1>3a. ASSUME NEW s \in StepIds
      PROVE  /\ "scan" \in Scan!Before(s) <=> s \in AfterScan
             /\ "generate" \in Scan!Before(s) <=> s \in {"validate", "finalize"}
             /\ "validate" \in Scan!Before(s) <=> s = "finalize"
  <2>1. s \in {"collect", "scan", "combine"} \/ s \in {"generate", "validate", "finalize"}
    BY DEF StepIds
  <2>2. CASE s \in {"collect", "scan", "combine"}
    BY <2>2, ScanStepsAre DEF AfterScan, StepIds
  <2>3. CASE s \in {"generate", "validate", "finalize"}
    BY <2>3, ScanStepsAre DEF AfterScan, StepIds
  <2> QED BY <2>1, <2>2, <2>3
<1>4. ScanTyped'
  BY <1>1, <1>2, ScanFacts, BeforeMoves DEF ScanInv, ScanTyped
<1>5. AgentsPassed'
  <2>1. scanStep' \in AfterScan /\ "scan" \notin passedBy' =>
          scanStep \in AfterScan /\ "scan" \notin passedBy
    BY <1>2, <1>3, <1>3a DEF StepIds
  <2> QED BY <1>1, <2>1, ScanFacts DEF ScanInv, AgentsPassed, Passed
<1>6. ReportIsCurrent'
  <2>1. /\ scanStep' \in {"validate", "finalize"} /\ "generate" \notin passedBy' =>
             scanStep \in {"validate", "finalize"} /\ "generate" \notin passedBy
        /\ scanStep' = "finalize" /\ "validate" \notin passedBy' =>
             scanStep = "finalize" /\ "validate" \notin passedBy
    BY <1>2, <1>3, <1>3a DEF StepIds
  <2> QED BY <1>1, <1>2, <2>1 DEF ScanInv, ReportIsCurrent, Scan!Rendered
<1> QED BY <1>4, <1>5, <1>6 DEF ScanInv

\* All of it, from the start.
LEMMA ScanInvHolds == ASSUME ScanSetting PROVE Scan!Spec => []ScanInv
<1>1. Scan!Init => ScanInv
  <2> SUFFICES ASSUME Scan!Init PROVE ScanInv
    OBVIOUS
  <2>1. ScanTyped
    BY ScanFacts DEF Scan!Init, Scan!Agent, ScanTyped, StepIds, Scan!Before, Scan!Steps
  <2> QED BY <2>1, ScanFacts DEF Scan!Init, ScanInv, AgentsPassed, AfterScan, StepIds, ReportIsCurrent
<1>2. ScanInv /\ [Scan!Next]_(Scan!vars) => ScanInv'
  <2> SUFFICES ASSUME ScanInv, [Scan!Next]_(Scan!vars) PROVE ScanInv'
    OBVIOUS
  <2>1. CASE UNCHANGED Scan!vars
    BY <2>1, BeforeMoves DEF Scan!vars, ScanInv, ScanTyped, AgentsPassed, Passed,
       ReportIsCurrent, Scan!Rendered
  <2> QED BY <2>1, ScanAgents, ScanSteps, ScanInterrupted DEF Scan!Next
<1> QED BY <1>1, <1>2, PTL DEF Scan!Spec

\* The positions in the scan, and its files, keep their types.
THEOREM ScanTypeCorrect == ASSUME ScanSetting PROVE Scan!Spec => []Scan!TypeOK
<1>1. ScanInv => Scan!TypeOK
  BY ScanStepsAre DEF ScanInv, ScanTyped, Scan!TypeOK, Scan!Agent
<1> QED BY <1>1, ScanInvHolds, PTL

\* Whatever attempts failed, crashed or were repeated before, and from whatever steps
\* users went on: what a security scan combines are artifacts that passed, with the
\* score reports of their contents, unless somebody went past the agents.
THEOREM WhatIsCombinedPassed == ASSUME ScanSetting PROVE Scan!Spec => []Scan!CombinedArePassed
<1>1. ScanInv => Scan!CombinedArePassed
  BY DEF ScanInv, AgentsPassed, Passed, AfterScan, StepIds, Scan!CombinedArePassed, Scan!At, Scan!Agent
<1> QED BY <1>1, ScanInvHolds, PTL

\* A scan that is done has a report whose very contents were scored and passed, unless
\* somebody went past its validation, with every finding there is as it was combined,
\* unless they went past its rendering: for any steps that were repeated before.
THEOREM FinalReportIsOfFindings ==
  ASSUME ScanSetting PROVE Scan!Spec => []Scan!FinalIsOfFindings
<1>1. ScanInv => Scan!FinalIsOfFindings
  <2> SUFFICES ASSUME ScanInv, scanning = "done" PROVE Scan!FinalIsOfFindings
    BY DEF Scan!FinalIsOfFindings
  <2>1. /\ final = report
        /\ "validate" \notin passedBy => reportScore = [of |-> final, pass |-> TRUE]
        /\ "generate" \notin passedBy => final = Scan!Rendered(findings)
    BY DEF ScanInv, ReportIsCurrent
  <2> QED BY <2>1 DEF Scan!FinalIsOfFindings, Scan!Rendered
<1> QED BY <1>1, ScanInvHolds, PTL
===============================================================================
