------------------------------ MODULE MCReview ------------------------------
(***************************************************************************)
(* What a result has to go through before it counts, one instance after    *)
(* another: part says which of them this behaviour is about, and the       *)
(* variables of the others keep their first values.                        *)
(*   patch     PatchReview: two files, one of them new                     *)
(*   evidence  Evidence: runs with and without a required script           *)
(*   phases    Validation: a Python project that becomes a Node project    *)
(*   scan      SecurityScan: two agents, each with two attempts            *)
(***************************************************************************)
EXTENDS PatchReview, Evidence, Validation, Integers, Sequences, TLC

CONSTANTS a1, a2

VARIABLES
  part,
  again, scanning, step, passedBy, agent, attempt, written, files, scores, context,
  findings, report, reportScore, final

scanVars == <<again, scanning, step, passedBy, agent, attempt, written, files, scores,
              context, findings, report, reportScore, final>>
allVars == <<part, vars, evidenceVars, phaseVars, scanVars>>

\* No action and no property tells one content an agent wrote from another.
Writes == Permutations({a1, a2})

Original == "f1" :> "base" @@ "f2" :> "absent"

Optional(id, category) == [id |-> id, category |-> category, required |-> FALSE]
Confirmed == {{Optional("build", "build"), Optional("check", "custom")}, {}}
Languages == 0 :> {"python"} @@ 1 :> {"node", "build"}

\* What agents hand in: a grave candidate, one that has to be repaired beside a
\* rejected one, a weak artifact and half of one.
Candidate(id, key, sev, fate) == [id |-> id, key |-> key, sev |-> sev, as |-> fate]
Handed(formed, pass, cands) == [formed |-> formed, pass |-> pass, cands |-> cands]
Papers ==
  {Handed(TRUE, TRUE, <<Candidate(1, 2, 2, "accepted")>>),
   Handed(TRUE, TRUE, <<Candidate(1, 1, 2, "rejected"), Candidate(2, 2, 1, "unreadable")>>),
   Handed(TRUE, FALSE, <<Candidate(1, 1, 4, "accepted")>>),
   Handed(FALSE, FALSE, <<Candidate(1, 2, 1, "accepted")>>)}
Scan == INSTANCE SecurityScan WITH
  AgentCount <- 2, MaxAttempts <- 2, MaxAgain <- 2, Artifacts <- Papers,
  Contexts <- {<<>>, <<[key |-> 2, sev |-> 3], [key |-> 5, sev |-> 3]>>},
  status <- scanning

ASSUME EvidenceAssumptions /\ PhasesAssumptions /\ NothingIsNone /\ Scan!Assumptions /\ Scan!RepairsAreFiles

-----------------------------------------------------------------------------
AllInit ==
  /\ part \in {"patch", "evidence", "phases", "scan"}
  /\ Init /\ EvidenceInit /\ PhasesInit /\ Scan!Init
  /\ part # "evidence" => contract = "none"

AllNext ==
  /\ UNCHANGED part
  /\ \/ part = "patch" /\ Next /\ UNCHANGED <<evidenceVars, phaseVars, scanVars>>
     \/ part = "evidence" /\ EvidenceNext /\ UNCHANGED <<vars, phaseVars, scanVars>>
     \/ part = "phases" /\ PhasesNext /\ UNCHANGED <<vars, evidenceVars, scanVars>>
     \/ part = "scan" /\ Scan!Next /\ UNCHANGED <<vars, evidenceVars, phaseVars>>

AllSpec == AllInit /\ [][AllNext]_allVars

-----------------------------------------------------------------------------
(* AppliedIsReviewed and EditsSurvive are of PatchReview, DoneIsEarned is   *)
(* of Evidence, AcceptedIsMeasured of Validation; FinalIsOfFindings is of   *)
(* SecurityScan, for its part.                                             *)

\* Every variable has its type.
PartsTypeOK ==
  /\ TypeOK
  /\ EvidenceTypeOK
  /\ PhasesTypeOK
  /\ part = "scan" => Scan!TypeOK

\* The final report is one of the findings there are, those have every accepted
\* candidate, and what was combined had passed its validation, each as long as
\* nobody went past the step that sees to it.
FinalIsOfFindings ==
  part = "scan" =>
    Scan!FinalIsOfFindings /\ Scan!CombinedArePassed /\ Scan!NothingIsLost
=============================================================================
