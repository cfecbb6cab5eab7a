---------------------------- MODULE SecurityScan ----------------------------
(***************************************************************************)
(* The security-scan workflow: agents write candidate artifacts one after  *)
(* the other, each validated and scored (consensus_actions.py,             *)
(* security_candidates.py), the artifacts and the candidates found by      *)
(* pattern are combined into findings, and a report is rendered from the   *)
(* findings, scored and finalized (security_report.py).                    *)
(*                                                                         *)
(* Grain. A candidate is what its fate depends on: `key` is the rank of    *)
(* its normalized file, area and evidence among all keys, `sev` that of    *)
(* its severity, 1 for Critical; `as` is "accepted", "rejected", or        *)
(* "unreadable" when it is left out unless a validator has repaired it.    *)
(* What the scores come to is not followed: an artifact carries whether it *)
(* is `formed`, once repaired, and whether it scores a `pass`, a score     *)
(* file carries the contents that it is `of`, and a finding the scores     *)
(* that its confidence was computed with.                                  *)
(***************************************************************************)
EXTENDS Naturals, Sequences, FiniteSets, FiniteSetsExt, SequencesExt

CONSTANTS
  AgentCount,    \* agentCount of the consensus step
  MaxAttempts,   \* agentMaxRetries of the consensus step
  Artifacts,     \* what an agent may write: [formed, pass, cands]
  Contexts,      \* what the patterns may find in the project's files:
                 \* sequences of [key, sev]
  MaxAgain,      \* bound: how often a step starts again, by retry or by request
  None

Assumptions ==
  /\ {AgentCount, MaxAttempts} \subseteq Nat \ {0} /\ MaxAgain \in Nat
  /\ None \notin Artifacts

VARIABLES
  again,         \* how often one did
  status,        \* "running", "stopped" or "done"
  step,          \* the step that is executed, or that is next
  passedBy,      \* the steps before it that did not pass: the user went past them
  agent, attempt,\* the position of the loop inside the consensus step
  written,       \* the artifact of this attempt is written, its validator not yet called
  files,         \* security-candidates-agent-<i>.md
  scores,        \* security-candidates-agent-<i>-score.md
  context,       \* what the patterns find in security-context.md
  findings,      \* security-findings.md
  report,        \* security-report.md
  reportScore,   \* security-report-score.md
  final          \* security-final.md

vars == <<again, status, step, passedBy, agent, attempt, written, files, scores, context,
          findings, report, reportScore, final>>
outputs == <<files, scores, context, findings, report, reportScore, final>>

Agent == 1 .. AgentCount
Steps == <<"collect", "scan", "combine", "generate", "validate", "finalize">>
Before(s) == {Steps[i] : i \in {j \in DOMAIN Steps : \E k \in DOMAIN Steps : j < k /\ Steps[k] = s}}

-----------------------------------------------------------------------------
(* Artifacts and their scores.                                             *)

\* Small mistakes of form are repaired before the strict checks.
Repaired(c) == [c EXCEPT !.as = IF @ = "unreadable" THEN "accepted" ELSE @]
RepairedFile(a) == [a EXCEPT !.cands = [i \in DOMAIN @ |-> Repaired(@[i])]]

\* What a validator has rewritten is an artifact still.
RepairsAreFiles == \A a \in Artifacts : RepairedFile(a) # None

\* What the validator does not raise for before it scores.
WellFormed(a) == a.formed

Scored(a) == [of |-> a, pass |-> a.pass]

-----------------------------------------------------------------------------
(* Combination *)

\* A candidate for each kind of signal in each file.
Heuristic(signal, id) == [id |-> id, key |-> signal.key, sev |-> signal.sev, as |-> "accepted"]

Heuristics(ctx) == [j \in DOMAIN ctx |-> Heuristic(ctx[j], j)]

\* The candidates of the artifacts on disk, in the order of their names, then
\* those of the patterns, each with the artifact it comes from (0: the context).
From(i, s) == [j \in DOMAIN s |-> s[j] @@ [source |-> i]]

AllCandidates(f, ctx) ==
  FlattenSeq([i \in Agent |-> IF f[i] = None THEN <<>> ELSE From(i, f[i].cands)])
    \o From(0, Heuristics(ctx))

Accepted(c) == c.as = "accepted"

\* The scores an average of which counts for the confidence.
Basis(items, sc) == {sc[c.source] : c \in {x \in Range(items) : x.source # 0 /\ sc[x.source] # None}}

Consensus(items) == Len(items)

BestSeverity(items) == Min({items[i].sev : i \in DOMAIN items})

Finding(items, sc) ==
  [sources |-> [i \in DOMAIN items |-> <<items[i].source, items[i].id>>],
   sev |-> BestSeverity(items),
   basis |-> Basis(items, sc),
   consensus |-> Consensus(items)]

\* Grouped by key; SEC-001, SEC-002, ... in the order of the keys.
Combined(all, sc) ==
  LET accepted == SelectSeq(all, Accepted)
      keys == SetToSortSeq({accepted[i].key : i \in DOMAIN accepted}, <)
  IN [n \in DOMAIN keys |-> Finding(SelectSeq(accepted, LAMBDA c : c.key = keys[n]), sc)]

-----------------------------------------------------------------------------
(* Report: one VULN for each SEC; the fields are read back from the text *)

Rendered(fs) ==
  [n \in DOMAIN fs |-> [source |-> n, sev |-> fs[n].sev, basis |-> fs[n].basis]]

\* A file that is not there is read as an empty one.
Read(fs) == IF fs = None THEN <<>> ELSE fs

\* A report that misses an accepted finding, or states there is none, is rendered again.
Refreshed(r, fs) ==
  IF fs # <<>> /\ (r = <<>> \/ Len(r) < Len(fs)) THEN Rendered(fs) ELSE r

\* Every SEC has its VULN.
ReportCovers(r, fs) == \A n \in DOMAIN fs : \E k \in DOMAIN r : r[k].source = n

-----------------------------------------------------------------------------
Init ==
  /\ again = 0 /\ status = "running" /\ step = "collect" /\ passedBy = {}
  /\ agent = 1 /\ attempt = 1 /\ written = FALSE
  /\ files = [i \in Agent |-> None] /\ scores = [i \in Agent |-> None]
  /\ context = <<>> /\ findings = None /\ report = None
  /\ reportScore = None /\ final = None

At(s) == status = "running" /\ step = s
Rewound == agent' = 1 /\ attempt' = 1 /\ written' = FALSE
Pass(next) ==
  step' = next /\ status' = "running" /\ Rewound /\ UNCHANGED <<again, passedBy>>

\* The step loop starts again at `target` as long as the retry policy allows, or stops.
Fail(target) ==
  /\ \/ /\ again < MaxAgain /\ again' = again + 1 /\ status' = "running" /\ step' = target
        /\ passedBy' = passedBy \cap Before(target)
     \/ status' = "stopped" /\ UNCHANGED <<again, step, passedBy>>
  /\ Rewound

Collect ==
  /\ At("collect") /\ Pass("scan")
  /\ context' \in Contexts
  /\ UNCHANGED <<files, scores, findings, report, reportScore, final>>

\* An agent's call ends with an artifact.
AgentAnswers ==
  /\ At("scan") /\ ~written /\ written' = TRUE
  /\ \E a \in Artifacts : files' = [files EXCEPT ![agent] = a]
  /\ UNCHANGED <<again, status, step, passedBy, agent, attempt, scores, context, findings,
                 report, reportScore, final>>

AgentPasses ==
  IF agent = AgentCount
  THEN Pass("combine")
  ELSE /\ agent' = agent + 1 /\ attempt' = 1 /\ written' = FALSE
       /\ UNCHANGED <<again, status, step, passedBy>>

NextAttempt ==
  attempt' = attempt + 1 /\ written' = FALSE /\ UNCHANGED <<again, status, step, passedBy, agent>>

\* Mutant: there is one attempt more than there are retries to be had.
MutOneMore == IF attempt <= MaxAttempts THEN NextAttempt ELSE Fail("scan")

\* An attempt that failed is fed back to the next one; the last one fails the step.
AttemptFails == IF attempt < MaxAttempts THEN NextAttempt ELSE Fail("scan")

\* An agent's call fails without one.
AgentFails ==
  /\ At("scan") /\ ~written
  /\ AttemptFails
  /\ UNCHANGED outputs

\* validate_security_candidates rewrites the artifact as repaired, and writes a
\* score report of a well formed one, whether the score passes or not.
ArtifactValidated ==
  LET a == RepairedFile(files[agent])
      ok == WellFormed(a) /\ Scored(a).pass
  IN /\ At("scan") /\ written
     /\ files' = [files EXCEPT ![agent] = a]
     /\ scores' = IF WellFormed(a) THEN [scores EXCEPT ![agent] = Scored(a)] ELSE scores
     /\ IF ok THEN AgentPasses ELSE AttemptFails
     /\ UNCHANGED <<context, findings, report, reportScore, final>>

\* Every artifact that is on disk is read, whatever became of its validation.
Combine ==
  LET all == AllCandidates(files, context)
  IN /\ At("combine")
     /\ IF (\A i \in Agent : files[i] = None) \/ all = <<>>
        THEN Fail("combine") /\ UNCHANGED findings
        ELSE findings' = Combined(all, scores) /\ Pass("generate")
     /\ UNCHANGED <<files, scores, context, report, reportScore, final>>

\* Mutant: a report that is there is kept.
MutGenerate ==
  /\ At("generate")
  /\ IF findings = None THEN Fail("generate") /\ UNCHANGED report
     ELSE report' = (IF report = None THEN Rendered(findings) ELSE report) /\ Pass("validate")
  /\ UNCHANGED <<files, scores, context, findings, reportScore, final>>

Generate ==
  /\ At("generate")
  /\ IF findings = None THEN Fail("generate") /\ UNCHANGED report
     ELSE report' = Rendered(findings) /\ Pass("validate")
  /\ UNCHANGED <<files, scores, context, findings, reportScore, final>>

\* A malformed report raises before the score is written, and the score of an
\* earlier one stays. Without a report nothing is written at all.
ReportValidated ==
  /\ At("validate")
  /\ IF report = None THEN Fail("generate") /\ UNCHANGED <<report, reportScore>>
     ELSE LET r == Refreshed(report, Read(findings))
          IN \E formed, pass \in BOOLEAN :
               LET scored == formed /\ ReportCovers(r, Read(findings))
               IN /\ report' = r
                  /\ reportScore' = IF scored THEN [of |-> r, pass |-> pass] ELSE reportScore
                  /\ IF scored /\ pass THEN Pass("finalize") ELSE Fail("generate")
  /\ UNCHANGED <<files, scores, context, findings, final>>

\* The score is read for its verdict, whatever it is of.
Finalize ==
  /\ At("finalize")
  /\ IF report # None /\ reportScore # None /\ reportScore.pass
     THEN final' = report /\ status' = "done" /\ UNCHANGED <<again, step, passedBy>> /\ Rewound
     ELSE Fail("finalize") /\ UNCHANGED final
  /\ UNCHANGED <<files, scores, context, findings, report, reportScore>>

\* A crash, a timeout or a stop ends the step where it is; what it wrote stays.
Interrupt ==
  /\ status = "running" /\ status' = "stopped"
  /\ Rewound
  /\ UNCHANGED <<again, step, passedBy, outputs>>

\* The user or the recovery runs the workflow again from any step. Those before it
\* that had not passed are gone past, as they are when they were skipped or marked
\* as passed before. A scan that is done has passed its last step.
RunFrom ==
  /\ status # "running" /\ status' = "running"
  /\ again < MaxAgain /\ again' = again + 1
  /\ step' \in Range(Steps)
  /\ passedBy' = (passedBy \cup (Range(Steps) \ Before(step))) \cap Before(step')
  /\ Rewound
  /\ UNCHANGED outputs

Next ==
  \/ Collect \/ AgentAnswers \/ AgentFails \/ ArtifactValidated
  \/ Combine \/ Generate \/ ReportValidated \/ Finalize \/ Interrupt \/ RunFrom

Spec == Init /\ [][Next]_vars
-----------------------------------------------------------------------------
\* Every variable has its type.
TypeOK ==
  /\ status \in {"running", "stopped", "done"} /\ step \in Range(Steps)
  /\ passedBy \subseteq Before(step)
  /\ agent \in Agent /\ attempt \in 1 .. MaxAttempts /\ written \in BOOLEAN
  /\ again \in 0..MaxAgain /\ DOMAIN files = Agent /\ DOMAIN scores = Agent

\* What the user reads when the scan is done is a report whose very contents were
\* scored and passed, unless the user went past its validation; and it has every
\* finding there is, as it was combined, unless they went past its rendering. An
\* earlier report and an earlier score stay on disk through every retry.
FinalIsOfFindings ==
  status = "done" =>
    /\ final = report
    /\ "validate" \notin passedBy => reportScore = [of |-> final, pass |-> TRUE]
    /\ "generate" \notin passedBy =>
         /\ DOMAIN final = DOMAIN findings
         /\ \A n \in DOMAIN findings :
              /\ final[n].source = n
              /\ final[n].sev = findings[n].sev
              /\ final[n].basis = findings[n].basis

\* Unless the user went past the agents, what is combined was scored: whatever
\* attempts failed, crashed or were left behind before, each artifact on disk is
\* well formed and has the score report of its own contents, and that one passes.
CombinedArePassed ==
  At("combine") /\ "scan" \notin passedBy =>
    \A i \in Agent :
      /\ files[i] # None /\ WellFormed(files[i])
      /\ scores[i] = Scored(files[i]) /\ scores[i].pass

\* No candidate is lost between the agents and the report: unless the user went
\* past the combination, each candidate on disk that was not rejected is a source
\* of exactly one finding, which is at least as severe.
NothingIsLost ==
  status = "running" /\ "combine" \in Before(step) \ passedBy =>
    LET all == AllCandidates(files, context)
    IN \A i \in DOMAIN all :
         IF Accepted(all[i])
         THEN /\ Quantify(DOMAIN findings, LAMBDA n :
                    <<all[i].source, all[i].id>> \in Range(findings[n].sources)) = 1
              /\ \E n \in DOMAIN findings :
                   /\ <<all[i].source, all[i].id>> \in Range(findings[n].sources)
                   /\ findings[n].sev <= all[i].sev
         ELSE \A n \in DOMAIN findings :
                <<all[i].source, all[i].id>> \notin Range(findings[n].sources)

\* Not checked, and not so: whatever the user went past, a report that becomes
\* final was scored.
FinalIsScored == status = "done" => reportScore = [of |-> final, pass |-> TRUE]

\* security_common.py words the confidence "Multi-agent consensus score: 25/25
\* from 3 agent(s)": three agents reported what has the consensus of three.
ConsensusIsOfAgents ==
  findings # None =>
    \A n \in DOMAIN findings :
      findings[n].consensus = Cardinality({s[1] : s \in Range(findings[n].sources)})
=============================================================================
