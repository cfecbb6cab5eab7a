------------------------------- MODULE AgentStep -------------------------------
(***************************************************************************)
(* The agent calls of the steps of one run: which conversation a call goes *)
(* to, which prompt it is given, and what is put back afterwards.          *)
(*                                                                         *)
(*   app/workflow_runtime/agent_step_runner.py     AgentStepRunner.run     *)
(*   app/services/agent_session_manager.py         resolve, record         *)
(*   app/services/agent_execution_service.py       execute                 *)
(*   app/workflow/agents/errors.py, providers/, runtime_modules/qwen.py    *)
(*                                                                         *)
(* No provider ever makes up a session id: a call goes to the conversation *)
(* of the project, Shared, or to one of its own that nobody can come back  *)
(* to, Own. The breaker and the back-off are in ModelCircuit.             *)
(***************************************************************************)
EXTENDS Integers, FiniteSets

CONSTANTS
  Step,            \* the agent steps of the run
  RoleOf,          \* step_session_role of a step
  ReadOnly,        \* the steps that may not change the project
  Compacts,        \* the steps that may be sent a compact retry prompt
  Corrects,        \* the steps that answer tool-call JSON with one correction
  MaxRecoveries,   \* AIWF_AGENT_TRANSIENT_RETRIES
  MaxCalls         \* bound: executions of steps

Role == {RoleOf[s] : s \in Step}
Shared == "shared"
Own == "own"

\* What the constants must satisfy.
StepAssumptions ==
  /\ Step # {}
  /\ ReadOnly \cup Compacts \cup Corrects \subseteq Step
  /\ Corrects \cap ReadOnly = {}
  /\ MaxRecoveries \in Nat /\ MaxCalls \in Nat

VARIABLES
  pc,        \* where the runner stands
  step,      \* the step it executes
  asked,     \* the session resolve decided on
  request,   \* the request under way: its session and its prompt
  retries,   \* len(recoveries)
  answer,    \* what came back
  roles,     \* run["role_session_ids"] for this agent
  provider,  \* run["agent_session_ids"] and qwen_session_id
  told,      \* the steps whose full prompt the shared conversation has
  feedback,  \* the steps with an entry in failure-feedback.md
  written,   \* the read-only steps whose writes are in the project
  script,    \* the validation script: the user's, or what an agent made of it
  before,    \* the snapshots taken before the call
  calls,     \* executions so far
  strayed,   \* history: did an agent that failed, or was corrected, edit files?
  moved      \* history: was a session left behind, or found gone or busy?

stepVars == <<pc, step, asked, request, retries, answer, roles, provider, told,
              feedback, written, script, before, calls, strayed, moved>>
projectVars == <<written, script>>
history == <<strayed, moved>>

Working == {"calling", "correcting"}
Recoverable == {"lost", "context", "timeout", "transient", "empty"}
\* classify_agent_error: the strategies that leave the session behind
LeavesSession == {"lost", "context", "timeout"}

\* AgentSessionManager.resolve
Resolve(s, fresh) ==
  IF fresh THEN Own
  ELSE IF roles[RoleOf[s]] # Own THEN roles[RoleOf[s]] ELSE provider

\* _compact_retry_prompt_if_reusing_session
PromptFor(s, session) ==
  IF session # Own /\ s \in Compacts /\ s \in feedback THEN "compact" ELSE "full"

\* What an agent may do to the project while it works; it strays when nothing
\* of that is put back afterwards.
Edits(restored) ==
  /\ written' \in IF step \in ReadOnly THEN {written, written \cup {step}} ELSE {written}
  /\ script' \in {script, "agent"}
  /\ strayed' = (strayed \/ (~restored /\ <<written', script'>> # <<written, script>>))

-----------------------------------------------------------------------------

\* run, up to the call. Reviews are always fresh, other steps after a failure
\* (every third one, a manual retry, a rollback).
Begin(s, fresh) ==
  LET session == Resolve(s, fresh) IN
  /\ pc = "idle" /\ calls < MaxCalls
  /\ fresh => s \in ReadOnly \cup feedback
  /\ pc' = "calling" /\ step' = s /\ asked' = session
  /\ request' = [session |-> session, prompt |-> PromptFor(s, session)]
  /\ before' = [written |-> written, script |-> script]
  /\ retries' = 0 /\ calls' = calls + 1
  /\ UNCHANGED <<answer, roles, provider, told, feedback>>
  /\ UNCHANGED projectVars /\ UNCHANGED history

\* The conversation has the prompt of the request, if it got there.
Tell(got) ==
  told' = IF got /\ request.session = Shared /\ request.prompt = "full"
          THEN told \cup {step} ELSE told

MayRetry == retries < MaxRecoveries

\* execute goes on with the same prompt, and for a full context with a
\* handoff before it; a correction has no recovery prompt.
Again(code) ==
  /\ retries' = retries + 1
  /\ request' = [session |-> IF code \in LeavesSession THEN Own ELSE request.session,
                 prompt |-> IF code = "context" /\ pc = "calling" THEN "handoff"
                            ELSE request.prompt]

\* The call raises. Whatever the step was to put back stays as it is then.
CallFails(code) ==
  /\ pc \in Working
  /\ Edits(FALSE)
  /\ moved' = (moved \/ code \in LeavesSession)
  /\ Tell(code \notin {"lost", "context"})
  /\ IF code \in Recoverable /\ MayRetry
     THEN Again(code) /\ UNCHANGED <<pc, feedback>>
     ELSE /\ pc' = "idle" /\ feedback' = feedback \cup {step}
          /\ UNCHANGED <<request, retries>>
  /\ UNCHANGED <<step, asked, answer, roles, provider, before, calls>>

\* run_stream returns. A provider that finds the session gone or busy goes
\* on without it in the same call; opencode then returns no session.
CallAnswers(kind, dropped) ==
  /\ pc \in Working
  /\ dropped => request.session = Shared
  /\ Edits(pc = "calling")
  /\ moved' = (moved \/ dropped)
  /\ Tell(~dropped)
  /\ answer' = kind
  /\ pc' = IF pc = "calling" THEN "answered" ELSE "corrected"
  /\ UNCHANGED <<step, asked, request, retries, roles, provider, feedback, before, calls>>

\* result.session_id or outcome.request.session_id, when there is one
Recorded == IF request.session # Own THEN request.session
            ELSE IF retries > 0 /\ asked # Own THEN Own ELSE roles[RoleOf[step]]

\* Mutant: the review is put back once its answer was accepted.
MutPutBack == UNCHANGED projectVars

\* restore_validation_script, and for a read-only step the whole project
PutBack ==
  /\ script' = before.script
  /\ written' = IF step \in ReadOnly THEN before.written ELSE written

\* After execute: the sessions are recorded and persisted (invalidate takes
\* only the role's entry), and then the files are put back.
Record ==
  /\ pc = "answered"
  /\ pc' = "recorded"
  /\ roles' = [roles EXCEPT ![RoleOf[step]] = Recorded]
  /\ provider' = IF request.session # Own THEN request.session ELSE provider
  /\ PutBack
  /\ UNCHANGED <<step, asked, request, retries, answer, told, feedback, before, calls>>
  /\ UNCHANGED history

Fail == /\ pc' = "idle" /\ feedback' = feedback \cup {step}
        /\ UNCHANGED <<asked, request, retries>>

\* The answer: empty, a question, tool-call JSON, or accepted. A correction
\* goes to the session that was asked for at first.
Judge ==
  /\ pc \in {"recorded", "corrected"}
  /\ CASE answer = "toolcall" /\ pc = "recorded" /\ step \in Corrects ->
            /\ pc' = "correcting" /\ retries' = 0
            /\ request' = [session |-> asked, prompt |-> "correction"]
            /\ UNCHANGED <<asked, feedback>>
       [] answer = "accepted" ->
            /\ pc' = "idle"
            /\ feedback' \in {feedback, feedback \cup {step}}
            /\ UNCHANGED <<asked, request, retries>>
       [] OTHER -> Fail
  /\ UNCHANGED <<step, answer, roles, provider, told, before, calls>>
  /\ UNCHANGED projectVars /\ UNCHANGED history

-----------------------------------------------------------------------------

StepInit ==
  /\ pc = "idle" /\ step = CHOOSE s \in Step : TRUE
  /\ asked = Own /\ request = [session |-> Own, prompt |-> "full"]
  /\ retries = 0 /\ answer = "accepted"
  /\ roles = [r \in Role |-> Own] /\ provider = Shared
  /\ told = {} /\ feedback = {} /\ written = {} /\ script = "user"
  /\ before = [written |-> {}, script |-> "user"]
  /\ calls = 0 /\ strayed = FALSE /\ moved = FALSE

StepNext ==
  \/ \E s \in Step, fresh \in BOOLEAN : Begin(s, fresh)
  \/ \E code \in {"stop"} \cup Recoverable : CallFails(code)
  \/ \E kind \in {"accepted", "toolcall", "empty", "question"}, dropped \in BOOLEAN :
       CallAnswers(kind, dropped)
  \/ Record
  \/ Judge

StepSpec == StepInit /\ [][StepNext]_stepVars

-----------------------------------------------------------------------------
(* Properties.                                                             *)

StepTypeOK ==
  /\ pc \in Working \cup {"idle", "answered", "recorded", "corrected"}
  /\ step \in Step
  /\ asked \in {Shared, Own} /\ provider \in {Shared, Own}
  /\ request \in [session : {Shared, Own},
                  prompt : {"full", "compact", "handoff", "correction"}]
  /\ retries \in 0 .. MaxRecoveries
  /\ answer \in {"accepted", "toolcall", "empty", "question"}
  /\ roles \in [Role -> {Shared, Own}]
  /\ told \subseteq Step /\ feedback \subseteq Step /\ written \subseteq ReadOnly
  /\ script \in {"user", "agent"}
  /\ before \in [written : SUBSET ReadOnly, script : {"user", "agent"}]
  /\ calls \in 0 .. MaxCalls
  /\ {strayed, moved} \subseteq BOOLEAN

\* Between the steps the project has no write of a step that may only read,
\* and the validation script is the user's.
ReadersLeaveNoTrace == pc = "idle" => written = {} /\ script = "user"

\* "The full workflow/task prompt was already sent earlier in this session":
\* a compact prompt goes to a conversation that has the full one.
CompactHasContext ==
  pc = "calling" /\ request.prompt = "compact" =>
    request.session = Shared /\ step \in told

\* A step that may only read leaves the project as it found it, through every
\* recovery of a failed call, as long as an agent that fails or is corrected
\* leaves the files alone; and as long as no session was left behind, a prompt
\* that leaves the task out goes to a session that has been told it.
StepsAreSound ==
  (~strayed => ReadersLeaveNoTrace) /\ (~moved => CompactHasContext)
=============================================================================
