---------------------------- MODULE ModelCircuit ----------------------------
(***************************************************************************)
(* The circuit breaker in front of one model endpoint, and the agent calls *)
(* that go through it: app/services/model_circuit_breaker.py and           *)
(* AgentExecutionService.execute in agent_execution_service.py.            *)
(*                                                                         *)
(* Grain. One event loop: the code between two waits is a step. A call     *)
(* waits for a slot of the provider, for the agent's answer, for an open   *)
(* circuit, for its back-off and for the endpoint to come back.            *)
(***************************************************************************)
EXTENDS Integers, FiniteSets, FiniteSetsExt

CONSTANTS
  Call,        \* calls of execute, each made once
  Threshold,   \* AIWF_MODEL_CIRCUIT_FAILURES
  Cooldown,    \* AIWF_MODEL_CIRCUIT_COOLDOWN_SEC
  MaxFactor,   \* the 8 of the multiplier
  MaxRetries,  \* max_transient_retries
  Limit,       \* provider_limit
  MaxOutages,  \* bound on the outages of the endpoint
  MaxCancels,  \* bound on the calls that are cancelled
  ProbeCancels \* may the call that is the probe be cancelled?

ASSUME CircuitAssumption ==
  {Threshold, Cooldown, MaxFactor, Limit} \subseteq Nat \ {0}
ASSUME CallAssumption == {MaxRetries, MaxOutages, MaxCancels} \subseteq Nat
ASSUME FlagAssumption == ProbeCancels \in BOOLEAN

VARIABLES circuit, call, up, outages, cancels

vars == <<circuit, call, up, outages, cancels>>

\* failure_count matters only up to the largest multiplier.
MaxFailures == Threshold + MaxFactor - 1

\* left is the time until next_probe_at.
Circuit == [state : {"closed", "open", "half_open"}, failures : 0..MaxFailures,
            left : 0..Cooldown * MaxFactor, probing : BOOLEAN]

Closed == [state |-> "closed", failures |-> 0, left |-> 0, probing |-> FALSE]

CallRec ==
  [pc : {"new", "asking", "waiting", "queued", "running", "backoff", "ended"},
   probe : BOOLEAN,          \* was the attempt under way allowed as the probe?
   retries : 0..MaxRetries]

-----------------------------------------------------------------------------
(* ModelCircuitBreaker.                                                    *)

\* allow: what becomes of the circuit, and the answer.
Asked(k) ==
  IF k.state = "open" /\ k.left = 0 THEN [k EXCEPT !.state = "half_open", !.probing = TRUE]
  ELSE IF k.state = "half_open" THEN [k EXCEPT !.probing = TRUE]
  ELSE k

IsProbe(k) == \/ k.state = "open" /\ k.left = 0
              \/ k.state = "half_open" /\ ~k.probing

Allowed(k) == k.state = "closed" \/ IsProbe(k)

\* record_success.
Succeeded(k) == Closed

Factor(failures) == Min({MaxFactor, Max({1, failures - Threshold + 1})})

MutFailed(k, transient) ==
  LET n == Min({k.failures + 1, MaxFailures}) IN
  IF ~transient THEN k
  ELSE IF k.state = "half_open" \/ n >= Threshold
       THEN [state |-> "open", failures |-> n, left |-> Cooldown * Factor(n),
             probing |-> FALSE]
  ELSE [k EXCEPT !.probing = FALSE, !.failures = n]

\* record_failure.
Failed(k, transient) ==
  LET n == Min({k.failures + 1, MaxFailures}) IN
  IF ~transient THEN [k EXCEPT !.probing = FALSE]
  ELSE IF k.state = "half_open" \/ n >= Threshold
       THEN [state |-> "open", failures |-> n, left |-> Cooldown * Factor(n),
             probing |-> FALSE]
  ELSE [k EXCEPT !.probing = FALSE, !.failures = n]

-----------------------------------------------------------------------------
(* AgentExecutionService.execute.                                          *)

At(c, pc) == call[c].pc = pc
Goto(c, pc) == call' = [call EXCEPT ![c].pc = pc]

Arrive(c) ==
  /\ At(c, "new")
  /\ Goto(c, "asking")
  /\ UNCHANGED <<circuit, up, outages, cancels>>

Ask(c) ==
  /\ At(c, "asking")
  /\ circuit' = Asked(circuit)
  /\ call' = [call EXCEPT ![c].pc = IF Allowed(circuit) THEN "queued" ELSE "waiting",
                          ![c].probe = IsProbe(circuit)]
  /\ UNCHANGED <<up, outages, cancels>>

AskAgain(c) ==
  /\ At(c, "waiting")
  /\ Goto(c, "asking")
  /\ UNCHANGED <<circuit, up, outages, cancels>>

TakeSlot(c) ==
  /\ At(c, "queued")
  /\ Cardinality({d \in Call : At(d, "running")}) < Limit
  /\ Goto(c, "running")
  /\ UNCHANGED <<circuit, up, outages, cancels>>

Answer(c) ==
  /\ At(c, "running") /\ up
  /\ circuit' = Succeeded(circuit)
  /\ call' = [call EXCEPT ![c].pc = "ended", ![c].probe = FALSE]
  /\ UNCHANGED <<up, outages, cancels>>

MutRetried(c, recoverable) ==
  IF recoverable /\ call[c].retries <= MaxRetries
  THEN [pc |-> "backoff", probe |-> FALSE, retries |-> call[c].retries + 1]
  ELSE [call[c] EXCEPT !.pc = "ended", !.probe = FALSE]

\* Back off and ask again, or give up.
Retried(c, recoverable) ==
  IF recoverable /\ call[c].retries < MaxRetries
  THEN [pc |-> "backoff", probe |-> FALSE, retries |-> call[c].retries + 1]
  ELSE [call[c] EXCEPT !.pc = "ended", !.probe = FALSE]

\* An answer without content counts as a success and then as a failure.
AnswerEmpty(c) ==
  /\ At(c, "running") /\ up
  /\ circuit' = Failed(Succeeded(circuit), FALSE)
  /\ call' = [call EXCEPT ![c] = Retried(c, TRUE)]
  /\ UNCHANGED <<up, outages, cancels>>

\* TRANSIENT_API_FAILURE and AGENT_TIMEOUT.
FailTransiently(c) ==
  /\ At(c, "running") /\ ~up
  /\ circuit' = Failed(circuit, TRUE)
  /\ call' = [call EXCEPT ![c] = Retried(c, TRUE)]
  /\ UNCHANGED <<up, outages, cancels>>

\* Any other error: the session, the context, the credentials.
FailOtherwise(c) ==
  /\ At(c, "running")
  /\ circuit' = Failed(circuit, FALSE)
  /\ \E recoverable \in BOOLEAN :
       call' = [call EXCEPT ![c] = Retried(c, recoverable)]
  /\ UNCHANGED <<up, outages, cancels>>

\* The back-off is over, wait_for_connectivity found the endpoint or gave up.
\* A reachable endpoint is recorded under the agent's name, which is the key
\* of no circuit that a call asks.
Retry(c) ==
  /\ At(c, "backoff")
  /\ Goto(c, "asking")
  /\ UNCHANGED <<circuit, up, outages, cancels>>

\* A stop or a time limit cancels the task; execute just raises.
Cancel(c) ==
  /\ call[c].pc \in {"waiting", "queued", "running", "backoff"}
  /\ cancels < MaxCancels /\ (call[c].probe => ProbeCancels)
  /\ cancels' = cancels + 1
  /\ call' = [call EXCEPT ![c].pc = "ended", ![c].probe = FALSE]
  /\ UNCHANGED <<circuit, up, outages>>

-----------------------------------------------------------------------------
(* The endpoint, and time.                                                 *)

GoDown ==
  /\ up /\ outages < MaxOutages
  /\ up' = FALSE /\ outages' = outages + 1
  /\ UNCHANGED <<circuit, call, cancels>>

ComeUp ==
  /\ ~up
  /\ up' = TRUE
  /\ UNCHANGED <<circuit, call, outages, cancels>>

Tick ==
  /\ circuit.left > 0
  /\ circuit' = [circuit EXCEPT !.left = @ - 1]
  /\ UNCHANGED <<call, up, outages, cancels>>

-----------------------------------------------------------------------------
Init ==
  /\ circuit = Closed
  /\ call = [c \in Call |-> [pc |-> "new", probe |-> FALSE, retries |-> 0]]
  /\ up = TRUE
  /\ outages = 0 /\ cancels = 0

\* What ends an attempt; the agent has a time limit of its own.
Finish(c) ==
  Answer(c) \/ AnswerEmpty(c) \/ FailTransiently(c) \/ FailOtherwise(c)

Next ==
  \/ \E c \in Call : \/ Arrive(c) \/ Ask(c) \/ AskAgain(c) \/ TakeSlot(c)
                     \/ Finish(c) \/ Retry(c) \/ Cancel(c)
  \/ GoDown \/ ComeUp \/ Tick

Spec == Init /\ [][Next]_vars

\* Timers fire, an agent's call ends, and the semaphore serves its waiters in
\* turn, so that a slot that is freed again and again is got in the end.
\* Nothing makes the endpoint come back.
Fairness ==
  /\ \A c \in Call : WF_vars(Ask(c)) /\ WF_vars(AskAgain(c)) /\ SF_vars(TakeSlot(c))
                     /\ WF_vars(Finish(c)) /\ WF_vars(Retry(c))
  /\ WF_vars(Tick)

FairSpec == Spec /\ Fairness

-----------------------------------------------------------------------------
TypeOK ==
  /\ circuit \in Circuit
  /\ call \in [Call -> CallRec]
  /\ up \in BOOLEAN
  /\ outages \in 0..MaxOutages /\ cancels \in 0..MaxCancels

\* A closed circuit is one that has not seen as many failures in a row as it
\* takes to open it, however late the answers arrive.
ClosedIsHealthy == circuit.state = "closed" => circuit.failures < Threshold

InFlight(c) == call[c].pc \in {"queued", "running"}

\* While the circuit waits for a probe, the call that is the probe is under
\* way: the right to probe is not lost with a call that ended otherwise.
\* (half_open_in_flight, agent_execution_service.py:68-91)
ProbeIsUnderWay ==
  circuit.state = "half_open" /\ circuit.probing
  => \E c \in Call : InFlight(c) /\ call[c].probe

\* A call that met an open circuit gets through or is ended; it does not wait
\* for ever, though the endpoint may never come back. (execute, the loop)
WaitersGetThrough ==
  \A c \in Call : At(c, "waiting") ~> At(c, "queued") \/ At(c, "ended")

\* At most one call at a time probes an endpoint that failed.
OneProbe == Cardinality({c \in Call : InFlight(c) /\ call[c].probe}) <= 1
=============================================================================
