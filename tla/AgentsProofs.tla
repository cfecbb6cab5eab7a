----------------------------- MODULE AgentsProofs -----------------------------
(***************************************************************************)
(* What stands between a step and the model, proved for any number of      *)
(* calls, turns, conversations, daemons and steps.                         *)
(*                                                                         *)
(*   ModelCircuit  TypeOK is inductive. ClosedIsHealthy and                *)
(*                 ProbeIsUnderWay are inductive relative to it: the first *)
(*                 looks at the circuit only, the second at the circuit    *)
(*                 and the one call that is its probe.                     *)
(*   AgentStep     StepInv: what the snapshots before a call are of, and   *)
(*                 who has been told what in the project's conversation.   *)
(*   QwenServe     ServeInv: who holds which lock, which prompt waits in a *)
(*                 session, and which daemon is the one that runs.         *)
(***************************************************************************)
EXTENDS ModelCircuit, QwenServe, AgentStep, TLAPS

LEMMA MinOfTwo ==
  ASSUME NEW a \in Nat, NEW b \in Nat
  PROVE  /\ Min({a, b}) \in {a, b}
         /\ Min({a, b}) <= a /\ Min({a, b}) <= b
<1> DEFINE m == IF a <= b THEN a ELSE b
<1>1. m \in {a, b} /\ \A y \in {a, b} : m <= y
  OBVIOUS
<1> HIDE DEF m
<1>2. \E x \in {a, b} : \A y \in {a, b} : x <= y
  BY <1>1
<1> QED BY <1>2 DEF Min

LEMMA MaxOfTwo ==
  ASSUME NEW a \in Nat, NEW b \in Nat
  PROVE  /\ Max({a, b}) \in {a, b}
         /\ Max({a, b}) >= a /\ Max({a, b}) >= b
<1> DEFINE m == IF a >= b THEN a ELSE b
<1>1. m \in {a, b} /\ \A y \in {a, b} : m >= y
  OBVIOUS
<1> HIDE DEF m
<1>2. \E x \in {a, b} : \A y \in {a, b} : x >= y
  BY <1>1
<1> QED BY <1>2 DEF Max

\* The multiplier of the cool-down lies between one and its cap.
LEMMA FactorIsBounded ==
  ASSUME NEW n \in Nat
  PROVE  Factor(n) \in 1..MaxFactor
<1> USE CircuitAssumption
<1>1. CASE n - Threshold + 1 \in Nat
  <2> DEFINE x == Max({1, n - Threshold + 1})
  <2>1. x \in Nat /\ x >= 1
    BY <1>1, MaxOfTwo
  <2> HIDE DEF x
  <2>2. Min({MaxFactor, x}) \in 1..MaxFactor
    BY <2>1, MinOfTwo
  <2> QED BY <2>2 DEF Factor, x
<1>2. CASE n - Threshold + 1 \notin Nat
  <2>1. n - Threshold + 1 < 1 /\ n - Threshold + 1 \in Int
    BY <1>2
  <2>2. Max({1, n - Threshold + 1}) = 1
    BY <2>1 DEF Max
  <2>3. Min({MaxFactor, 1}) \in 1..MaxFactor
    BY MinOfTwo
  <2> QED BY <2>2, <2>3 DEF Factor
<1> QED BY <1>1, <1>2

LEMMA TimesIsMonotone ==
  ASSUME NEW a \in Nat, NEW b \in Nat, NEW c \in Nat, b <= c
  PROVE  a * b \in 0..(a * c)
OBVIOUS

\* A transient failure opens the circuit for a time within its type.
LEMMA CooldownIsBounded ==
  ASSUME NEW n \in Nat
  PROVE  Cooldown * Factor(n) \in 0..(Cooldown * MaxFactor)
<1>1. Factor(n) \in Nat /\ Factor(n) <= MaxFactor
  BY FactorIsBounded, CircuitAssumption
<1> HIDE DEF Factor
<1> QED BY <1>1, TimesIsMonotone, CircuitAssumption

-----------------------------------------------------------------------------
(* The three functions of the breaker.                                     *)

LEMMA MaxFailuresType == MaxFailures \in Nat /\ MaxFailures >= Threshold
BY CircuitAssumption DEF MaxFailures

\* What record_failure does to a circuit.
LEMMA FailedCases ==
  ASSUME NEW k \in Circuit, NEW transient \in BOOLEAN
  PROVE  /\ Failed(k, transient) \in Circuit
         /\ Failed(k, transient).state = "closed" =>
              /\ k.state = "closed"
              /\ \/ Failed(k, transient).failures = k.failures
                 \/ Failed(k, transient).failures < Threshold
         /\ ~Failed(k, transient).probing
<1> USE MaxFailuresType, CircuitAssumption
<1> DEFINE n == Min({k.failures + 1, MaxFailures})
<1>0. k.failures \in Nat
  BY DEF Circuit
<1>1. n \in 0..MaxFailures
  BY <1>0, MinOfTwo
<1>2. Cooldown * Factor(n) \in 0..(Cooldown * MaxFactor)
  BY <1>1, CooldownIsBounded
<1> HIDE DEF n
<1>3. Failed(k, transient) =
        IF ~transient THEN [k EXCEPT !.probing = FALSE]
        ELSE IF k.state = "half_open" \/ n >= Threshold
             THEN [state |-> "open", failures |-> n,
                   left |-> Cooldown * Factor(n), probing |-> FALSE]
        ELSE [k EXCEPT !.probing = FALSE, !.failures = n]
  BY DEF Failed, n
<1>4. CASE ~transient
  BY <1>3, <1>4 DEF Circuit
<1>5. CASE transient /\ (k.state = "half_open" \/ n >= Threshold)
  <2> DEFINE w == Cooldown * Factor(n)
  <2>1. w \in 0..(Cooldown * MaxFactor)
    BY <1>2
  <2>2. Failed(k, transient) = [state |-> "open", failures |-> n, left |-> w,
                                probing |-> FALSE]
    BY <1>3, <1>5
  <2> HIDE DEF w
  <2> QED BY <1>1, <2>1, <2>2 DEF Circuit
<1>6. CASE transient /\ ~(k.state = "half_open" \/ n >= Threshold)
  <2>1. Failed(k, transient) = [k EXCEPT !.probing = FALSE, !.failures = n]
    BY <1>3, <1>6
  <2>2. n < Threshold
    BY <1>1, <1>6
  <2> QED BY <1>1, <1>6, <2>1, <2>2 DEF Circuit
<1> QED BY <1>4, <1>5, <1>6

LEMMA ClosedType == Closed \in Circuit /\ Closed.failures < Threshold
<1>1. Cooldown * MaxFactor \in Nat
  BY CircuitAssumption
<1>2. Closed.failures < Threshold
  BY CircuitAssumption DEF Closed
<1> QED BY <1>1, <1>2, MaxFailuresType DEF Closed, Circuit

LEMMA AskedType == ASSUME NEW k \in Circuit PROVE Asked(k) \in Circuit
BY DEF Asked, Circuit

LEMMA RetriedType ==
  ASSUME TypeOK, NEW c \in Call, NEW recoverable \in BOOLEAN
  PROVE  Retried(c, recoverable) \in CallRec
<1>1. call[c] \in CallRec /\ MaxRetries \in Nat
  BY CallAssumption DEF TypeOK
<1>2. CASE recoverable /\ call[c].retries < MaxRetries
  <2>1. call[c].retries + 1 \in 0..MaxRetries
    BY <1>1, <1>2 DEF CallRec
  <2> QED BY <1>2, <2>1 DEF Retried, CallRec
<1>3. CASE ~(recoverable /\ call[c].retries < MaxRetries)
  BY <1>1, <1>3 DEF Retried, CallRec
<1> QED BY <1>2, <1>3

-----------------------------------------------------------------------------
(* The invariants.                                                         *)

CircuitInv == TypeOK /\ ClosedIsHealthy

LEMMA CircuitStarts == Init => CircuitInv
<1> SUFFICES ASSUME Init PROVE CircuitInv
  OBVIOUS
<1>1. \A c \in Call : [pc |-> "new", probe |-> FALSE, retries |-> 0] \in CallRec
  BY CallAssumption DEF CallRec
<1>2. call \in [Call -> CallRec]
  BY <1>1 DEF Init
<1> QED BY <1>2, ClosedType, CallAssumption DEF Init, CircuitInv, TypeOK, ClosedIsHealthy

\* A step that moves one call and leaves the circuit alone.
LEMMA MovePreserves ==
  ASSUME CircuitInv, NEW c \in Call, NEW r \in CallRec,
         call' = [call EXCEPT ![c] = r],
         circuit' \in Circuit,
         circuit'.state = "closed" => circuit'.failures < Threshold,
         up' \in BOOLEAN, outages' \in 0..MaxOutages, cancels' \in 0..MaxCancels
  PROVE  CircuitInv'
BY DEF CircuitInv, TypeOK, ClosedIsHealthy

LEMMA CircuitStep == CircuitInv /\ [Next]_vars => CircuitInv'
<1> SUFFICES ASSUME CircuitInv, [Next]_vars PROVE CircuitInv'
  OBVIOUS
<1>1. /\ circuit \in Circuit /\ call \in [Call -> CallRec]
      /\ up \in BOOLEAN /\ outages \in 0..MaxOutages /\ cancels \in 0..MaxCancels
      /\ circuit.state = "closed" => circuit.failures < Threshold
  BY DEF CircuitInv, TypeOK, ClosedIsHealthy
<1>2. ASSUME NEW c \in Call, Arrive(c) \/ AskAgain(c) \/ TakeSlot(c) \/ Retry(c)
      PROVE  CircuitInv'
  <2>1. PICK p \in {"asking", "running"} : call' = [call EXCEPT ![c].pc = p]
    BY <1>2 DEF Arrive, AskAgain, TakeSlot, Retry, Goto
  <2>2. [call[c] EXCEPT !.pc = p] \in CallRec
    BY <1>1 DEF CallRec
  <2>3. call' = [call EXCEPT ![c] = [call[c] EXCEPT !.pc = p]]
    BY <2>1
  <2>4. circuit' = circuit /\ up' = up /\ outages' = outages /\ cancels' = cancels
    BY <1>2 DEF Arrive, AskAgain, TakeSlot, Retry
  <2> QED BY <1>1, <2>2, <2>3, <2>4, MovePreserves
<1>3. ASSUME NEW c \in Call, Ask(c) PROVE CircuitInv'
  <2> DEFINE r == [call[c] EXCEPT
                     !.pc = IF Allowed(circuit) THEN "queued" ELSE "waiting",
                     !.probe = IsProbe(circuit)]
  <2>1. r \in CallRec
    BY <1>1 DEF CallRec, IsProbe
  <2>2. call' = [call EXCEPT ![c] = r]
    BY <1>3 DEF Ask
  <2>3. circuit' \in Circuit
    BY <1>1, <1>3, AskedType DEF Ask
  <2>4. circuit'.state = "closed" => circuit'.failures < Threshold
    BY <1>1, <1>3 DEF Ask, Asked, Circuit
  <2> HIDE DEF r
  <2> QED BY <1>1, <1>3, <2>1, <2>2, <2>3, <2>4, MovePreserves DEF Ask
<1>4. ASSUME NEW c \in Call, Answer(c) PROVE CircuitInv'
  <2>1. [call[c] EXCEPT !.pc = "ended", !.probe = FALSE] \in CallRec
    BY <1>1 DEF CallRec
  <2>2. circuit' = Closed
    BY <1>4 DEF Answer, Succeeded
  <2>3. call' = [call EXCEPT ![c] = [call[c] EXCEPT !.pc = "ended", !.probe = FALSE]]
    BY <1>4 DEF Answer
  <2> QED BY <1>1, <1>4, <2>1, <2>2, <2>3, ClosedType, MovePreserves DEF Answer
<1>5. ASSUME NEW c \in Call,
             AnswerEmpty(c) \/ FailTransiently(c) \/ FailOtherwise(c)
      PROVE  CircuitInv'
  <2>1. PICK k \in Circuit, transient \in BOOLEAN, recoverable \in BOOLEAN :
          /\ k.state = "closed" => k.failures < Threshold
          /\ circuit' = Failed(k, transient)
          /\ call' = [call EXCEPT ![c] = Retried(c, recoverable)]
          /\ up' = up /\ outages' = outages /\ cancels' = cancels
    BY <1>1, <1>5, ClosedType
       DEF AnswerEmpty, FailTransiently, FailOtherwise, Succeeded
  <2>2. Retried(c, recoverable) \in CallRec
    BY RetriedType DEF CircuitInv
  <2>3. /\ circuit' \in Circuit
        /\ circuit'.state = "closed" => circuit'.failures < Threshold
    BY <2>1, FailedCases
  <2> QED BY <1>1, <2>1, <2>2, <2>3, MovePreserves
<1>6. ASSUME NEW c \in Call, Cancel(c) PROVE CircuitInv'
  <2>1. [call[c] EXCEPT !.pc = "ended", !.probe = FALSE] \in CallRec
    BY <1>1 DEF CallRec
  <2>2. cancels' \in 0..MaxCancels
    BY <1>1, <1>6, CallAssumption DEF Cancel
  <2>3. call' = [call EXCEPT ![c] = [call[c] EXCEPT !.pc = "ended", !.probe = FALSE]]
    BY <1>6 DEF Cancel
  <2> QED BY <1>1, <1>6, <2>1, <2>2, <2>3, MovePreserves DEF Cancel
<1>7. CASE GoDown \/ ComeUp
  <2>1. \/ outages' = outages
        \/ outages < MaxOutages /\ outages' = outages + 1
    BY <1>7, Zenon DEF GoDown, ComeUp
  <2>2. up' \in BOOLEAN
    BY <1>7, Zenon DEF GoDown, ComeUp
  <2>3. outages' \in 0..MaxOutages
    BY <1>1, <2>1, CallAssumption
  <2> QED BY <1>1, <1>7, <2>2, <2>3 DEF GoDown, ComeUp, CircuitInv, TypeOK, ClosedIsHealthy
<1>8. CASE Tick
  <2>1. circuit' \in Circuit
    <3> DEFINE w == Cooldown * MaxFactor
    <3>1. w \in Nat
      BY CircuitAssumption
    <3>2. circuit.left - 1 \in 0..w
      BY <1>1, <1>8, <3>1 DEF Tick, Circuit
    <3> HIDE DEF w
    <3> QED BY <1>1, <1>8, <3>2 DEF Tick, Circuit, w
  <2>2. circuit'.state = circuit.state /\ circuit'.failures = circuit.failures
    BY <1>1, <1>8 DEF Tick, Circuit
  <2> QED BY <1>1, <1>8, <2>1, <2>2 DEF Tick, CircuitInv, TypeOK, ClosedIsHealthy
<1>9. CASE UNCHANGED vars
  BY <1>9 DEF vars, CircuitInv, TypeOK, ClosedIsHealthy
<1> QED
  BY <1>2, <1>3, <1>4, <1>5, <1>6, <1>7, <1>8, <1>9 DEF Next, Finish

LEMMA CircuitInvHolds == Spec => []CircuitInv
<1> QED BY CircuitStarts, CircuitStep, PTL DEF Spec

\* The breaker and the calls keep their records well typed.
THEOREM CircuitTypeCorrect == Spec => []TypeOK
<1>1. CircuitInv => TypeOK
  BY DEF CircuitInv
<1> QED BY <1>1, CircuitInvHolds, PTL

\* A closed circuit has seen fewer failures in a row than it takes to open it.
THEOREM ClosedCircuitIsHealthy == Spec => []ClosedIsHealthy
<1>1. CircuitInv => ClosedIsHealthy
  BY DEF CircuitInv
<1> QED BY <1>1, CircuitInvHolds, PTL

-----------------------------------------------------------------------------
(* The probe.                                                              *)

\* Steps that leave the circuit half open leave its probe alone.
LEMMA ProbeStep ==
  ASSUME ~ProbeCancels, TypeOK, ProbeIsUnderWay, [Next]_vars
  PROVE  ProbeIsUnderWay'
<1> SUFFICES ASSUME circuit'.state = "half_open", circuit'.probing
             PROVE  \E d \in Call : InFlight(d)' /\ call'[d].probe
  BY DEF ProbeIsUnderWay
<1>1. circuit \in Circuit /\ call \in [Call -> CallRec]
  BY DEF TypeOK
\* What remains to be shown when the circuit had a probe before the step.
<1>2. ASSUME circuit.state = "half_open", circuit.probing,
             NEW c \in Call,
             \A d \in Call \ {c} : call'[d] = call[d],
             InFlight(c) /\ call[c].probe => InFlight(c)' /\ call'[c].probe
      PROVE  \E d \in Call : InFlight(d)' /\ call'[d].probe
  <2>1. PICK d \in Call : InFlight(d) /\ call[d].probe
    BY <1>2 DEF ProbeIsUnderWay
  <2>2. CASE d = c
    BY <1>2, <2>1, <2>2
  <2>3. CASE d # c
    BY <1>2, <2>1, <2>3 DEF InFlight
  <2> QED BY <2>2, <2>3
<1>3. ASSUME NEW c \in Call, Arrive(c) \/ AskAgain(c) \/ TakeSlot(c) \/ Retry(c)
      PROVE  \E d \in Call : InFlight(d)' /\ call'[d].probe
  <2>1. circuit' = circuit /\ \A d \in Call \ {c} : call'[d] = call[d]
    BY <1>1, <1>3 DEF Arrive, AskAgain, TakeSlot, Retry, Goto
  <2>2. InFlight(c) /\ call[c].probe => InFlight(c)' /\ call'[c].probe
    BY <1>1, <1>3
       DEF Arrive, AskAgain, TakeSlot, Retry, Goto, At, InFlight, CallRec
  <2> QED BY <1>2, <2>1, <2>2
<1>4. ASSUME NEW c \in Call, Ask(c)
      PROVE  \E d \in Call : InFlight(d)' /\ call'[d].probe
  <2>1. CASE IsProbe(circuit)
    <3>1. call'[c].pc = "queued" /\ call'[c].probe
      BY <1>1, <1>4, <2>1 DEF Ask, Allowed, CallRec
    <3> QED BY <3>1 DEF InFlight
  <2>2. CASE ~IsProbe(circuit)
    <3>1. circuit.state = "half_open" /\ circuit.probing
      BY <1>1, <1>4, <2>2 DEF Ask, Asked, IsProbe, Circuit
    <3>2. ~InFlight(c) /\ \A d \in Call \ {c} : call'[d] = call[d]
      BY <1>1, <1>4 DEF Ask, At, InFlight
    <3> QED BY <1>2, <3>1, <3>2
  <2> QED BY <2>1, <2>2
<1>5. ASSUME NEW c \in Call, Finish(c)
      PROVE  \E d \in Call : InFlight(d)' /\ call'[d].probe
  <2>1. CASE Answer(c)
    BY <2>1 DEF Answer, Succeeded, Closed
  <2>2. CASE AnswerEmpty(c) \/ FailTransiently(c) \/ FailOtherwise(c)
    <3>1. PICK k \in Circuit, transient \in BOOLEAN : circuit' = Failed(k, transient)
      BY <1>1, <2>2, ClosedType
         DEF AnswerEmpty, FailTransiently, FailOtherwise, Succeeded
    <3>2. ~circuit'.probing
      BY <3>1, FailedCases
    <3> QED BY <3>2
  <2> QED BY <1>5, <2>1, <2>2 DEF Finish
<1>6. ASSUME NEW c \in Call, Cancel(c)
      PROVE  \E d \in Call : InFlight(d)' /\ call'[d].probe
  <2>1. circuit' = circuit /\ ~call[c].probe
        /\ \A d \in Call \ {c} : call'[d] = call[d]
    BY <1>1, <1>6 DEF Cancel
  <2> QED BY <1>2, <2>1
<1>7. CASE GoDown \/ ComeUp \/ Tick \/ UNCHANGED vars
  <2>1. call' = call /\ circuit'.state = circuit.state
        /\ circuit'.probing = circuit.probing
    BY <1>1, <1>7 DEF GoDown, ComeUp, Tick, vars, Circuit
  <2> QED BY <2>1 DEF ProbeIsUnderWay, InFlight
<1> QED BY <1>3, <1>4, <1>5, <1>6, <1>7 DEF Next

\* If the call that probes is never the one that is cancelled, the right to
\* probe is not lost: a half-open circuit whose probe is out has a call that
\* will report to it.
THEOREM ProbeReports ==
  ASSUME ~ProbeCancels
  PROVE  Spec => []ProbeIsUnderWay
<1>1. Init => ProbeIsUnderWay
  BY DEF Init, Closed, ProbeIsUnderWay
<1>2. TypeOK /\ ProbeIsUnderWay /\ [Next]_vars => ProbeIsUnderWay'
  BY ProbeStep
<1> QED BY <1>1, <1>2, CircuitTypeCorrect, PTL DEF Spec

-----------------------------------------------------------------------------
(* The agent calls of a run.                                               *)

\* Only steps that build are ever sent a compact prompt, as by default.
BuildersCompact == Compacts \cap ReadOnly = {}

\* What the snapshots before a call are of, and what is to be put back yet.
TraceInv ==
  /\ before.written = {} /\ before.script = "user"
  /\ pc # "answered" => written = {} /\ script = "user"
  /\ step \notin ReadOnly => written = {}

\* Who was told: a building step that failed before has been told its task in
\* the project's conversation, and so has the one at work, or is being told.
ToldInv ==
  /\ provider = Shared
  /\ feedback \subseteq told \cup ReadOnly
  /\ pc # "idle" => \/ step \in told \cup ReadOnly
                    \/ pc = "calling" /\ request = [session |-> Shared, prompt |-> "full"]
  /\ CompactHasContext

StepInv == StepTypeOK /\ (~strayed => TraceInv) /\ (~moved => ToldInv)

\* The first states have no snapshot to put back and nobody was told anything.
LEMMA StepStarts ==
  ASSUME StepAssumptions, StepInit PROVE StepInv
<1>1. step \in Step
  BY DEF StepAssumptions, StepInit
<1>2. StepTypeOK
  <2>1. roles \in [Role -> {Shared, Own}]
    BY DEF StepInit
  <2>2. before \in [written : SUBSET ReadOnly, script : {"user", "agent"}]
    BY DEF StepInit
  <2>3. request \in [session : {Shared, Own}, prompt : {"full", "compact", "handoff", "correction"}]
    BY DEF StepInit
  <2>4. {strayed, moved} \subseteq BOOLEAN
    BY DEF StepInit
  <2>5. retries \in 0 .. MaxRecoveries /\ calls \in 0 .. MaxCalls
    BY DEF StepInit, StepAssumptions
  <2> QED BY <1>1, <2>1, <2>2, <2>3, <2>4, <2>5 DEF StepInit, StepTypeOK
<1>3. TraceInv /\ ToldInv
  BY DEF StepInit, TraceInv, ToldInv, CompactHasContext
<1> QED BY <1>2, <1>3 DEF StepInv

\* Every step keeps the types.
LEMMA StepTypeStep ==
  ASSUME StepAssumptions, StepTypeOK, StepNext PROVE StepTypeOK'
<1> USE DEF StepAssumptions, Working, Shared, Own, Role
<1>1. ASSUME NEW s \in Step, NEW fresh \in BOOLEAN, Begin(s, fresh) PROVE StepTypeOK'
  BY <1>1 DEF StepTypeOK, Begin, Resolve, PromptFor, projectVars, history
<1>2. ASSUME NEW code, CallFails(code) PROVE StepTypeOK'
  <2>1. /\ written' \subseteq ReadOnly /\ script' \in {"user", "agent"}
        /\ {strayed', moved'} \subseteq BOOLEAN /\ told' \subseteq Step
    BY <1>2 DEF StepTypeOK, CallFails, Edits, Tell
  <2>2. /\ pc' \in Working \cup {"idle"} /\ feedback' \subseteq Step /\ retries' \in 0 .. MaxRecoveries
        /\ request' \in [session : {Shared, Own}, prompt : {"full", "compact", "handoff", "correction"}]
    BY <1>2 DEF StepTypeOK, CallFails, MayRetry, Again
  <2> QED BY <1>2, <2>1, <2>2 DEF StepTypeOK, CallFails
<1>3. ASSUME NEW kind \in {"accepted", "toolcall", "empty", "question"}, NEW dropped \in BOOLEAN,
             CallAnswers(kind, dropped)
      PROVE  StepTypeOK'
  BY <1>3 DEF StepTypeOK, CallAnswers, Edits, Tell
<1>4. CASE Record
  BY <1>4 DEF StepTypeOK, Record, Recorded, PutBack, history
<1>5. CASE Judge
  BY <1>5 DEF StepTypeOK, Judge, Fail, projectVars, history
<1> QED BY <1>1, <1>2, <1>3, <1>4, <1>5 DEF StepNext

\* As long as nobody strays, what a reader writes is put back before it is judged.
LEMMA TraceStep ==
  ASSUME StepAssumptions, StepTypeOK, ~strayed => TraceInv, ~strayed', StepNext PROVE TraceInv'
<1> USE DEF StepAssumptions, Working
<1>0. strayed \in BOOLEAN /\ step \in Step
  BY DEF StepTypeOK
<1>1. ASSUME NEW s \in Step, NEW fresh \in BOOLEAN, Begin(s, fresh) PROVE TraceInv'
  BY <1>1 DEF TraceInv, Begin, projectVars, history
<1>2. ASSUME NEW code, CallFails(code) PROVE TraceInv'
  BY <1>0, <1>2 DEF TraceInv, CallFails, Edits
<1>3. ASSUME NEW kind, NEW dropped, CallAnswers(kind, dropped) PROVE TraceInv'
  BY <1>0, <1>3 DEF TraceInv, CallAnswers, Edits
<1>4. CASE Record
  BY <1>4 DEF TraceInv, Record, PutBack, history
<1>5. CASE Judge
  BY <1>5 DEF TraceInv, Judge, Fail, projectVars, history
<1> QED BY <1>1, <1>2, <1>3, <1>4, <1>5 DEF StepNext

\* As long as no session is left behind, whoever failed has been told its task.
LEMMA ToldStep ==
  ASSUME StepAssumptions, BuildersCompact, StepTypeOK, ~moved => ToldInv, ~moved', StepNext PROVE ToldInv'
<1> USE DEF StepAssumptions, Working, Shared, Own, Role, CompactHasContext
<1>0. /\ moved \in BOOLEAN /\ step \in Step /\ roles \in [Role -> {Shared, Own}]
      /\ request \in [session : {Shared, Own}, prompt : {"full", "compact", "handoff", "correction"}]
  BY DEF StepTypeOK
<1>1. ASSUME NEW s \in Step, NEW fresh \in BOOLEAN, Begin(s, fresh) PROVE ToldInv'
  <2>1. ToldInv /\ Resolve(s, fresh) = IF fresh THEN Own ELSE Shared
    BY <1>0, <1>1 DEF ToldInv, Begin, history, Resolve
  <2>2. fresh => s \in told \cup ReadOnly
    BY <1>1, <2>1 DEF Begin, ToldInv
  <2>3. s \in feedback /\ s \in Compacts => s \in told
    BY <2>1 DEF ToldInv, BuildersCompact
  <2> QED BY <1>1, <2>1, <2>2, <2>3 DEF ToldInv, Begin, PromptFor, projectVars, history
<1>2. ASSUME NEW code, CallFails(code) PROVE ToldInv'
  <2>1. ToldInv /\ code \notin LeavesSession
    BY <1>0, <1>2 DEF CallFails
  <2>2. told \subseteq told' /\ step \in told' \cup ReadOnly
    BY <1>0, <1>2, <2>1 DEF CallFails, Tell, ToldInv, LeavesSession
  <2>3. CompactHasContext'
    BY <1>0, <1>2, <2>1, <2>2 DEF CallFails, Again, ToldInv, LeavesSession
  <2> QED BY <1>2, <2>1, <2>2, <2>3 DEF ToldInv, CallFails
<1>3. ASSUME NEW kind, NEW dropped, CallAnswers(kind, dropped) PROVE ToldInv'
  <2>1. ToldInv /\ ~dropped
    BY <1>0, <1>3 DEF CallAnswers
  <2>2. told \subseteq told' /\ step \in told' \cup ReadOnly
    BY <1>0, <1>3, <2>1 DEF CallAnswers, Tell, ToldInv
  <2> QED BY <1>3, <2>1, <2>2 DEF ToldInv, CallAnswers
<1>4. CASE Record
  BY <1>0, <1>4 DEF ToldInv, Record, history
<1>5. CASE Judge
  BY <1>0, <1>5 DEF ToldInv, Judge, Fail, projectVars, history
<1> QED BY <1>1, <1>2, <1>3, <1>4, <1>5 DEF StepNext

\* The variables of AgentStep keep their types, whatever the calls answer, fail
\* with and edit.
THEOREM StepTypeCorrect ==
  ASSUME StepAssumptions PROVE StepSpec => []StepTypeOK
<1>1. StepInit => StepTypeOK
  BY StepStarts DEF StepInv
<1>2. StepTypeOK /\ [StepNext]_stepVars => StepTypeOK'
  BY StepTypeStep DEF stepVars, StepTypeOK
<1> QED BY <1>1, <1>2, PTL DEF StepSpec

\* Whatever fails, is recovered from and is corrected, a step that may only read
\* leaves the project as it found it, unless an agent strays where nobody puts
\* things back; and a compact prompt goes to a conversation that knows the task,
\* unless a session was left behind.
THEOREM StepsLeaveNoTrace ==
  ASSUME StepAssumptions, BuildersCompact PROVE StepSpec => []StepsAreSound
<1>1. StepInit => StepInv
  BY StepStarts
<1>2. StepInv /\ [StepNext]_stepVars => StepInv'
  <2>1. CASE StepNext
    BY <2>1, StepTypeStep, TraceStep, ToldStep DEF StepInv
  <2>2. CASE UNCHANGED stepVars
    BY <2>2 DEF stepVars, StepInv, StepTypeOK, TraceInv, ToldInv, CompactHasContext
  <2> QED BY <2>1, <2>2
<1>3. StepInv => StepsAreSound
  BY DEF StepInv, TraceInv, ToldInv, StepsAreSound, ReadersLeaveNoTrace
<1> QED BY <1>1, <1>2, <1>3, PTL DEF StepSpec

-----------------------------------------------------------------------------
(* Turns of conversations on a daemon.                                     *)

Streaming == {"posting", "reading"}

\* Who works for a turn has its daemon.
PlaceInv == \A t \in Turn : Active(t) \/ thread[t] # "none" => on[t] \in Daemon

\* Who holds what, when no conversation was forgotten under a turn: a turn at
\* work has the current lock of its conversation, which one turn at a time
\* holds; the daemon object knows the session of an open stream; no session
\* belongs to two conversations.
LocksInv ==
  /\ \A t \in Turn : Active(t) => lockOf[t] = epoch[KeyOf[t]]
  /\ \A t, u \in Turn : t # u /\ stage[t] \in Holding /\ stage[u] \in Holding => KeyOf[t] # KeyOf[u]
  /\ \A t \in Turn : stage[t] \in Streaming =>
       sess[t] # 0 /\ map[on[t]][KeyOf[t]] = sess[t]
  /\ \A d \in Daemon, k \in Key : map[d][k] <= Len(sessions)
  /\ \A d, e \in Daemon, k, l \in Key :
       map[d][k] = map[e][l] /\ map[d][k] # 0 => d = e /\ k = l

\* What waits in a session, when nobody was in a hurry: the prompt of the one
\* turn that reads there.
WaitingInv ==
  /\ \A s \in Session : s <= Len(sessions) => state[sessions[s]] \in {"up", "dead"}
  /\ \A t \in Turn : thread[t] = "none"
  /\ \A t \in Turn : got[t] \subseteq {t}
  /\ \A t \in Turn : stage[t] \in {"none", "locking", "opening", "posting"} => ~complete[t]
  /\ \A t \in Turn : stage[t] = "done" => got[t] = {t}
  /\ \A s \in Session : s > Len(sessions) => queue[s] = <<>>
  /\ \A s \in Session : s <= Len(sessions) /\ Alive(s) /\ queue[s] # <<>> =>
       \E t \in Turn : queue[s] = <<t>> /\ stage[t] = "reading" /\ sess[t] = s /\ ~complete[t]

\* The one daemon, when each was healthy at once and as long as it ran.
OneDaemonInv ==
  /\ \A d \in Daemon : state[d] # "slow"
  /\ \A d \in Daemon : state[d] = "up" => reg = [daemon |-> d, external |-> FALSE] /\ atPort = d
  /\ atPort # None => state[atPort] = "up"
  /\ NoDaemonLeft

ServeInv ==
  /\ ServeTypeOK /\ PlaceInv
  /\ ~disturbed => LocksInv
  /\ ~disturbed /\ ~hurried => WaitingInv
  /\ ~wavered => OneDaemonInv

\* At first there is no daemon, no session and no turn.
LEMMA ServeStarts ==
  ASSUME ServeAssumptions, ServeInit PROVE ServeInv
<1> USE DEF ServeAssumptions
<1>1. ServeTypeOK
  <2>1. <<>> \in Seq(Daemon) /\ <<>> \in Seq(Turn) /\ Len(<<>>) = 0
    OBVIOUS
  <2>2. queue \in [Session -> Seq(Turn)] /\ \A s \in Session : Len(queue[s]) <= QueueMax
    BY <2>1 DEF ServeInit
  <2>3. reg \in [daemon : Daemon \cup {None}, external : BOOLEAN]
    BY DEF ServeInit, Unregistered
  <2>4. /\ map \in [Daemon -> [Key -> 0 .. MaxSession]] /\ epoch \in [Key -> Nat]
    BY DEF ServeInit
  <2>5. sessions \in Seq(Daemon) /\ Len(sessions) <= MaxSession
    BY <2>1 DEF ServeInit
  <2>6. /\ stage \in [Turn -> Holding \cup {"none", "locking", "done", "failed", "cancelled"}]
        /\ on \in [Turn -> Daemon \cup {None}] /\ sess \in [Turn -> 0 .. MaxSession]
        /\ thread \in [Turn -> {"none", "opening", "posting"}]
        /\ got \in [Turn -> SUBSET Turn] /\ complete \in [Turn -> BOOLEAN]
        /\ lockOf \in [Turn -> Nat]
    BY DEF ServeInit
  <2> QED BY <2>2, <2>3, <2>4, <2>5, <2>6 DEF ServeInit, ServeTypeOK
<1>2. PlaceInv /\ LocksInv
  BY DEF ServeInit, PlaceInv, LocksInv, Active, Holding, Streaming
<1>3. WaitingInv
  BY DEF ServeInit, WaitingInv, Session
<1>4. OneDaemonInv
  BY DEF ServeInit, OneDaemonInv, NoDaemonLeft
<1> QED BY <1>1, <1>2, <1>3, <1>4 DEF ServeInv

\* What the daemons can look like after a call asked for one.
LEMMA EnsureType ==
  ASSUME ServeAssumptions, ServeTypeOK, Ensure
  PROVE  /\ reg' \in [daemon : Daemon \cup {None}, external : BOOLEAN]
         /\ state' \in [Daemon -> {"none", "slow", "up", "dead"}]
         /\ atPort' \in Daemon \cup {None} /\ wavered' \in BOOLEAN
         /\ \A d \in Daemon : state'[d] = state[d] \/ state[d] = "none"
<1> USE DEF ServeTypeOK
<1>1. CASE UNCHANGED daemonVars
  BY <1>1 DEF daemonVars
<1>2. CASE reg' = [daemon |-> atPort, external |-> TRUE] /\ UNCHANGED <<state, atPort>>
           /\ wavered' = (wavered \/ Healthy(reg.daemon))
  BY <1>2 DEF Healthy
<1>3. ASSUME NEW d \in Daemon, NEW s \in {"up", "slow", "dead"}, state[d] = "none", Started(d, s),
             wavered' = (wavered \/ Healthy(reg.daemon) \/ s = "slow")
      PROVE  /\ reg' \in [daemon : Daemon \cup {None}, external : BOOLEAN]
             /\ state' \in [Daemon -> {"none", "slow", "up", "dead"}]
             /\ atPort' \in Daemon \cup {None} /\ wavered' \in BOOLEAN
             /\ \A e \in Daemon : state'[e] = state[e] \/ state[e] = "none"
  BY <1>3 DEF Started, Healthy
<1> QED BY <1>1, <1>2, <1>3 DEF Ensure

\* Every step keeps the types.
LEMMA ServeTypeStep ==
  ASSUME ServeAssumptions, ServeTypeOK, PlaceInv, ServeNext PROVE ServeTypeOK'
<1> USE DEF ServeAssumptions
<1>0. /\ {shut, disturbed, hurried, wavered} \subseteq BOOLEAN
      /\ \A t \in Turn : KeyOf[t] \in Key
      /\ queue \in [Session -> Seq(Turn)] /\ sessions \in Seq(Daemon)
  BY DEF ServeTypeOK, Key
<1>1. ASSUME NEW t \in Turn, AskDaemon(t) PROVE ServeTypeOK'
  <2>1. /\ reg' \in [daemon : Daemon \cup {None}, external : BOOLEAN]
        /\ state' \in [Daemon -> {"none", "slow", "up", "dead"}]
        /\ atPort' \in Daemon \cup {None} /\ wavered' \in BOOLEAN
    BY <1>1, EnsureType DEF AskDaemon
  <2>2. /\ stage' \in [Turn -> Holding \cup {"none", "locking", "done", "failed", "cancelled"}]
        /\ on' \in [Turn -> Daemon \cup {None}] /\ lockOf' \in [Turn -> Nat]
    <3>1. CASE reg'.daemon # None /\ state'[reg'.daemon] = "up"
      <4>1. reg'.daemon \in Daemon /\ epoch[KeyOf[t]] \in Nat
        BY <1>0, <2>1, <3>1 DEF ServeTypeOK
      <4> QED BY <1>1, <3>1, <4>1 DEF AskDaemon, GoTo, ServeTypeOK
    <3>2. CASE ~(reg'.daemon # None /\ state'[reg'.daemon] = "up")
      BY <1>1, <3>2 DEF AskDaemon, GoTo, ServeTypeOK
    <3> QED BY <3>1, <3>2
  <2>3. UNCHANGED <<map, sessions, queue, epoch, disturbed, sess, thread, got, complete, shut, hurried>>
    BY <1>1 DEF AskDaemon
  <2> QED BY <2>1, <2>2, <2>3, <1>0 DEF ServeTypeOK
<1>2. ASSUME NEW t \in Turn, Lock(t) PROVE ServeTypeOK'
  BY <1>2 DEF Lock, GoTo, ServeTypeOK, daemonVars, Holding
<1>3. ASSUME NEW t \in Turn, SessionFor(t) PROVE ServeTypeOK'
  <2> DEFINE d == on[t]
             known == map[d][KeyOf[t]]
             s == IF known # 0 THEN known ELSE Len(sessions) + 1
  <2>1. on[t] \in Daemon /\ KeyOf[t] \in Key
    BY <1>0, <1>3 DEF SessionFor, Opens, PlaceInv, Active, Holding
  <2>2. known \in 0 .. MaxSession /\ Len(sessions) \in Nat
    BY <1>0, <2>1 DEF ServeTypeOK
  <2>3. CASE /\ known # 0 \/ (state[d] = "up" /\ s \in Session)
             /\ map' = [map EXCEPT ![d][KeyOf[t]] = s]
             /\ sessions' = IF known # 0 THEN sessions ELSE Append(sessions, d)
             /\ IF stage[t] = "opening"
                THEN GoTo(t, "posting") /\ sess' = [sess EXCEPT ![t] = s]
                ELSE UNCHANGED <<stage, sess>>
    <3>1. s \in Session
      BY <2>2, <2>3 DEF Session
    <3>0. /\ map' = [map EXCEPT ![d][KeyOf[t]] = s]
          /\ sessions' = IF known # 0 THEN sessions ELSE Append(sessions, d)
          /\ IF stage[t] = "opening"
             THEN GoTo(t, "posting") /\ sess' = [sess EXCEPT ![t] = s]
             ELSE UNCHANGED <<stage, sess>>
      BY <2>3
    <3>a. d \in Daemon
      BY <2>1
    <3>b. known = 0 => s = Len(sessions) + 1
      OBVIOUS
    <3> HIDE DEF s, d, known
    <3>2. map' \in [Daemon -> [Key -> 0 .. MaxSession]]
      BY <2>1, <3>0, <3>a, <3>1 DEF ServeTypeOK, Session
    <3>3. sessions' \in Seq(Daemon) /\ Len(sessions') <= MaxSession
      <4>1. CASE known # 0
        BY <3>0, <4>1 DEF ServeTypeOK
      <4>2. CASE known = 0
        <5>1. Len(sessions) + 1 \in Session
          BY <3>1, <3>b, <4>2
        <5>2. sessions' = Append(sessions, d)
          BY <3>0, <4>2
        <5> QED BY <1>0, <3>a, <5>1, <5>2 DEF Session
      <4> QED BY <4>1, <4>2
    <3>4. /\ stage' \in [Turn -> Holding \cup {"none", "locking", "done", "failed", "cancelled"}]
          /\ sess' \in [Turn -> 0 .. MaxSession]
      <4>0. /\ stage \in [Turn -> Holding \cup {"none", "locking", "done", "failed", "cancelled"}]
            /\ sess \in [Turn -> 0 .. MaxSession] /\ s \in 0 .. MaxSession
        BY <3>1 DEF ServeTypeOK, Session
      <4>1. CASE stage[t] = "opening"
        BY <3>0, <4>0, <4>1 DEF GoTo, Holding
      <4>2. CASE stage[t] # "opening"
        BY <3>0, <4>0, <4>2
      <4> QED BY <4>1, <4>2
    <3>5. /\ thread' = [thread EXCEPT ![t] = "none"]
          /\ UNCHANGED <<on, lockOf, got, complete, queue, epoch, disturbed, shut, hurried>>
          /\ UNCHANGED daemonVars
      BY <1>3 DEF SessionFor
    <3> QED BY <1>0, <3>2, <3>3, <3>4, <3>5 DEF ServeTypeOK, daemonVars
  <2>4. CASE /\ IF stage[t] = "opening" THEN GoTo(t, "failed") ELSE UNCHANGED stage
             /\ UNCHANGED <<map, sessions, sess>>
    <3>1. /\ stage' \in [Turn -> Holding \cup {"none", "locking", "done", "failed", "cancelled"}]
          /\ UNCHANGED <<map, sessions, sess>>
      BY <2>4 DEF ServeTypeOK, GoTo
    <3>2. /\ thread' = [thread EXCEPT ![t] = "none"]
          /\ UNCHANGED <<on, lockOf, got, complete, queue, epoch, disturbed, shut, hurried>>
          /\ UNCHANGED daemonVars
      BY <1>3 DEF SessionFor
    <3> QED BY <1>0, <3>1, <3>2 DEF ServeTypeOK, daemonVars
  <2> QED BY <1>3, <2>3, <2>4 DEF SessionFor
<1>4. ASSUME NEW t \in Turn, Post(t) PROVE ServeTypeOK'
  <2>1. queue' \in [Session -> Seq(Turn)] /\ \A s \in Session : Len(queue'[s]) <= QueueMax
    <3> SUFFICES ASSUME NEW s \in Session PROVE queue'[s] \in Seq(Turn) /\ Len(queue'[s]) <= QueueMax
      BY <1>0, <1>4 DEF Post
    <3>1. queue'[s] = IF s = sess[t] THEN Append(queue[s], t) ELSE queue[s]
      BY <1>0, <1>4 DEF Post
    <3>2. queue[s] \in Seq(Turn) /\ Len(queue[s]) <= QueueMax /\ Len(queue[s]) \in Nat
      BY <1>0 DEF ServeTypeOK
    <3>3. s = sess[t] => Len(queue[s]) < QueueMax
      BY <1>4 DEF Post, HasRoom
    <3> QED BY <3>1, <3>2, <3>3
  <2> QED BY <1>4, <2>1 DEF Post, GoTo, ServeTypeOK, daemonVars, Holding
<1>5. ASSUME NEW t \in Turn, PostFails(t) PROVE ServeTypeOK'
  BY <1>5 DEF PostFails, Alive, GoTo, ServeTypeOK, daemonVars
<1>6. ASSUME NEW t \in Turn, End(t) PROVE ServeTypeOK'
  BY <1>6 DEF End, GoTo, ServeTypeOK, daemonVars
<1>7. ASSUME NEW t \in Turn, CancelTurn(t) PROVE ServeTypeOK'
  BY <1>7 DEF CancelTurn, GoTo, ServeTypeOK, daemonVars
<1>8. ASSUME NEW s \in Session, Emit(s) PROVE ServeTypeOK'
  <2>1. queue[s] \in Seq(Turn) /\ queue[s] # <<>>
    BY <1>0, <1>8 DEF Emit
  <2>2. Head(queue[s]) \in Turn
    BY <2>1
  <2>3. got' \in [Turn -> SUBSET Turn]
    BY <1>8, <2>2 DEF Emit, ServeTypeOK
  <2> QED BY <1>8, <2>3 DEF Emit, ServeTypeOK, daemonVars
<1>9. ASSUME NEW s \in Session, Answered(s) PROVE ServeTypeOK'
  <2>1. queue[s] \in Seq(Turn) /\ queue[s] # <<>> /\ Len(queue[s]) <= QueueMax
    BY <1>0, <1>9 DEF Answered, ServeTypeOK
  <2>2. Head(queue[s]) \in Turn /\ Tail(queue[s]) \in Seq(Turn) /\ Len(Tail(queue[s])) <= QueueMax
    BY <2>1
  <2>3. got' \in [Turn -> SUBSET Turn] /\ complete' \in [Turn -> BOOLEAN]
    BY <1>9, <2>2 DEF Answered, ServeTypeOK
  <2>4. queue' \in [Session -> Seq(Turn)] /\ \A r \in Session : Len(queue'[r]) <= QueueMax
    BY <1>0, <1>9, <2>2 DEF Answered, ServeTypeOK
  <2> QED BY <1>9, <2>3, <2>4 DEF Answered, ServeTypeOK, daemonVars
<1>10. ASSUME NEW k \in Key, Forget(k) PROVE ServeTypeOK'
  <2>1. reg.daemon \in Daemon
    BY <1>10 DEF Forget, ServeTypeOK
  <2>2. map' \in [Daemon -> [Key -> 0 .. MaxSession]] /\ epoch' \in [Key -> Nat]
    BY <1>10, <2>1 DEF Forget, ServeTypeOK
  <2> QED BY <1>10, <2>2 DEF Forget, ServeTypeOK, daemonVars, turnVars
<1>11. ASSUME NEW d \in Daemon, Dies(d) \/ ComesUp(d) PROVE ServeTypeOK'
  BY <1>11 DEF Dies, ComesUp, ServeTypeOK, turnVars
<1>12. CASE Shutdown
  BY <1>12 DEF Shutdown, Unregistered, ServeTypeOK, turnVars
<1> QED BY <1>1, <1>2, <1>3, <1>4, <1>5, <1>6, <1>7, <1>8, <1>9, <1>10, <1>11, <1>12 DEF ServeNext, TurnMoves

\* Once a turn was disturbed, the history says so.
LEMMA DisturbedStays ==
  ASSUME ServeNext, ~disturbed' PROVE ~disturbed
BY DEF ServeNext, TurnMoves, AskDaemon, Lock, SessionFor, Post, PostFails, End, CancelTurn,
       Emit, Answered, Forget, Dies, ComesUp, Shutdown

\* A turn has its daemon from its first step on, and so has its thread.
LEMMA PlaceStep ==
  ASSUME ServeAssumptions, ServeTypeOK, PlaceInv, ServeNext PROVE PlaceInv'
<1>0. /\ stage \in [Turn -> Holding \cup {"none", "locking", "done", "failed", "cancelled"}]
      /\ thread \in [Turn -> {"none", "opening", "posting"}]
      /\ on \in [Turn -> Daemon \cup {None}]
  BY DEF ServeTypeOK
<1> USE DEF PlaceInv, Active, Holding, GoTo
<1>1. ASSUME NEW t \in Turn, AskDaemon(t) PROVE PlaceInv'
  <2>1. CASE reg'.daemon # None /\ state'[reg'.daemon] = "up"
    <3>1. reg'.daemon \in Daemon
      BY <1>1, <2>1, EnsureType DEF AskDaemon
    <3> QED BY <1>0, <1>1, <2>1, <3>1 DEF AskDaemon
  <2>2. CASE ~(reg'.daemon # None /\ state'[reg'.daemon] = "up")
    BY <1>0, <1>1, <2>2 DEF AskDaemon
  <2> QED BY <2>1, <2>2
<1>2. ASSUME NEW t \in Turn, Lock(t) PROVE PlaceInv'
  BY <1>0, <1>2 DEF Lock
<1>3. ASSUME NEW t \in Turn, SessionFor(t) PROVE PlaceInv'
  <2>1. /\ \/ stage' = stage
           \/ stage[t] = "opening" /\ \E l \in {"posting", "failed"} : GoTo(t, l)
        /\ on' = on /\ thread' = [thread EXCEPT ![t] = "none"]
    <3>1. on' = on /\ thread' = [thread EXCEPT ![t] = "none"]
      BY <1>3 DEF SessionFor
    <3>2. CASE stage[t] = "opening"
      BY <1>3, <3>1, <3>2 DEF SessionFor
    <3>3. CASE stage[t] # "opening"
      <4>1. stage' = stage
        BY <1>3, <3>3 DEF SessionFor
      <4> QED BY <3>1, <4>1
    <3> QED BY <3>2, <3>3
  <2> QED BY <1>0, <2>1
<1>4. ASSUME NEW t \in Turn, Post(t) \/ PostFails(t) \/ End(t) PROVE PlaceInv'
  BY <1>0, <1>4 DEF Post, Posts, PostFails, End
<1>5. ASSUME NEW t \in Turn, CancelTurn(t) PROVE PlaceInv'
  BY <1>0, <1>5 DEF CancelTurn
<1>6. ASSUME UNCHANGED <<stage, on, thread>> PROVE PlaceInv'
  BY <1>6
<1>7. CASE Shutdown \/ \E s \in Session : Emit(s) \/ Answered(s)
  BY <1>6, <1>7 DEF Emit, Answered, Shutdown, turnVars
<1>8. CASE \/ \E k \in Key : Forget(k)
           \/ \E d \in Daemon : Dies(d) \/ ComesUp(d)
  BY <1>6, <1>8 DEF Forget, Dies, ComesUp, turnVars
<1> QED BY <1>1, <1>2, <1>3, <1>4, <1>5, <1>7, <1>8 DEF ServeNext, TurnMoves

\* A step keeps LocksInv that only ends turns, or lets one go on to read.
LEMMA LocksKept ==
  ASSUME LocksInv, UNCHANGED <<on, sess, lockOf, map, sessions, epoch>>,
         \A t \in Turn : \/ stage'[t] = stage[t]
                         \/ stage'[t] \notin Holding \cup {"locking"}
                         \/ stage[t] = "posting" /\ stage'[t] = "reading"
  PROVE  LocksInv'
<1> USE DEF LocksInv, Active, Holding, Streaming
<1>1. \A t \in Turn : stage'[t] \in Holding => stage[t] \in Holding
  OBVIOUS
<1>2. \A t \in Turn : stage'[t] \in Streaming => stage[t] \in Streaming
  OBVIOUS
<1>3. \A t \in Turn : stage'[t] = "locking" => stage[t] = "locking"
  OBVIOUS
<1> QED BY <1>1, <1>2, <1>3

\* Locks, sessions and conversations stay apart as long as no conversation is
\* forgotten under a turn.
LEMMA LocksStep ==
  ASSUME ServeAssumptions, ServeTypeOK, PlaceInv, ~disturbed => LocksInv, ~disturbed', ServeNext
  PROVE  LocksInv'
<1>a. LocksInv
  BY DisturbedStays
<1>0. /\ stage \in [Turn -> Holding \cup {"none", "locking", "done", "failed", "cancelled"}]
      /\ thread \in [Turn -> {"none", "opening", "posting"}]
      /\ on \in [Turn -> Daemon \cup {None}] /\ sess \in [Turn -> 0 .. MaxSession]
      /\ lockOf \in [Turn -> Nat] /\ epoch \in [Key -> Nat]
      /\ map \in [Daemon -> [Key -> 0 .. MaxSession]]
      /\ sessions \in Seq(Daemon)
      /\ \A t \in Turn : KeyOf[t] \in Key
      /\ None \notin Daemon /\ MaxSession \in Nat
  BY DEF ServeTypeOK, Key, ServeAssumptions
<1>1. ASSUME NEW t \in Turn, AskDaemon(t) PROVE LocksInv'
  <2>1. CASE reg'.daemon # None /\ state'[reg'.daemon] = "up"
    <3>1. reg'.daemon \in Daemon
      BY <1>1, <2>1, EnsureType DEF AskDaemon
    <3>2. /\ stage' = [stage EXCEPT ![t] = "locking"]
          /\ on' = [on EXCEPT ![t] = reg'.daemon]
          /\ lockOf' = [lockOf EXCEPT ![t] = epoch[KeyOf[t]]]
          /\ stage[t] = "none"
          /\ UNCHANGED <<map, sessions, epoch, sess, thread>>
      BY <1>1, <2>1 DEF AskDaemon, GoTo
    <3>3. \A u \in Turn : Active(u)' => lockOf'[u] = epoch'[KeyOf[u]]
      BY <1>a, <1>0, <3>1, <3>2 DEF LocksInv, Active
    <3>4. \A u \in Turn : /\ stage'[u] \in Holding => stage[u] \in Holding
                          /\ stage'[u] \in Streaming => stage[u] \in Streaming /\ on'[u] = on[u]
      BY <1>0, <3>2 DEF Holding, Streaming
    <3> QED BY <1>a, <1>0, <3>2, <3>3, <3>4 DEF LocksInv
  <2>2. CASE ~(reg'.daemon # None /\ state'[reg'.daemon] = "up")
    <3>1. stage' = [stage EXCEPT ![t] = "failed"] /\ UNCHANGED <<on, lockOf, map, sessions, epoch, sess, thread>>
      BY <1>1, <2>2 DEF AskDaemon, GoTo
    <3> QED BY <1>a, <1>0, <3>1, LocksKept DEF Holding
  <2> QED BY <2>1, <2>2
<1>2. ASSUME NEW t \in Turn, Lock(t) PROVE LocksInv'
  <2>1. /\ stage[t] = "locking" /\ stage' = [stage EXCEPT ![t] = "opening"]
        /\ UNCHANGED <<on, sess, lockOf, map, sessions, epoch, thread>>
    BY <1>2 DEF Lock, GoTo
  <2>2. \A u \in Turn \ {t} : stage[u] \in Holding => KeyOf[u] # KeyOf[t]
    BY <1>a, <1>2, <2>1 DEF Lock, SameLock, LocksInv, Active
  <2> QED BY <1>a, <1>0, <2>1, <2>2 DEF LocksInv, Active, Holding, Streaming
<1>3. ASSUME NEW t \in Turn, SessionFor(t) PROVE LocksInv'
  <2> DEFINE d == on[t]
             k == KeyOf[t]
             n == Len(sessions) + 1
  <2>1. d \in Daemon /\ k \in Key
    BY <1>3 DEF SessionFor, Opens, PlaceInv, Active, Holding, Key
  <2>2. /\ thread' = [thread EXCEPT ![t] = "none"]
        /\ UNCHANGED <<on, lockOf, epoch>>
    BY <1>3 DEF SessionFor
  <2>3. map[d][k] \in 0 .. MaxSession /\ Len(sessions) \in Nat
    BY <1>0, <2>1
  <2>4. CASE map[d][k] # 0 /\ map' = map /\ sessions' = sessions
             /\ IF stage[t] = "opening"
                THEN GoTo(t, "posting") /\ sess' = [sess EXCEPT ![t] = map[d][k]]
                ELSE UNCHANGED <<stage, sess>>
    <3>1. CASE stage[t] = "opening"
      <4>1. stage' = [stage EXCEPT ![t] = "posting"] /\ sess' = [sess EXCEPT ![t] = map[d][k]]
        BY <2>4, <3>1 DEF GoTo
      <4>2. \A u \in Turn : /\ stage'[u] \in Holding => stage[u] \in Holding
                            /\ Active(u)' => Active(u)
        BY <1>0, <3>1, <4>1 DEF Holding, Active
      <4>3. \A u \in Turn : stage'[u] \in Streaming => sess'[u] # 0 /\ map'[on'[u]][KeyOf[u]] = sess'[u]
        BY <1>a, <1>0, <2>2, <2>4, <4>1 DEF LocksInv, Streaming
      <4> QED BY <1>a, <1>0, <2>2, <2>4, <4>2, <4>3 DEF LocksInv
    <3>2. CASE stage[t] # "opening"
      BY <1>a, <1>0, <2>2, <2>4, <3>2, LocksKept
    <3> QED BY <3>1, <3>2
  <2>5. CASE map[d][k] = 0 /\ map' = [map EXCEPT ![d][k] = n] /\ sessions' = Append(sessions, d)
             /\ IF stage[t] = "opening"
                THEN GoTo(t, "posting") /\ sess' = [sess EXCEPT ![t] = n]
                ELSE UNCHANGED <<stage, sess>>
    <3> HIDE DEF d, k, n
    <3>0. n = Len(sessions) + 1 /\ n \in Nat \ {0} /\ Len(sessions') = n
      BY <1>0, <2>1, <2>5, <2>3 DEF n
    <3>1. \A e \in Daemon, l \in Key : map'[e][l] = IF e = d /\ l = k THEN n ELSE map[e][l]
      BY <1>0, <2>1, <2>5
    <3>2. \A e \in Daemon, l \in Key : map[e][l] \in 0 .. MaxSession /\ map[e][l] < n
      BY <1>a, <1>0, <2>3, <3>0 DEF LocksInv
    <3>3. /\ \A e \in Daemon, l \in Key : map'[e][l] <= Len(sessions')
          /\ \A e, f \in Daemon, l, m \in Key :
               map'[e][l] = map'[f][m] /\ map'[e][l] # 0 => e = f /\ l = m
      BY <1>a, <3>0, <3>1, <3>2 DEF LocksInv
    <3>4. \A u \in Turn : /\ stage'[u] \in Holding => stage[u] \in Holding
                          /\ Active(u)' => Active(u)
                          /\ stage'[u] \in Streaming => \/ u = t /\ sess'[u] = n
                                                        \/ stage[u] \in Streaming /\ sess'[u] = sess[u]
      BY <1>0, <2>5 DEF GoTo, Holding, Active, Streaming
    <3>5. \A u \in Turn : stage'[u] \in Streaming => sess'[u] # 0 /\ map'[on'[u]][KeyOf[u]] = sess'[u]
      <4> SUFFICES ASSUME NEW u \in Turn, stage'[u] \in Streaming
                   PROVE  sess'[u] # 0 /\ map'[on'[u]][KeyOf[u]] = sess'[u]
        OBVIOUS
      <4>1. CASE u = t /\ sess'[u] = n
        BY <1>0, <2>1, <2>2, <3>0, <3>1, <4>1 DEF d, k
      <4>2. CASE stage[u] \in Streaming /\ sess'[u] = sess[u]
        <5>a. on[u] \in Daemon
          BY <4>2 DEF PlaceInv, Active, Holding, Streaming
        <5>1. on[u] \in Daemon /\ sess[u] # 0 /\ map[on[u]][KeyOf[u]] = sess[u]
          BY <1>a, <4>2, <5>a DEF LocksInv
        <5> QED BY <1>0, <2>2, <2>5, <3>1, <4>2, <5>1
      <4> QED BY <3>4, <4>1, <4>2
    <3> QED BY <1>a, <1>0, <2>2, <3>3, <3>4, <3>5 DEF LocksInv
  <2>6. CASE /\ IF stage[t] = "opening" THEN GoTo(t, "failed") ELSE UNCHANGED stage
             /\ UNCHANGED <<map, sessions, sess>>
    BY <1>a, <1>0, <2>2, <2>6, LocksKept DEF GoTo, Holding
  <2>7. [map EXCEPT ![d][k] = map[d][k]] = map
    BY <1>0, <2>1
  <2>8. CASE map[d][k] # 0
    BY <1>3, <2>4, <2>7, <2>8 DEF SessionFor
  <2>9. CASE map[d][k] = 0
    BY <1>3, <2>5, <2>6, <2>9 DEF SessionFor
  <2> QED BY <2>8, <2>9
<1>4. ASSUME NEW t \in Turn, Post(t) PROVE LocksInv'
  BY <1>a, <1>0, <1>4, LocksKept DEF Post, Posts, GoTo, Active, Holding
<1>5. ASSUME NEW t \in Turn, PostFails(t) PROVE LocksInv'
  BY <1>a, <1>0, <1>5, LocksKept DEF PostFails, Posts, GoTo, Active, Holding
<1>6. ASSUME NEW t \in Turn, End(t) PROVE LocksInv'
  BY <1>a, <1>0, <1>6, LocksKept DEF End, GoTo, Holding
<1>7. ASSUME NEW t \in Turn, CancelTurn(t) PROVE LocksInv'
  BY <1>a, <1>0, <1>7, LocksKept DEF CancelTurn, GoTo, Active, Holding
<1>8. ASSUME NEW s \in Session, Emit(s) \/ Answered(s) PROVE LocksInv'
  BY <1>a, <1>0, <1>8, LocksKept DEF Emit, Answered
<1>9. ASSUME NEW k \in Key, Forget(k) PROVE LocksInv'
  <2>1. /\ map' = [map EXCEPT ![reg.daemon][k] = 0] /\ epoch' = [epoch EXCEPT ![k] = @ + 1]
        /\ UNCHANGED <<sessions, thread, stage, on, sess, lockOf>>
        /\ \A t \in Turn : KeyOf[t] = k => ~Active(t)
    BY <1>9 DEF Forget, turnVars
  <2>2. \A t \in Turn : Active(t) => lockOf[t] = epoch'[KeyOf[t]]
    BY <1>a, <1>0, <2>1 DEF LocksInv
  <2>a. reg.daemon \in Daemon
    BY <1>9 DEF Forget, ServeTypeOK
  <2>3. \A d \in Daemon, l \in Key : map'[d][l] = map[d][l] \/ (l = k /\ map'[d][l] = 0)
    BY <1>0, <2>1, <2>a
  <2>4. \A t \in Turn : stage[t] \in Streaming => map'[on[t]][KeyOf[t]] = sess[t]
    <3> SUFFICES ASSUME NEW t \in Turn, stage[t] \in Streaming PROVE map'[on[t]][KeyOf[t]] = sess[t]
      OBVIOUS
    <3>1. Active(t)
      BY DEF Active, Holding, Streaming
    <3> QED BY <1>a, <1>0, <2>1, <2>3, <3>1 DEF LocksInv
  <2>5. \A d \in Daemon, l \in Key : map'[d][l] <= Len(sessions)
    <3>1. Len(sessions) \in Nat
      BY <1>0
    <3> QED BY <1>a, <2>3, <3>1 DEF LocksInv
  <2> QED BY <1>a, <2>1, <2>2, <2>3, <2>4, <2>5 DEF LocksInv, Active
<1>10. ASSUME NEW d \in Daemon, Dies(d) \/ ComesUp(d) PROVE LocksInv'
  BY <1>a, <1>10, LocksKept DEF Dies, ComesUp, turnVars
<1>11. CASE Shutdown
  BY <1>a, <1>11, LocksKept DEF Shutdown, turnVars
<1> QED BY <1>1, <1>2, <1>3, <1>4, <1>5, <1>6, <1>7, <1>8, <1>9, <1>10, <1>11 DEF ServeNext, TurnMoves

\* Two open streams are in two sessions.
LEMMA OneInASession ==
  ASSUME PlaceInv, LocksInv
  PROVE  \A t, u \in Turn : stage[t] \in Streaming /\ stage[u] \in Streaming /\ sess[t] = sess[u] => t = u
<1> SUFFICES ASSUME NEW t \in Turn, NEW u \in Turn, stage[t] \in Streaming, stage[u] \in Streaming,
                    sess[t] = sess[u]
             PROVE  t = u
  OBVIOUS
<1>1. on[t] \in Daemon /\ on[u] \in Daemon /\ KeyOf[t] \in Key /\ KeyOf[u] \in Key
  BY DEF PlaceInv, Active, Holding, Streaming, Key
<1>2. KeyOf[t] = KeyOf[u]
  BY <1>1 DEF LocksInv
<1> QED BY <1>2 DEF LocksInv, Holding, Streaming

\* The session of an open stream is one of those created.
LEMMA StreamsAreOfSessions ==
  ASSUME ServeTypeOK, PlaceInv, LocksInv, NEW t \in Turn, stage[t] \in Streaming
  PROVE  sess[t] \in Session /\ sess[t] <= Len(sessions) /\ sess[t] # 0
<1>1. on[t] \in Daemon /\ KeyOf[t] \in Key
  BY DEF PlaceInv, Active, Holding, Streaming, Key
<1>2. sess[t] # 0 /\ sess[t] = map[on[t]][KeyOf[t]]
  BY DEF LocksInv
<1>3. sess[t] \in 0 .. MaxSession
  BY DEF ServeTypeOK
<1> QED BY <1>1, <1>2, <1>3 DEF LocksInv, Session

\* As long as no turn ends in a hurry, a prompt that waits is that of the turn that
\* reads there, so what the session says is said to it.
LEMMA WaitingStep ==
  ASSUME ServeAssumptions, ServeTypeOK, PlaceInv, LocksInv, ~hurried => WaitingInv, ~hurried', ServeNext
  PROVE  WaitingInv'
<1>0. /\ stage \in [Turn -> Holding \cup {"none", "locking", "done", "failed", "cancelled"}]
      /\ thread \in [Turn -> {"none", "opening", "posting"}]
      /\ sess \in [Turn -> 0 .. MaxSession]
      /\ sessions \in Seq(Daemon) /\ Len(sessions) \in Nat
      /\ queue \in [Session -> Seq(Turn)]
      /\ got \in [Turn -> SUBSET Turn] /\ complete \in [Turn -> BOOLEAN]
      /\ state \in [Daemon -> {"none", "slow", "up", "dead"}]
      /\ hurried \in BOOLEAN
      /\ \A s \in Session : s <= Len(sessions) => sessions[s] \in Daemon
  BY DEF ServeTypeOK, Session
<1>a. \A t \in Turn : stage[t] \in Streaming =>
        sess[t] \in Session /\ sess[t] <= Len(sessions) /\ sess[t] # 0
  BY StreamsAreOfSessions
<1>1. ASSUME NEW t \in Turn, AskDaemon(t) PROVE WaitingInv'
  <2>1. /\ stage[t] = "none"
        /\ stage' = [stage EXCEPT ![t] = "locking"] \/ stage' = [stage EXCEPT ![t] = "failed"]
        /\ UNCHANGED <<sessions, queue, sess, thread, got, complete, hurried>>
    BY <1>1 DEF AskDaemon, GoTo
  <2>2. \A d \in Daemon : state'[d] = state[d] \/ state[d] = "none"
    BY <1>1, EnsureType DEF AskDaemon
  <2>3. WaitingInv
    BY <2>1
  <2>4. \A s \in Session : s <= Len(sessions) => state'[sessions[s]] = state[sessions[s]]
    BY <1>0, <2>2, <2>3 DEF WaitingInv
  <2>5. \A u \in Turn : u # t => stage'[u] = stage[u]
    BY <1>0, <2>1
  <2>6. \A s \in Session : s <= Len(sessions) /\ Alive(s)' /\ queue[s] # <<>> =>
          \E u \in Turn : queue[s] = <<u>> /\ stage'[u] = "reading" /\ sess[u] = s /\ ~complete[u]
    BY <1>0, <2>1, <2>3, <2>4, <2>5 DEF WaitingInv, Alive
  <2>7. stage'[t] \in {"locking", "failed"}
    BY <1>0, <2>1
  <2> QED BY <1>0, <2>1, <2>3, <2>4, <2>5, <2>6, <2>7 DEF WaitingInv
<1>2. ASSUME NEW t \in Turn, Lock(t) PROVE WaitingInv'
  BY <1>0, <1>2 DEF Lock, GoTo, daemonVars, WaitingInv, Alive
<1>3. ASSUME NEW t \in Turn, SessionFor(t) PROVE WaitingInv'
  <2>1. WaitingInv /\ UNCHANGED <<got, complete, queue, hurried, state>>
        /\ thread' = [thread EXCEPT ![t] = "none"] /\ stage[t] = "opening"
    BY <1>3 DEF SessionFor, daemonVars, WaitingInv, Opens
  <2>2. stage' = [stage EXCEPT ![t] = "posting"] \/ stage' = [stage EXCEPT ![t] = "failed"]
    BY <1>3, <2>1 DEF SessionFor, GoTo
  <2>3. \A u \in Turn : u # t => sess'[u] = sess[u]
    BY <1>0, <1>3 DEF SessionFor
  <2>4. \/ sessions' = sessions
        \/ sessions' = Append(sessions, on[t]) /\ state[on[t]] = "up"
    BY <1>3 DEF SessionFor
  <2>5. on[t] \in Daemon
    BY <2>1 DEF PlaceInv, Active, Holding
  <2>6. \A s \in Session : /\ s > Len(sessions') => s > Len(sessions)
                           /\ s <= Len(sessions) => s <= Len(sessions') /\ sessions'[s] = sessions[s]
                           /\ s <= Len(sessions') => \/ s <= Len(sessions)
                                                     \/ s > Len(sessions) /\ state[sessions'[s]] = "up"
    BY <1>0, <2>4, <2>5 DEF Session
  <2>7. stage'[t] \in {"posting", "failed"} /\ \A u \in Turn : u # t => stage'[u] = stage[u]
    BY <1>0, <2>2
  <2>8. \A s \in Session : s <= Len(sessions') /\ Alive(s)' /\ queue[s] # <<>> =>
          \E u \in Turn : queue[s] = <<u>> /\ stage'[u] = "reading" /\ sess'[u] = s /\ ~complete[u]
    <3> SUFFICES ASSUME NEW s \in Session, s <= Len(sessions'), Alive(s)', queue[s] # <<>>
                 PROVE  \E u \in Turn : queue[s] = <<u>> /\ stage'[u] = "reading" /\ sess'[u] = s /\ ~complete[u]
      OBVIOUS
    <3>1. s <= Len(sessions) /\ Alive(s)
      BY <2>1, <2>6 DEF WaitingInv, Alive
    <3>2. PICK u \in Turn : queue[s] = <<u>> /\ stage[u] = "reading" /\ sess[u] = s /\ ~complete[u]
      BY <2>1, <3>1 DEF WaitingInv
    <3> QED BY <2>1, <2>3, <2>7, <3>2
  <2>9. \A s \in Session : s <= Len(sessions') => state'[sessions'[s]] \in {"up", "dead"}
    BY <2>1, <2>6 DEF WaitingInv
  <2>10. \A s \in Session : s > Len(sessions') => queue'[s] = <<>>
    BY <2>1, <2>6 DEF WaitingInv
  <2>11. \A u \in Turn : /\ thread'[u] = "none" /\ got'[u] \subseteq {u}
                         /\ stage'[u] \in {"none", "locking", "opening", "posting"} => ~complete'[u]
                         /\ stage'[u] = "done" => got'[u] = {u}
    BY <1>0, <2>1, <2>7 DEF WaitingInv
  <2> QED BY <2>1, <2>8, <2>9, <2>10, <2>11 DEF WaitingInv
<1>4. ASSUME NEW t \in Turn, Post(t) PROVE WaitingInv'
  <2>1. WaitingInv /\ UNCHANGED <<sess, got, complete, sessions, state, hurried>>
        /\ thread' = [thread EXCEPT ![t] = "none"]
        /\ stage[t] = "posting" /\ stage' = [stage EXCEPT ![t] = "reading"]
        /\ Alive(sess[t]) /\ queue' = [queue EXCEPT ![sess[t]] = Append(@, t)]
    BY <1>4 DEF Post, daemonVars, WaitingInv, Posts, GoTo
  <2>2. sess[t] \in Session /\ sess[t] <= Len(sessions)
    BY <1>a, <2>1 DEF Streaming
  <2>3. queue[sess[t]] = <<>>
    BY <2>1, <2>2, OneInASession DEF WaitingInv, Streaming
  <2>4. queue'[sess[t]] = <<t>> /\ \A s \in Session : s # sess[t] => queue'[s] = queue[s]
    BY <1>0, <2>1, <2>2, <2>3
  <2>5. ASSUME NEW s \in Session, s <= Len(sessions), Alive(s), queue'[s] # <<>>
        PROVE  \E u \in Turn : queue'[s] = <<u>> /\ stage'[u] = "reading" /\ sess[u] = s /\ ~complete[u]
    <3>1. CASE s = sess[t]
      BY <1>0, <2>1, <2>4, <3>1 DEF WaitingInv
    <3>2. CASE s # sess[t]
      BY <1>0, <2>1, <2>4, <2>5, <3>2 DEF WaitingInv
    <3> QED BY <3>1, <3>2
  <2> QED BY <1>0, <2>1, <2>2, <2>4, <2>5 DEF WaitingInv, Alive
<1>5. ASSUME NEW t \in Turn, PostFails(t) PROVE WaitingInv'
  <2>1. WaitingInv /\ UNCHANGED <<sess, got, complete, sessions, queue, state>>
        /\ thread' = [thread EXCEPT ![t] = "none"]
        /\ stage[t] = "posting" /\ stage' = [stage EXCEPT ![t] = "failed"]
    BY <1>5 DEF PostFails, daemonVars, WaitingInv, Posts, GoTo
  <2> QED BY <1>0, <2>1 DEF WaitingInv, Alive
<1>6. ASSUME NEW t \in Turn, End(t) PROVE WaitingInv'
  <2>1. /\ WaitingInv /\ UNCHANGED <<sess, got, complete, sessions, queue, thread, state>>
        /\ stage[t] = "reading" /\ (complete[t] \/ ~Alive(sess[t]))
        /\ stage' = [stage EXCEPT ![t] = IF got[t] = {} THEN "failed" ELSE "done"]
    BY <1>6 DEF End, daemonVars, Enough, GoTo
  <2>2. ASSUME NEW s \in Session, s <= Len(sessions), Alive(s), queue[s] # <<>>
        PROVE  \E u \in Turn : queue[s] = <<u>> /\ stage'[u] = "reading" /\ sess[u] = s /\ ~complete[u]
    <3>1. PICK u \in Turn : queue[s] = <<u>> /\ stage[u] = "reading" /\ sess[u] = s /\ ~complete[u]
      BY <2>1, <2>2 DEF WaitingInv
    <3>2. u # t
      BY <2>1, <2>2, <3>1
    <3> QED BY <1>0, <2>1, <3>1, <3>2
  <2>3. \A u \in Turn : stage'[u] = "done" => got[u] = {u}
    BY <1>0, <2>1 DEF WaitingInv
  <2> QED BY <1>0, <2>1, <2>2, <2>3 DEF WaitingInv, Alive
<1>7. ASSUME NEW t \in Turn, CancelTurn(t) PROVE WaitingInv'
  BY <1>7 DEF CancelTurn
<1>8. ASSUME NEW s \in Session, Emit(s) \/ Answered(s) PROVE WaitingInv'
  <2>1. /\ WaitingInv /\ UNCHANGED <<stage, sess, sessions, thread, state>>
        /\ s <= Len(sessions) /\ Alive(s) /\ queue[s] # <<>>
        /\ got' = [t \in Turn |-> IF t \in Streams(s) THEN got[t] \cup {Head(queue[s])} ELSE got[t]]
        /\ \A t \in Turn : t \notin Streams(s) => complete'[t] = complete[t]
        /\ \/ queue' = [queue EXCEPT ![s] = Tail(@)]
           \/ queue' = queue /\ complete' = complete
    <3>1. CASE Emit(s)
      BY <3>1 DEF Emit, daemonVars
    <3>2. CASE Answered(s)
      <4>1. \A t \in Turn : t \notin Streams(s) => complete'[t] = complete[t]
        BY <1>0, <3>2 DEF Answered
      <4> QED BY <3>2, <4>1 DEF Answered, daemonVars
    <3> QED BY <1>8, <3>1, <3>2
  <2>2. PICK u \in Turn : queue[s] = <<u>> /\ stage[u] = "reading" /\ sess[u] = s /\ ~complete[u]
    BY <2>1 DEF WaitingInv
  <2>3. \A t \in Turn : t \in Streams(s) => t = u
    BY <2>2, OneInASession DEF Streams, Streaming
  <2>4. Head(queue[s]) = u /\ Tail(queue[s]) = <<>>
    BY <2>2
  <2>5. \A t \in Turn : got'[t] \subseteq {t} /\ (t # u => got'[t] = got[t] /\ complete'[t] = complete[t])
    BY <1>0, <2>1, <2>3, <2>4 DEF WaitingInv
  <2>6. \/ queue' = [queue EXCEPT ![s] = <<>>]
        \/ queue' = queue /\ complete' = complete
    BY <1>0, <2>1, <2>4
  <2>7. ASSUME NEW r \in Session, r <= Len(sessions), Alive(r), queue'[r] # <<>>
        PROVE  \E t \in Turn : queue'[r] = <<t>> /\ stage[t] = "reading" /\ sess[t] = r /\ ~complete'[t]
    <3>1. queue'[r] = queue[r] /\ (r = s => complete' = complete)
      BY <1>0, <2>6, <2>7
    <3>2. PICK t \in Turn : queue[r] = <<t>> /\ stage[t] = "reading" /\ sess[t] = r /\ ~complete[t]
      BY <2>1, <2>7, <3>1 DEF WaitingInv
    <3>3. r # s => t # u
      BY <2>2, <3>2
    <3> QED BY <2>5, <3>1, <3>2, <3>3
  <2>8. \A r \in Session : r > Len(sessions) => queue'[r] = <<>>
    BY <1>0, <2>1, <2>6 DEF WaitingInv
  <2>9. \A t \in Turn : /\ stage[t] \in {"none", "locking", "opening", "posting"} => ~complete'[t]
                        /\ stage[t] = "done" => got'[t] = {t}
    BY <2>1, <2>2, <2>5 DEF WaitingInv
  <2>10. \A r \in Session : Alive(r)' <=> Alive(r)
    BY <2>1 DEF Alive
  <2> QED BY <2>1, <2>5, <2>7, <2>8, <2>9, <2>10 DEF WaitingInv
<1>9. ASSUME NEW k \in Key, Forget(k) PROVE WaitingInv'
  BY <1>9 DEF Forget, daemonVars, turnVars, WaitingInv, Alive
<1>10. ASSUME NEW d \in Daemon, Dies(d) \/ ComesUp(d) PROVE WaitingInv'
  <2>1. /\ WaitingInv /\ UNCHANGED <<stage, sess, got, complete, sessions, queue, thread>>
        /\ \/ state[d] = "slow" /\ state' = [state EXCEPT ![d] = "up"]
           \/ state' = [state EXCEPT ![d] = "dead"]
    BY <1>10 DEF Dies, ComesUp, turnVars
  <2>2. \A s \in Session : s <= Len(sessions) =>
          /\ state'[sessions[s]] \in {"up", "dead"}
          /\ state'[sessions[s]] = "up" => state[sessions[s]] = "up"
    BY <1>0, <2>1 DEF WaitingInv
  <2> QED BY <2>1, <2>2 DEF WaitingInv, Alive
<1>11. CASE Shutdown
  <2>1. /\ WaitingInv /\ UNCHANGED <<stage, sess, got, complete, sessions, queue, thread>>
        /\ \/ state' = state
           \/ state' = [state EXCEPT ![reg.daemon] = "dead"]
    BY <1>11 DEF Shutdown, turnVars
  <2>2. \A s \in Session : s <= Len(sessions) =>
          /\ state'[sessions[s]] \in {"up", "dead"}
          /\ state'[sessions[s]] = "up" => state[sessions[s]] = "up"
    BY <1>0, <2>1 DEF WaitingInv
  <2> QED BY <2>1, <2>2 DEF WaitingInv, Alive
<1> QED BY <1>1, <1>2, <1>3, <1>4, <1>5, <1>6, <1>7, <1>8, <1>9, <1>10, <1>11 DEF ServeNext, TurnMoves

\* As long as no daemon wavers, the one that runs is the one that is registered
\* and listens at the port.
LEMMA OneDaemonStep ==
  ASSUME ServeAssumptions, ServeTypeOK, ~wavered => OneDaemonInv, ~wavered', ServeNext
  PROVE  OneDaemonInv'
<1>0. /\ state \in [Daemon -> {"none", "slow", "up", "dead"}]
      /\ atPort \in Daemon \cup {None} /\ None \notin Daemon
      /\ reg \in [daemon : Daemon \cup {None}, external : BOOLEAN]
      /\ shut \in BOOLEAN /\ wavered \in BOOLEAN
  BY DEF ServeTypeOK, ServeAssumptions
<1>1. ASSUME NEW t \in Turn, AskDaemon(t) PROVE OneDaemonInv'
  <2>1. OneDaemonInv /\ ~shut /\ shut' = shut /\ Ensure
    BY <1>0, <1>1 DEF AskDaemon, Ensure, daemonVars
  <2>2. CASE UNCHANGED daemonVars
    BY <2>1, <2>2 DEF daemonVars, OneDaemonInv, NoDaemonLeft
  <2>3. Healthy(atPort) => Healthy(reg.daemon)
    BY <1>0, <2>1 DEF Healthy, OneDaemonInv
  <2>4. ASSUME NEW d \in Daemon, NEW s \in {"up", "slow", "dead"}, state[d] = "none", Started(d, s),
               ~Healthy(atPort), wavered' = (wavered \/ Healthy(reg.daemon) \/ s = "slow")
        PROVE  OneDaemonInv'
    <3>1. atPort = None /\ \A e \in Daemon : state[e] \notin {"up", "slow"}
      BY <1>0, <2>1, <2>4 DEF Healthy, OneDaemonInv
    <3>2. s \in {"up", "dead"} /\ state' = [state EXCEPT ![d] = s]
          /\ atPort' = (IF s # "dead" THEN d ELSE atPort)
          /\ reg' = (IF s = "up" THEN [daemon |-> d, external |-> FALSE] ELSE reg)
      BY <2>4, <3>1 DEF Started
    <3> QED BY <1>0, <2>1, <3>1, <3>2 DEF OneDaemonInv, NoDaemonLeft
  <2> QED BY <2>1, <2>2, <2>3, <2>4 DEF Ensure
<1>2. ASSUME UNCHANGED <<daemonVars, shut>> PROVE OneDaemonInv'
  BY <1>2 DEF daemonVars, OneDaemonInv, NoDaemonLeft
<1>3. ASSUME NEW t \in Turn, TurnMoves(t) \/ CancelTurn(t) PROVE OneDaemonInv'
  BY <1>2, <1>3 DEF TurnMoves, Lock, SessionFor, Post, PostFails, End, CancelTurn
<1>4. ASSUME NEW s \in Session, Emit(s) \/ Answered(s) PROVE OneDaemonInv'
  BY <1>2, <1>4 DEF Emit, Answered
<1>5. ASSUME NEW k \in Key, Forget(k) PROVE OneDaemonInv'
  BY <1>2, <1>5 DEF Forget
<1>6. ASSUME NEW d \in Daemon, Dies(d) PROVE OneDaemonInv'
  BY <1>0, <1>6 DEF Dies, OneDaemonInv, NoDaemonLeft
<1>7. ASSUME NEW d \in Daemon, ComesUp(d) PROVE OneDaemonInv'
  BY <1>7 DEF ComesUp, OneDaemonInv
<1>8. CASE Shutdown
  <2>1. OneDaemonInv
    BY <1>8 DEF Shutdown
  <2>2. CASE reg.daemon = None \/ reg.external
    <3>1. \A d \in Daemon : state[d] # "up"
      BY <1>0, <2>1, <2>2 DEF OneDaemonInv
    <3> QED BY <1>8, <2>1, <2>2, <3>1 DEF Shutdown, OneDaemonInv, NoDaemonLeft
  <2>3. CASE ~(reg.daemon = None \/ reg.external)
    <3>1. /\ reg.daemon \in Daemon
          /\ state' = [state EXCEPT ![reg.daemon] = "dead"]
          /\ atPort' = IF atPort = reg.daemon THEN None ELSE atPort
      BY <1>0, <1>8, <2>3 DEF Shutdown
    <3>2. \A d \in Daemon : state[d] = "up" => d = reg.daemon
      BY <2>1 DEF OneDaemonInv
    <3> QED BY <1>0, <2>1, <3>1, <3>2 DEF OneDaemonInv, NoDaemonLeft
  <2> QED BY <2>2, <2>3
<1> QED BY <1>1, <1>3, <1>4, <1>5, <1>6, <1>7, <1>8 DEF ServeNext

\* The variables of QwenServe keep their types, whatever turns and daemons do.
THEOREM ServeTypeCorrect ==
  ASSUME ServeAssumptions PROVE ServeSpec => []ServeTypeOK
<1>1. ServeInit => ServeTypeOK /\ PlaceInv
  BY ServeStarts DEF ServeInv
<1>2. ServeTypeOK /\ PlaceInv /\ [ServeNext]_serveVars => (ServeTypeOK /\ PlaceInv)'
  <2>1. CASE UNCHANGED serveVars
    BY <2>1 DEF serveVars, ServeTypeOK, PlaceInv, Active
  <2> QED BY <2>1, ServeTypeStep, PlaceStep
<1> QED BY <1>1, <1>2, PTL DEF ServeSpec

\* Through any number of turns, conversations, daemons, limits and cancellations
\* turns do not meet in a session, get the answer to their own prompt, and no
\* daemon outlives the shutdown: each as long as its history variable allows.
THEOREM ConversationsAreApart ==
  ASSUME ServeAssumptions PROVE ServeSpec => []TurnsAreApart
<1>1. ServeInit => ServeInv
  BY ServeStarts
<1>2. ServeInv /\ [ServeNext]_serveVars => ServeInv'
  <2> SUFFICES ASSUME ServeInv, [ServeNext]_serveVars PROVE ServeInv'
    OBVIOUS
  <2>1. CASE ServeNext
    <3>1. ServeTypeOK' /\ PlaceInv' /\ (~wavered' => OneDaemonInv')
      BY <2>1, ServeTypeStep, PlaceStep, OneDaemonStep DEF ServeInv
    <3>2. ~disturbed' => LocksInv'
      BY <2>1, LocksStep DEF ServeInv
    <3>3. ~disturbed' => ~disturbed
      BY <2>1, DisturbedStays DEF ServeInv
    <3>4. ~disturbed' /\ ~hurried' => WaitingInv'
      BY <2>1, <3>3, WaitingStep DEF ServeInv
    <3> QED BY <3>1, <3>2, <3>4 DEF ServeInv
  <2>2. CASE UNCHANGED serveVars
    BY <2>2 DEF serveVars, ServeInv, ServeTypeOK, PlaceInv, LocksInv, Active, WaitingInv, Alive,
                OneDaemonInv, NoDaemonLeft
  <2> QED BY <2>1, <2>2
<1>3. ServeInv => TurnsAreApart
  <2> SUFFICES ASSUME ServeInv PROVE TurnsAreApart
    OBVIOUS
  <2>1. ~disturbed => OneTurnPerSession
    BY OneInASession DEF ServeInv, OneTurnPerSession, Streaming
  <2>2. ~disturbed /\ ~hurried => OwnAnswers
    BY DEF ServeInv, WaitingInv, OwnAnswers
  <2>3. ~wavered => NoDaemonLeft
    BY DEF ServeInv, OneDaemonInv
  <2> QED BY <2>1, <2>2, <2>3 DEF TurnsAreApart
<1> QED BY <1>1, <1>2, <1>3, PTL DEF ServeSpec
===============================================================================
