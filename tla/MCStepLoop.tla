----------------------------- MODULE MCStepLoop -----------------------------
\* An instance of StepLoop: a build with tasks, the generation of its tests and
\* their run. A failure goes back to the step itself or to any step before it.
EXTENDS StepLoop

AnyEarlier == [k \in 1..NumSteps |-> 1..k]

=============================================================================
