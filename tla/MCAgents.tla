----------------------------- MODULE MCAgents ------------------------------
(***************************************************************************)
(* What stands between a step and the model, one instance after another:   *)
(* part says which of them this behaviour is about, and the variables of   *)
(* the others keep their first values.                                     *)
(*   turns    QwenServe: three turns of two conversations, nobody is in a  *)
(*            hurry and daemons that run are healthy                       *)
(*   outages  QwenServe: two turns of one conversation, which also end by  *)
(*            time limits, are cancelled and forgotten; daemons waver      *)
(*   steps    AgentStep: three calls of two steps, until agents have       *)
(*            strayed and a session was left behind                        *)
(*   circuit  ModelCircuit: three calls of one endpoint with two slots     *)
(***************************************************************************)
EXTENDS ModelCircuit, QwenServe, AgentStep, TLC

CONSTANTS q1, q2, q3, k1, k2, t1, t2, t3, d1, d2

VARIABLE part

allVars == <<part, vars, serveVars, stepVars>>

KeyOfTurns == t1 :> k1 @@ t2 :> k1 @@ t3 :> k2
OwnRole == "build" :> "build" @@ "review" :> "review"

\* What the instances of QwenServe are about.
ServePart ==
  \/ part = "turns" /\ ~disturbed' /\ ~hurried' /\ ~wavered'
  \/ part = "outages" /\ stage'[t3] = "none"

ASSUME ServeAssumptions /\ StepAssumptions

-----------------------------------------------------------------------------
AllInit ==
  /\ part \in {"turns", "outages", "steps", "circuit"}
  /\ Init /\ ServeInit /\ StepInit

AllNext ==
  /\ UNCHANGED part
  /\ \/ part = "circuit" /\ Next /\ UNCHANGED <<serveVars, stepVars>>
     \/ ServeNext /\ ServePart /\ UNCHANGED <<vars, stepVars>>
     \/ /\ part = "steps" /\ StepNext /\ ~(strayed' /\ moved')
        /\ UNCHANGED <<vars, serveVars>>

\* Every part has the fairness its module states; a part that is not run has
\* none to ask.
AllSpec ==
  /\ AllInit /\ [][AllNext]_allVars
  /\ \A t \in Turn : WF_serveVars(TurnMoves(t) /\ ServePart)
  /\ \A s \in Session : WF_serveVars(Answered(s) /\ ServePart)
  /\ \A c \in Call :
       /\ WF_vars(part = "circuit" /\ Ask(c))
       /\ WF_vars(part = "circuit" /\ AskAgain(c))
       /\ SF_vars(part = "circuit" /\ TakeSlot(c))
       /\ WF_vars(part = "circuit" /\ Finish(c))
       /\ WF_vars(part = "circuit" /\ Retry(c))
  /\ WF_vars(part = "circuit" /\ Tick)

-----------------------------------------------------------------------------
(* TurnsAreApart and TurnsEnd are those of QwenServe, StepsAreSound is that *)
(* of AgentStep, ProbeIsUnderWay and WaitersGetThrough are of ModelCircuit. *)

\* Every variable has its type.
PartsTypeOK == TypeOK /\ ServeTypeOK /\ StepTypeOK
=============================================================================
