--------------------------- MODULE MCControllers ---------------------------
(***************************************************************************)
(* Who controls a run, one instance after another: part says which of them *)
(* this behaviour is about, and the variables of the other keep their      *)
(* first values.                                                           *)
(*   server   RunController: two incarnations of a server with different   *)
(*            process ids and up to three executions of the run            *)
(*   command  RunController: an aiwf command that created the run, and a   *)
(*            server on the same store                                     *)
(***************************************************************************)
EXTENDS RunController, TLC

CONSTANTS p1, p2, command, server, h1, h2

OwnerIds == p1 :> h1 @@ p2 :> h2

VARIABLES
  part, cRun, cGrants, cTask, cReg, cPhase, cSnap, cTerm, cToRecover
commandVars == <<cRun, cGrants, cTask, cReg, cPhase, cSnap, cTerm, cToRecover>>
allVars == <<part, vars, commandVars>>

Command == INSTANCE RunController WITH
  Process <- {command, server}, Cli <- {command}, Creator <- command,
  OwnerOf <- command :> h1 @@ server :> h2,
  Task <- {1, 2}, MaxUp <- 2, MaxToken <- 2, OthersStale <- FALSE,
  run <- cRun, grants <- cGrants, task <- cTask, reg <- cReg, phase <- cPhase,
  snap <- cSnap, term <- cTerm, toRecover <- cToRecover

ASSUME Assumptions /\ Command!Assumptions

-----------------------------------------------------------------------------
AllInit == part \in {"server", "command"} /\ Init /\ Command!Init

AllNext ==
  /\ UNCHANGED part
  /\ \/ part = "server" /\ Next /\ UNCHANGED commandVars
     \/ part = "command" /\ Command!Next /\ UNCHANGED vars

\* The fairness of RunController, in each of its parts.
AllSpec ==
  /\ AllInit /\ [][AllNext]_allVars
  /\ \A t \in Task :
       /\ WF_vars(part = "server" /\ TaskStep(t))
       /\ WF_vars(part = "server" /\ Heartbeat(t))
  /\ \A p \in Process :
       /\ WF_vars(part = "server" /\ Recovery(p))
       /\ WF_vars(part = "server" /\ TerminateEnds(p))
  /\ WF_vars(part = "server" /\ Tick)
  /\ \A t \in {1, 2} :
       /\ WF_commandVars(part = "command" /\ Command!TaskStep(t))
       /\ WF_commandVars(part = "command" /\ Command!Heartbeat(t))
  /\ \A p \in {command, server} :
       /\ WF_commandVars(part = "command" /\ Command!Recovery(p))
       /\ WF_commandVars(part = "command" /\ Command!TerminateEnds(p))
  /\ WF_commandVars(part = "command" /\ Command!Tick)

-----------------------------------------------------------------------------
(* OneWriter, LeaseSpec, FencedForever and NotAbandoned are RunController's. *)

\* Every variable has its type.
PartsTypeOK == TypeOK /\ Command!TypeOK

\* A command and a server share nothing but the store. A run is executed by one
\* of them at a time, and in the end by neither once the user has stopped it.
OneOrNeither ==
  /\ Command!OneController
  /\ (part = "command" /\ cRun.cancel) ~> [](Command!Writing = {})
=============================================================================
