------------------------------ MODULE MCShared -----------------------------
(***************************************************************************)
(* What runs share on a machine, their project and the registry of their   *)
(* agents' processes, one instance after another: part says which of them  *)
(* this behaviour is about, and the variables of the others keep their     *)
(* first values.                                                           *)
(*   delivery AtomicDelivery: the agent rewrote a file, deleted another    *)
(*            and created a third; controllers come and go, with two       *)
(*            crashes, and nobody edits the project                        *)
(*   edits    the same, with one crash; the user edits the project         *)
(*   writers  ProjectWriter: three incarnations of the server and three    *)
(*            runs of one project                                          *)
(*   server   AgentProcess: two servers in turn, two runs with an agent    *)
(*            each, one of them forks                                      *)
(*   steps    AgentProcess: two servers in turn, two agents of one run     *)
(*   command  AgentProcess: a server and an aiwf command on one registry,  *)
(*            two agents of one run                                        *)
(*   script   AgentProcess: two servers in turn, an agent that is a script *)
(*            with an interpreter, one process id for two runs             *)
(* The ids are alike, and strangers take the first of them.                *)
(***************************************************************************)
EXTENDS AtomicDelivery, ProjectWriter, AgentProcess, Sequences, TLC

CONSTANTS c1, c2, a1, a2, a3, s1, s2, x1, k1, k2

VARIABLE part

otherVars == <<writerVars, processVars>>
allVars == <<part, vars, otherVars>>

\* The files that are delivered.
OldFiles == <<"old", "old", "none">>
NewFiles == <<"new", "none", "new">>

\* What each of the instances of AtomicDelivery is about.
DeliveryPart ==
  CASE part = "delivery" -> Next /\ edits' = edits
    [] part = "edits" -> Next /\ (crashes' # crashes => crashes = 0)
    [] OTHER -> FALSE

KeyOfAgents == a1 :> k1 @@ a2 :> k1 @@ a3 :> k2

\* What each of the instances of AgentProcess is about: controllers, agents, their
\* ids, those of strangers, and whether agents replace their image or fork.
Only(cs, as, ps, strange, swapping, forking) ==
  /\ \A c \in Parent \ cs : life'[c] = "off"
  /\ \A a \in Agent \ as : call'[a] = "none"
  /\ stranger' \subseteq strange /\ \A a \in as : pid'[a] \in ps \cup {0}
  /\ swapping \/ swapped' = swapped
  /\ forking \/ kids' = kids
ProcessPart ==
  CASE part = "server" -> ProcessNext /\ Only({s1, s2}, {a1, a3}, Pid, {1}, FALSE, TRUE)
    [] part = "steps" -> ProcessNext /\ Only({s1, s2}, {a1, a2}, Pid, {1}, FALSE, FALSE)
    [] part = "command" -> ProcessNext /\ Only({s1, x1}, {a1, a2}, Pid, {1}, FALSE, FALSE)
    [] part = "script" -> ProcessNext /\ Only({s1, s2}, {a1, a3}, {1}, {1}, TRUE, FALSE)
    [] OTHER -> FALSE

ASSUME Assumptions /\ WriterAssumptions /\ ProcessAssumptions

-----------------------------------------------------------------------------
AllInit ==
  /\ part \in {"delivery", "edits", "writers", "server", "steps", "command",
              "script"}
  /\ Init /\ WriterInit /\ ProcessInit

AllNext ==
  /\ UNCHANGED part
  /\ \/ DeliveryPart /\ UNCHANGED otherVars
     \/ part = "writers" /\ WriterNext /\ UNCHANGED <<vars, processVars>>
     \/ ProcessPart /\ UNCHANGED <<vars, writerVars>>

\* The fairness of AtomicDelivery; the others have no property that needs one.
AllSpec ==
  /\ AllInit /\ [][AllNext]_allVars
  /\ \A c \in Controller : WF_vars(Work(c)) /\ WF_vars(MonitorRollback(c))
  /\ WF_vars(Tick)

-----------------------------------------------------------------------------
(* JournalIsTrue, AllOrNothing and Settles are those of AtomicDelivery,    *)
(* OneWriterHoldsLock is that of ProjectWriter, and NoHarm and             *)
(* NoProcessIsLeft are those of AgentProcess.                              *)

\* Every variable has its type.
PartsTypeOK ==
  TypeOK /\ WriterTypeOK /\ ProcessTypeOK
=============================================================================
