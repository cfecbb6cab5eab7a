------------------------------ MODULE AgentProcess -----------------------------
(***************************************************************************)
(* The operating system processes of the agents: who starts them, who ends *)
(* them, and who cleans up after a controller that died.                   *)
(*                                                                         *)
(*   app/agents/process_supervisor.py  run_supervised_process              *)
(*   app/agents/process_registry.py    the records, orphans, the reaper    *)
(*   app/main.py                       startup and shutdown                *)
(*                                                                         *)
(* A call is one agent process. Its record is named after the call: the    *)
(* pid, the start time and the controller of a record never change. A pid  *)
(* is free again once its process is dead, and another program may get it. *)
(* kids are the descendants of an agent that are in its process group and  *)
(* hold its pipes. Output, heartbeats and the result are left out.         *)
(***************************************************************************)
EXTENDS FiniteSets

CONSTANTS
  Server,       \* process incarnations of the server
  Command,      \* and of aiwf
  Agent,        \* the agent processes that may ever be started
  KeyOf,        \* the run an agent is registered under
  Pid,          \* process ids; 0 is none of them
  NoAgent,      \* no agent, no controller
  Forker,       \* the agents that start processes of their own
  Script,       \* those that replace their image after they were registered
  CancelInGrace \* is a call ever cancelled while it ends its process?

Parent == Server \cup Command
Key == {KeyOf[a] : a \in Agent}

\* What the constants must satisfy.
ProcessAssumptions ==
  /\ Server \cap Command = {} /\ NoAgent \notin Parent
  /\ NoAgent \notin Agent /\ 0 \notin Pid
  /\ Forker \cup Script \subseteq Agent /\ CancelInGrace \in BOOLEAN

VARIABLES
  life,         \* of each controller: off, booting, up, closing, gone
  call,         \* of each agent: where run_supervised_process stands
  by,           \* the controller of the call
  os,           \* the process itself: none, up, dead
  kids,         \* does it have descendants that are alive?
  pid,          \* its process id
  swapped,      \* did it replace its image after it was registered?
  stopped,      \* was its call cancelled?
  stranger,     \* ids used by programs that have nothing to do with this one
  handle,       \* ProcessRegistry._processes of each controller
  records,      \* ProcessRegistry._records of each controller
  registryFile, \* process-registry.json
  reap,         \* of each controller: the orphans reap_orphans has still to kill
  crowded,      \* history variable: were two agents of a run ever at work at once?
  late          \* history variable: ids that were given to somebody after a reaper
                \* had found them to be of its orphans and before it was done

processVars == <<life, call, by, os, kids, pid, swapped, stopped, stranger,
                 handle, records, registryFile, reap, crowded, late>>
osVars == <<os, kids, pid, swapped, stranger>>
registryVars == <<handle, records, registryFile>>

NotReaping == {NoAgent}
Empty == [k \in Key |-> NoAgent]
Live(c) == life[c] \in {"booting", "up", "closing"}
Open == {"feeding", "waiting", "killing"}
CallsOf(c) == {a \in Agent : by[a] = c /\ call[a] \in Open}

\* _pid_alive, whoever has the id
PidAlive(p) == p \in stranger \/ \E a \in Agent : os[a] = "up" /\ pid[a] = p

\* Mutant: the identity is not compared, as for a v1 record.
MutIdentityMatches(a) == PidAlive(pid[a])

\* _record_identity_matches: the start time and the executable.
IdentityMatches(a) == os[a] = "up" /\ ~swapped[a]

-----------------------------------------------------------------------------
(* The registry. Every change rewrites the file from one's own records.    *)

PersistRecords(c, recs) ==
  /\ records' = [records EXCEPT ![c] = recs]
  /\ registryFile' = recs

Register(c, a) ==
  /\ handle' = [handle EXCEPT ![c][KeyOf[a]] = a]
  /\ PersistRecords(c, [records[c] EXCEPT ![KeyOf[a]] = a])

\* unregister, and only while the key is still that of this process
Unregister(c, a) ==
  IF handle[c][KeyOf[a]] = a
  THEN /\ handle' = [handle EXCEPT ![c][KeyOf[a]] = NoAgent]
       /\ PersistRecords(c, [records[c] EXCEPT ![KeyOf[a]] = NoAgent])
  ELSE UNCHANGED registryVars

Recorded(c) == {records[c][k] : k \in Key} \ {NoAgent}
Stale(c) == {a \in Recorded(c) : ~PidAlive(pid[a]) \/ ~IdentityMatches(a)}

\* orphan_records
Orphans(c) == {a \in Recorded(c) \ Stale(c) : ~Live(by[a])}

Without(recs, A) == [k \in Key |-> IF recs[k] \in A THEN NoAgent ELSE recs[k]]

ReapBegins(c) ==
  /\ c \in Server /\ life[c] \in {"booting", "up"} /\ reap[c] = NotReaping
  /\ reap' = [reap EXCEPT ![c] = Orphans(c)]
  /\ IF Stale(c) = {} THEN UNCHANGED <<records, registryFile>>
     ELSE PersistRecords(c, Without(records[c], Stale(c)))
  /\ UNCHANGED <<life, call, by, handle, stopped>> /\ UNCHANGED osVars

\* _terminate_pid_tree: whoever has the id by now is ended, not its group, and
\* the identity is not looked at again. Who heeds SIGTERM exits (Exits,
\* StrangerGoes); this is the end of the wait. The record goes by its key, whatever
\* is registered under it by now, and stays if the signal is not permitted.
ReapKill(c, a) ==
  /\ life[c] \in {"booting", "up"} /\ reap[c] # NotReaping
  /\ a \in reap[c]
  /\ reap' = [reap EXCEPT ![c] = @ \ {a}]
  /\ \/ /\ records' = [records EXCEPT ![c][KeyOf[a]] = NoAgent]
        /\ os' = [b \in Agent |-> IF os[b] = "up" /\ pid[b] = pid[a] THEN "dead" ELSE os[b]]
        /\ stranger' = stranger \ {pid[a]}
     \/ pid[a] \in stranger /\ UNCHANGED <<records, os, stranger>>
  /\ UNCHANGED <<life, call, by, kids, pid, swapped, stopped, handle, registryFile>>

\* The end of reap_orphans; at startup the runs come next.
ReapEnds(c) ==
  /\ life[c] \in {"booting", "up"}
  /\ reap[c] = {}
  /\ reap' = [reap EXCEPT ![c] = NotReaping]
  /\ life' = [life EXCEPT ![c] = "up"]
  /\ PersistRecords(c, records[c])
  /\ UNCHANGED <<call, by, handle, stopped>> /\ UNCHANGED osVars

-----------------------------------------------------------------------------
(* A call: run_supervised_process.                                         *)

\* Also one that a reaper still has on its list.
FreePid == {p \in Pid : ~PidAlive(p)}

\* create_subprocess_exec, and at once register
Spawn(c, a) ==
  /\ life[c] = "up" /\ call[a] = "none"
  /\ \E p \in FreePid : pid' = [pid EXCEPT ![a] = p]
  /\ os' = [os EXCEPT ![a] = "up"]
  /\ by' = [by EXCEPT ![a] = c]
  /\ call' = [call EXCEPT ![a] = "feeding"]
  /\ Register(c, a)
  /\ UNCHANGED <<life, kids, swapped, stopped, stranger, reap>>

GoOn(a, pc) == call' = [call EXCEPT ![a] = pc]
Same == UNCHANGED <<life, by, reap>>

\* The finally clause of the call.
FinishCall(a) == GoOn(a, "done") /\ Unregister(by[a], a)

\* write_stdin: the agent read its prompt, at its own pace
Feed(a) ==
  /\ call[a] = "feeding" /\ os[a] = "up"
  /\ GoOn(a, "waiting") /\ UNCHANGED stopped
  /\ Same /\ UNCHANGED osVars /\ UNCHANGED registryVars

\* terminate_async_process_tree up to the grace period: nothing at all is
\* done to the group of a process that is dead already.
TerminateTree(a) ==
  /\ IF os[a] = "up" THEN GoOn(a, "killing") /\ UNCHANGED registryVars
     ELSE FinishCall(a)
  /\ UNCHANGED <<os, kids>>

\* timeout_sec, or no output for too long while the process is alive; neither
\* runs while the prompt is written. A pipe that breaks ends that too.
GivesUp(a) ==
  /\ \/ call[a] = "waiting"
     \/ call[a] = "feeding" /\ os[a] = "dead"
  /\ TerminateTree(a) /\ UNCHANGED stopped
  /\ Same /\ UNCHANGED <<pid, swapped, stranger>>

\* The task of the call is cancelled. In the grace period that cancels the
\* wait, and SIGKILL is not sent.
Cancel(a) ==
  /\ call[a] \in Open /\ (call[a] = "killing" => CancelInGrace)
  /\ stopped' = [stopped EXCEPT ![a] = TRUE]
  /\ IF call[a] = "killing" THEN FinishCall(a) /\ UNCHANGED <<os, kids>>
     ELSE TerminateTree(a)
  /\ Same /\ UNCHANGED <<pid, swapped, stranger>>

\* The grace period is over: SIGKILL to the group.
Kill(a) ==
  /\ call[a] = "killing"
  /\ os' = [os EXCEPT ![a] = "dead"]
  /\ kids' = [kids EXCEPT ![a] = IF os[a] = "up" THEN FALSE ELSE @]
  /\ FinishCall(a)
  /\ Same /\ UNCHANGED <<pid, swapped, stranger, stopped>>

\* The process is over and both pipes are closed.
Ends(a) ==
  /\ call[a] = "waiting" /\ os[a] = "dead" /\ ~kids[a]
  /\ FinishCall(a) /\ UNCHANGED stopped
  /\ Same /\ UNCHANGED osVars

\* terminate_run and its like: whatever has the key of the run is signalled,
\* by the group (the call itself notices when the process is dead).
TerminateRun(c, k) ==
  LET a == handle[c][k] IN
  /\ life[c] = "up" /\ a # NoAgent
  /\ os[a] = "up"
  /\ os' = [os EXCEPT ![a] = "dead"]
  /\ kids' = [kids EXCEPT ![a] = FALSE]
  /\ Same /\ UNCHANGED <<call, pid, swapped, stranger, stopped>>
  /\ UNCHANGED registryVars

-----------------------------------------------------------------------------
(* The processes themselves, and everybody else's.                         *)

Unmoved == UNCHANGED <<life, call, by, stopped, reap>> /\ UNCHANGED registryVars

Forks(a) ==
  /\ a \in Forker /\ os[a] = "up" /\ ~kids[a]
  /\ kids' = [kids EXCEPT ![a] = TRUE]
  /\ Unmoved /\ UNCHANGED <<os, pid, swapped, stranger>>

\* A script that "env" starts becomes its interpreter.
Exec(a) ==
  /\ a \in Script /\ os[a] = "up" /\ ~swapped[a]
  /\ swapped' = [swapped EXCEPT ![a] = TRUE]
  /\ Unmoved /\ UNCHANGED <<os, kids, pid, stranger>>

Exits(a) ==
  /\ os[a] = "up"
  /\ os' = [os EXCEPT ![a] = "dead"]
  /\ Unmoved /\ UNCHANGED <<kids, pid, swapped, stranger>>

KidsExit(a) ==
  /\ kids[a]
  /\ kids' = [kids EXCEPT ![a] = FALSE]
  /\ Unmoved /\ UNCHANGED <<os, pid, swapped, stranger>>

StrangerComes(p) ==
  /\ p \in FreePid
  /\ stranger' = stranger \cup {p}
  /\ Unmoved /\ UNCHANGED <<os, kids, pid, swapped>>

StrangerGoes(p) ==
  /\ p \in stranger
  /\ stranger' = stranger \ {p}
  /\ Unmoved /\ UNCHANGED <<os, kids, pid, swapped>>

-----------------------------------------------------------------------------
(* Controllers.                                                            *)

\* Mutant: the runs are restored before the orphans are looked for.
MutBootController(c) ==
  /\ life[c] = "off"
  /\ c \in Server => \A s \in Server : ~Live(s)
  /\ life' = [life EXCEPT ![c] = "up"]
  /\ records' = [records EXCEPT ![c] = registryFile]
  /\ UNCHANGED <<call, by, stopped, handle, registryFile, reap>>
  /\ UNCHANGED osVars

\* The registry is read when its module is imported. One server at a time.
BootController(c) ==
  /\ life[c] = "off"
  /\ c \in Server => \A s \in Server : ~Live(s)
  /\ life' = [life EXCEPT ![c] = IF c \in Server THEN "booting" ELSE "up"]
  /\ records' = [records EXCEPT ![c] = registryFile]
  /\ UNCHANGED <<call, by, stopped, handle, registryFile, reap>>
  /\ UNCHANGED osVars

\* What is left of the calls of a controller that is gone.
Dropped(c) == [a \in Agent |-> IF a \in CallsOf(c) THEN "lost" ELSE call[a]]

\* Without a word. A server that may crash is one that is started again.
ControllerDies(c) ==
  /\ Live(c) /\ \E d \in Parent : life[d] = "off"
  /\ life' = [life EXCEPT ![c] = "gone"]
  /\ call' = Dropped(c)
  /\ handle' = [handle EXCEPT ![c] = Empty]
  /\ reap' = [reap EXCEPT ![c] = NotReaping]
  /\ UNCHANGED <<by, stopped, records, registryFile>> /\ UNCHANGED osVars

\* shutdown: the tasks are cancelled (Cancel), and given eight seconds; a
\* command ends when its run has.
ShutdownBegins(c) ==
  /\ life[c] = "up" /\ reap[c] = NotReaping
  /\ c \in Command => CallsOf(c) = {}
  /\ life' = [life EXCEPT ![c] = IF c \in Command THEN "gone" ELSE "closing"]
  /\ UNCHANGED <<call, by, stopped, reap>>
  /\ UNCHANGED osVars /\ UNCHANGED registryVars

\* The processes that are left are killed, and then the registry is cleared,
\* with whatever else it had.
ShutdownEnds(c) ==
  LET left == {a \in Agent : os[a] = "up" /\ handle[c][KeyOf[a]] = a} IN
  /\ life[c] = "closing"
  /\ \A a \in CallsOf(c) : stopped[a] \/ call[a] = "killing"
  /\ life' = [life EXCEPT ![c] = "gone"]
  /\ os' = [a \in Agent |-> IF a \in left THEN "dead" ELSE os[a]]
  /\ kids' = [a \in Agent |-> kids[a] /\ a \notin left]
  /\ call' = Dropped(c)
  /\ handle' = [handle EXCEPT ![c] = Empty]
  /\ PersistRecords(c, Empty)
  /\ UNCHANGED <<by, stopped, reap, pid, swapped, stranger>>

-----------------------------------------------------------------------------

ProcessInit ==
  /\ life = [c \in Parent |-> "off"]
  /\ call = [a \in Agent |-> "none"]
  /\ by = [a \in Agent |-> NoAgent]
  /\ os = [a \in Agent |-> "none"]
  /\ kids = [a \in Agent |-> FALSE]
  /\ pid = [a \in Agent |-> 0]
  /\ swapped = [a \in Agent |-> FALSE]
  /\ stopped = [a \in Agent |-> FALSE]
  /\ stranger = {}
  /\ handle = [c \in Parent |-> Empty]
  /\ records = [c \in Parent |-> Empty]
  /\ registryFile = Empty
  /\ reap = [c \in Parent |-> NotReaping]
  /\ crowded = FALSE /\ late = {}

AgentMoves(a) ==
  \/ Feed(a) \/ GivesUp(a) \/ Cancel(a) \/ Kill(a) \/ Ends(a)
  \/ Forks(a) \/ Exec(a) \/ Exits(a) \/ KidsExit(a)

Moves ==
  \/ \E c \in Parent :
       \/ BootController(c) \/ ControllerDies(c)
       \/ ShutdownBegins(c) \/ ShutdownEnds(c)
       \/ ReapBegins(c) \/ ReapEnds(c)
       \/ \E a \in Agent : Spawn(c, a) \/ ReapKill(c, a)
       \/ \E k \in Key : TerminateRun(c, k)
  \/ \E a \in Agent : AgentMoves(a)
  \/ \E p \in Pid : StrangerComes(p) \/ StrangerGoes(p)

\* Two agents of one run at work at the same time
TwoOfARun ==
  \E a, b \in Agent :
    a # b /\ KeyOf[a] = KeyOf[b] /\ {call[a], call[b]} \subseteq Open

Listed == {pid[a] : a \in UNION {reap[c] : c \in {d \in Parent : reap[d] # NotReaping}}}

ProcessNext ==
  /\ Moves
  /\ crowded' = (crowded \/ TwoOfARun')
  /\ late' = {p \in Pid \cap Listed' : p \in late \/ (PidAlive(p)' /\ ~PidAlive(p))}

ProcessSpec == ProcessInit /\ [][ProcessNext]_processVars

-----------------------------------------------------------------------------
(* Properties.                                                             *)

ProcessTypeOK ==
  /\ life \in [Parent -> {"off", "booting", "up", "closing", "gone"}]
  /\ call \in [Agent -> {"none", "done", "lost"} \cup Open]
  /\ by \in [Agent -> Parent \cup {NoAgent}]
  /\ os \in [Agent -> {"none", "up", "dead"}]
  /\ kids \in [Agent -> BOOLEAN] /\ swapped \in [Agent -> BOOLEAN]
  /\ pid \in [Agent -> Pid \cup {0}] /\ stranger \subseteq Pid
  /\ stopped \in [Agent -> BOOLEAN]
  /\ registryFile \in [Key -> Agent \cup {NoAgent}]
  /\ {handle, records} \subseteq [Parent -> [Key -> Agent \cup {NoAgent}]]
  /\ reap \in [Parent -> (SUBSET Agent) \cup {NotReaping}]
  /\ crowded \in BOOLEAN /\ late \subseteq Pid

\* reap_orphans ends no process but agents whose controller is gone, however long
\* ago the controller died and whoever got the ids of its agents since: what has an
\* id on its list is the process of the record, or the id was given away between
\* the look (orphan_records) and the signal (_terminate_pid_tree).
NoHarm ==
  \A c \in Parent : reap[c] # NotReaping => \A a \in reap[c] : pid[a] \notin late =>
    /\ pid[a] \notin stranger
    /\ \A b \in Agent : os[b] = "up" /\ pid[b] = pid[a] => b = a /\ ~Live(by[b])

\* Production always verifies the identity of a process before it treats it as its
\* own (process_registry.py:91): not so when it signals.
ReaperSignalsItsOwn ==
  \A c \in Parent : reap[c] # NotReaping => \A a \in reap[c] : pid[a] \notin stranger

\* A call that ended leaves no agent process behind.
CallsEndTheirAgents == \A a \in Agent : call[a] = "done" => os[a] # "up"

\* Terminate an async subprocess and its children (process_supervisor.py:82): not
\* those of a process that has ended by itself.
CallsEndTheirTrees == \A a \in Agent : call[a] = "done" => ~kids[a]

\* While a call is open its agent is on disk, so that whatever happens to the
\* controller the next one finds it.
LiveAgentsAreOnDisk ==
  \A a \in Agent :
    call[a] \in Open /\ os[a] = "up" => registryFile[KeyOf[a]] = a

\* A server that serves requests and restores runs has no agent of an earlier
\* controller beside it that still works for one of them.
OrphansEndFirst ==
  (\E c \in Server : life[c] = "up") =>
    \A a \in Agent : call[a] = "lost" => os[a] # "up"

\* No command was run beside the servers, no agent has replaced its image, and
\* no run had two agents at a time.
Undisturbed ==
  /\ \A c \in Command : life[c] = "off"
  /\ \A a \in Agent : ~swapped[a]
  /\ ~crowded

\* No process outlives what it was started for: an agent its call, or, as long
\* as nothing disturbs the registry, the start of the next server when the
\* controller died under it, because an agent that runs is then always in the
\* file that start reads.
NoProcessIsLeft ==
  CallsEndTheirAgents /\ (Undisturbed => LiveAgentsAreOnDisk /\ OrphansEndFirst)
=============================================================================
