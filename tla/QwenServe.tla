------------------------------- MODULE QwenServe -------------------------------
(***************************************************************************)
(* Turns of the conversations that go through "qwen serve": the daemon of  *)
(* one workspace, its sessions, the lock of each conversation, the posted  *)
(* prompt and the stream of events a turn takes its text from.             *)
(*                                                                         *)
(*   app/workflow_runtime/qwen_serve.py                                    *)
(*                                                                         *)
(* The daemon itself is not in the repository; it is modelled by what the  *)
(* code says of it: a session answers its prompts one after the other, and *)
(* its events go to every stream that is open on it, whoever asked. Text   *)
(* is reduced to the turn whose prompt it answers. Threads outlive the     *)
(* tasks that wait for them (asyncio.to_thread).                           *)
(***************************************************************************)
EXTENDS Integers, Sequences, FiniteSets

CONSTANTS
  Turn,         \* calls of run_prompt_via_serve, each made once
  KeyOf,        \* the conversation of a turn (its app session id)
  Daemon,       \* daemon processes that may ever be started
  MaxSession,   \* bound: sessions of all daemons
  QueueMax,     \* prompts a session accepts
  None          \* no daemon

Key == {KeyOf[t] : t \in Turn}
Session == 1 .. MaxSession

\* What the constants must satisfy.
ServeAssumptions ==
  /\ MaxSession \in Nat /\ QueueMax \in Nat \ {0}
  /\ None \notin Turn \cup Daemon

VARIABLES
  reg,      \* qwen_serve_daemons: the daemon of the workspace, and whose it is
  state,    \* of each daemon: none, slow (runs, not yet healthy), up, dead
  atPort,   \* the daemon that listens at the default port
  map,      \* sessions of each daemon object: conversation -> session, or 0
  sessions, \* how many sessions were created, and by which daemon
  queue,    \* of each session: the prompts it has not answered yet
  epoch,    \* of each conversation: which lock object is current
  stage, on, sess, lockOf,  \* of each turn: where, its daemon, session and lock
  thread,   \* what a thread still does for a turn that has gone
  got,      \* of each turn: the turns whose text it has collected
  complete, \* of each turn: completed_event
  shut,     \* shutdown_qwen_serve has run
  disturbed, \* history: was a conversation forgotten while a turn of it ran?
  hurried,  \* history: did a turn end without an end of its answer, or its stream?
  wavered   \* history: was a daemon that runs not healthy, or not at once?

serveVars == <<reg, state, atPort, map, sessions, queue, epoch, stage, on, sess,
               lockOf, thread, got, complete, shut, disturbed, hurried, wavered>>
daemonVars == <<reg, state, atPort, wavered>>
turnVars == <<stage, on, sess, lockOf, got, complete, hurried>>

Unregistered == [daemon |-> None, external |-> FALSE]
Holding == {"opening", "posting", "reading"}
Active(t) == stage[t] \in Holding \cup {"locking"}
Streams(s) == {t \in Turn : stage[t] \in {"posting", "reading"} /\ sess[t] = s}
GoTo(t, l) == stage' = [stage EXCEPT ![t] = l]

-----------------------------------------------------------------------------
(* ensure_qwen_serve. It runs in the event loop, so nothing else does.      *)

\* _health answers within a second.
Healthy(d) == d # None /\ state[d] = "up"

\* A daemon is started: healthy within 30 s, or not, or it exits. Only in the
\* first case does anything remember it.
Started(d, s) ==
  /\ state' = [state EXCEPT ![d] = s]
  /\ atPort' = IF atPort = None /\ s # "dead" THEN d ELSE atPort
  /\ reg' = IF s = "up" THEN [daemon |-> d, external |-> FALSE] ELSE reg

\* The registered daemon when it is healthy, else the one at the default port
\* (which counts as somebody else's), else a new one.
Ensure ==
  \/ Healthy(reg.daemon) /\ UNCHANGED daemonVars
  \/ /\ Healthy(atPort)
     /\ reg' = [daemon |-> atPort, external |-> TRUE]
     /\ wavered' = (wavered \/ Healthy(reg.daemon))
     /\ UNCHANGED <<state, atPort>>
  \/ /\ ~Healthy(atPort)
     /\ \E d \in Daemon, s \in {"up", "slow", "dead"} :
          /\ state[d] = "none" /\ Started(d, s)
          /\ wavered' = (wavered \/ Healthy(reg.daemon) \/ s = "slow")

\* The first part of run_prompt_via_serve: the daemon and the lock object.
AskDaemon(t) ==
  /\ stage[t] = "none" /\ ~shut
  /\ Ensure
  /\ IF reg'.daemon # None /\ state'[reg'.daemon] = "up"
     THEN /\ GoTo(t, "locking")
          /\ on' = [on EXCEPT ![t] = reg'.daemon]
          /\ lockOf' = [lockOf EXCEPT ![t] = epoch[KeyOf[t]]]
     ELSE GoTo(t, "failed") /\ UNCHANGED <<on, lockOf>>
  /\ UNCHANGED <<map, sessions, queue, epoch, disturbed, sess, thread, got, complete, shut,
                 hurried>>

\* Mutant: the lock is made anew for each call.
MutSameLock(t, u) == t = u

\* _session_lock: by the workspace and the conversation
SameLock(t, u) == KeyOf[t] = KeyOf[u] /\ lockOf[t] = lockOf[u]

\* async with lock; asyncio.Lock wakes its waiters in turn, so each gets it.
Lock(t) ==
  /\ stage[t] = "locking"
  /\ \A u \in Turn \ {t} : stage[u] \in Holding => ~SameLock(t, u)
  /\ GoTo(t, "opening")
  /\ UNCHANGED <<on, sess, lockOf, got, complete, map, sessions, queue, epoch, disturbed,
                 thread, shut, hurried>> /\ UNCHANGED daemonVars

\* _session_for: the session of the daemon object, or a new one. The entry
\* is made even when the turn has been cancelled in the meantime.
Opens(t) == stage[t] = "opening" \/ thread[t] = "opening"

SessionFor(t) ==
  LET d == on[t]
      known == map[d][KeyOf[t]]
      s == IF known # 0 THEN known ELSE Len(sessions) + 1 IN
  /\ Opens(t)
  /\ \/ /\ known # 0 \/ (state[d] = "up" /\ s \in Session)
        /\ map' = [map EXCEPT ![d][KeyOf[t]] = s]
        /\ sessions' = IF known # 0 THEN sessions ELSE Append(sessions, d)
        /\ IF stage[t] = "opening"
           THEN GoTo(t, "posting") /\ sess' = [sess EXCEPT ![t] = s]
           ELSE UNCHANGED <<stage, sess>>
     \/ /\ known = 0 /\ (state[d] # "up" \/ s \notin Session)
        /\ IF stage[t] = "opening" THEN GoTo(t, "failed") ELSE UNCHANGED stage
        /\ UNCHANGED <<map, sessions, sess>>
  /\ thread' = [thread EXCEPT ![t] = "none"]
  /\ UNCHANGED <<on, lockOf, got, complete, queue, epoch, disturbed, shut, hurried>>
  /\ UNCHANGED daemonVars

-----------------------------------------------------------------------------
(* The prompt and the events.                                              *)

Posts(t) == stage[t] = "posting" \/ thread[t] = "posting"
Alive(s) == state[sessions[s]] = "up"

HasRoom(s) == Len(queue[s]) < QueueMax

\* _post_prompt_with_queue_wait: it waits while the queue is full, and a
\* thread whose turn has gone waits all the same.
Post(t) ==
  /\ Posts(t)
  /\ Alive(sess[t]) /\ HasRoom(sess[t])
  /\ queue' = [queue EXCEPT ![sess[t]] = Append(@, t)]
  /\ IF stage[t] = "posting" THEN GoTo(t, "reading") ELSE UNCHANGED stage
  /\ thread' = [thread EXCEPT ![t] = "none"]
  /\ UNCHANGED <<on, sess, lockOf, got, complete, map, sessions, epoch, disturbed, shut,
                 hurried>>
  /\ UNCHANGED daemonVars

\* The post raises: the daemon is gone, or the queue stayed full.
PostFails(t) ==
  /\ Posts(t)
  /\ hurried' = (hurried \/ Alive(sess[t]))
  /\ IF stage[t] = "posting" THEN GoTo(t, "failed") ELSE UNCHANGED stage
  /\ thread' = [thread EXCEPT ![t] = "none"]
  /\ UNCHANGED <<on, sess, lockOf, got, complete, map, sessions, queue, epoch, disturbed,
                 shut>> /\ UNCHANGED daemonVars

\* Text of the prompt the session works on, to every open stream.
Emit(s) ==
  /\ s <= Len(sessions) /\ Alive(s) /\ queue[s] # <<>>
  /\ got' = [t \in Turn |-> IF t \in Streams(s) THEN got[t] \cup {Head(queue[s])}
                            ELSE got[t]]
  /\ got' # got
  /\ UNCHANGED <<stage, on, sess, lockOf, complete, map, sessions, queue, epoch, disturbed,
                 thread, shut, hurried>> /\ UNCHANGED daemonVars

\* Its last event, which says so; a turn ends with text of its prompt.
Answered(s) ==
  /\ s <= Len(sessions) /\ Alive(s) /\ queue[s] # <<>>
  /\ got' = [t \in Turn |-> IF t \in Streams(s) THEN got[t] \cup {Head(queue[s])}
                            ELSE got[t]]
  /\ complete' = [t \in Turn |-> complete[t] \/ t \in Streams(s)]
  /\ queue' = [queue EXCEPT ![s] = Tail(@)]
  /\ UNCHANGED <<stage, on, sess, lockOf, map, sessions, epoch, disturbed, thread, shut,
                 hurried>>
  /\ UNCHANGED daemonVars

\* Mutant: the first text is taken for the answer.
MutEnough(t) == got[t] # {}

\* The loop ends for a reason: the event; the stream is dead.
Enough(t) == complete[t] \/ ~Alive(sess[t])

\* It also ends in a hurry: no text for a while, no first text in time, the
\* deadline.
End(t) ==
  /\ stage[t] = "reading"
  /\ hurried' = (hurried \/ ~Enough(t))
  /\ GoTo(t, IF got[t] = {} THEN "failed" ELSE "done")
  /\ UNCHANGED <<on, sess, lockOf, got, complete, map, sessions, queue, epoch, disturbed,
                 thread, shut>> /\ UNCHANGED daemonVars

\* The task of the turn is cancelled. Its thread is not.
CancelTurn(t) ==
  /\ Active(t) /\ hurried' = TRUE
  /\ GoTo(t, "cancelled")
  /\ thread' = [thread EXCEPT ![t] =
                  IF stage[t] \in {"opening", "posting"} THEN stage[t] ELSE "none"]
  /\ UNCHANGED <<on, sess, lockOf, got, complete, map, sessions, queue, epoch, disturbed,
                 shut>> /\ UNCHANGED daemonVars

-----------------------------------------------------------------------------
(* Resets, the daemons, the end.                                           *)

\* forget_qwen_serve_session, of the registered daemon: the session and the
\* lock, held or not.
Forget(k) ==
  /\ reg.daemon # None /\ map[reg.daemon][k] # 0
  /\ disturbed' = (disturbed \/ \E t \in Turn : KeyOf[t] = k /\ (Active(t) \/ thread[t] # "none"))
  /\ map' = [map EXCEPT ![reg.daemon][k] = 0]
  /\ epoch' = [epoch EXCEPT ![k] = @ + 1]
  /\ UNCHANGED <<sessions, queue, thread, shut>>
  /\ UNCHANGED daemonVars /\ UNCHANGED turnVars

Dies(d) ==
  /\ state[d] \in {"slow", "up"}
  /\ state' = [state EXCEPT ![d] = "dead"]
  /\ atPort' = IF atPort = d THEN None ELSE atPort
  /\ UNCHANGED <<reg, wavered, map, sessions, queue, epoch, disturbed, thread, shut>>
  /\ UNCHANGED turnVars

\* A slow daemon is healthy after all, when nobody waits for it any more.
ComesUp(d) ==
  /\ state[d] = "slow"
  /\ state' = [state EXCEPT ![d] = "up"]
  /\ UNCHANGED <<reg, atPort, wavered, map, sessions, queue, epoch, disturbed, thread, shut>>
  /\ UNCHANGED turnVars

\* shutdown_qwen_serve, after the tasks: the registered daemon, if started here.
Shutdown ==
  /\ ~shut /\ \A t \in Turn : ~Active(t)
  /\ shut' = TRUE
  /\ reg' = Unregistered
  /\ wavered' = wavered
  /\ IF reg.daemon = None \/ reg.external THEN UNCHANGED <<state, atPort>>
     ELSE /\ state' = [state EXCEPT ![reg.daemon] = "dead"]
          /\ atPort' = IF atPort = reg.daemon THEN None ELSE atPort
  /\ UNCHANGED <<map, sessions, queue, epoch, disturbed, thread>> /\ UNCHANGED turnVars

-----------------------------------------------------------------------------

ServeInit ==
  /\ reg = Unregistered
  /\ state = [d \in Daemon |-> "none"]
  /\ atPort = None
  /\ map = [d \in Daemon |-> [k \in Key |-> 0]]
  /\ sessions = <<>>
  /\ queue = [s \in Session |-> <<>>]
  /\ epoch = [k \in Key |-> 0]
  /\ stage = [t \in Turn |-> "none"]
  /\ on = [t \in Turn |-> None]
  /\ sess = [t \in Turn |-> 0]
  /\ lockOf = [t \in Turn |-> 0]
  /\ thread = [t \in Turn |-> "none"]
  /\ got = [t \in Turn |-> {}]
  /\ complete = [t \in Turn |-> FALSE]
  /\ shut = FALSE /\ disturbed = FALSE /\ hurried = FALSE /\ wavered = FALSE

TurnMoves(t) == Lock(t) \/ SessionFor(t) \/ Post(t) \/ PostFails(t) \/ End(t)

ServeNext ==
  \/ \E t \in Turn : AskDaemon(t) \/ TurnMoves(t) \/ CancelTurn(t)
  \/ \E s \in Session : Emit(s) \/ Answered(s)
  \/ \E k \in Key : Forget(k)
  \/ \E d \in Daemon : Dies(d) \/ ComesUp(d)
  \/ Shutdown

ServeSpec == ServeInit /\ [][ServeNext]_serveVars

-----------------------------------------------------------------------------
(* Properties.                                                             *)

ServeTypeOK ==
  /\ reg \in [daemon : Daemon \cup {None}, external : BOOLEAN]
  /\ state \in [Daemon -> {"none", "slow", "up", "dead"}]
  /\ atPort \in Daemon \cup {None}
  /\ map \in [Daemon -> [Key -> 0 .. MaxSession]]
  /\ sessions \in Seq(Daemon) /\ Len(sessions) <= MaxSession
  /\ queue \in [Session -> Seq(Turn)]
  /\ \A s \in Session : Len(queue[s]) <= QueueMax
  /\ epoch \in [Key -> Nat] /\ lockOf \in [Turn -> Nat]
  /\ stage \in [Turn -> Holding \cup {"none", "locking", "done", "failed", "cancelled"}]
  /\ on \in [Turn -> Daemon \cup {None}] /\ sess \in [Turn -> 0 .. MaxSession]
  /\ thread \in [Turn -> {"none", "opening", "posting"}]
  /\ got \in [Turn -> SUBSET Turn] /\ complete \in [Turn -> BOOLEAN]
  /\ {shut, disturbed, hurried, wavered} \subseteq BOOLEAN

\* What a turn returns is what the model said to its prompt, and not what it
\* said to another one, of this conversation or of any other.
OwnAnswers == \A t \in Turn : stage[t] = "done" => got[t] = {t}

\* The turns of a conversation do not meet in a session: as long as one has
\* a stream open there, no other one has.
OneTurnPerSession ==
  \A t, u \in Turn : t # u /\ stage[t] \in {"posting", "reading"}
                           /\ stage[u] \in {"posting", "reading"} => sess[t] # sess[u]

\* Every turn that asked comes to an end, whatever becomes of the daemon and
\* of the turns before it.
TurnsEnd == []<>(\A t \in Turn : ~Active(t))

\* After the shutdown no daemon is left that was started here.
NoDaemonLeft == shut => \A d \in Daemon : state[d] \notin {"slow", "up"}

\* The turns of a conversation do not mix. As long as it is forgotten only
\* between its turns, one at a time has a stream open in a session, through
\* restarts of the daemon; as long as no turn ended in a hurry either, a turn
\* gets what the model said to its own prompt; and as long as a daemon that
\* runs is healthy, none outlives the shutdown.
TurnsAreApart ==
  /\ ~disturbed => OneTurnPerSession
  /\ ~disturbed /\ ~hurried => OwnAnswers
  /\ ~wavered => NoDaemonLeft
=============================================================================
