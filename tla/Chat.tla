-------------------------------- MODULE Chat ---------------------------------
(***************************************************************************)
(* Chats of a project's session with an agent, and what resets or deletes  *)
(* the session meanwhile.                                                  *)
(*                                                                         *)
(*   services/chat_service.py           chat                               *)
(*   services/project_service.py        create, reset, delete              *)
(*   services/agent_session_service.py  which agent session                *)
(*   services/agent_execution_service.py, workflow/agents/errors.py        *)
(*                                      recoveries of a call               *)
(*   core/locks.py                      one chat per session               *)
(*   runtime_modules/run_state.py       messages                           *)
(*                                                                         *)
(* Grain. A step ends where the code waits for the store or for the agent. *)
(* What an agent session has been told is the set of the requests whose    *)
(* words are in it, by themselves or within the history of a prompt, which *)
(* holds the newest messages only and may cut a long one. The second       *)
(* prompt for an answer that is the text of a tool call is left out; the   *)
(* runs that a reset cancels are in RunController.                         *)
(***************************************************************************)
EXTENDS Naturals, FiniteSets

CONSTANTS
  Call,        \* requests to the API that may be under way
  Req,         \* client_request_id
  Long,        \* those with a message that is longer than a recovery carries
  HistoryLimit,  \* CHAT_HISTORY_LIMIT
  RecoveryLimit, \* CHAT_RECOVERY_HISTORY_LIMIT
  Reuse,       \* reuse_session of the agent: is the prompt only the message?
  Recovery,    \* recoveries the agent's errors lead to, of "backoff",
               \* "create" and "handoff"
  Careful,     \* is a session only reset or deleted when nobody chats in it?
  MaxAsked,    \* bound: requests
  MaxSessions, \* bound: agent sessions
  MaxFaults,   \* bound: resets, deletions, restarts
  None

\* The session a chat begins with is the first.
ASSUME ChatAssumption ==
  /\ Reuse \in BOOLEAN /\ Careful \in BOOLEAN
  /\ Recovery \subseteq {"backoff", "create", "handoff"}
  /\ Long \subseteq Req
  /\ RecoveryLimit \in Nat /\ HistoryLimit \in Nat /\ RecoveryLimit <= HistoryLimit
  /\ MaxAsked \in Nat /\ MaxSessions \in Nat \ {0} /\ MaxFaults \in Nat
  /\ None \notin Req

VARIABLES
  session,   \* is there the session, and which agent session is its own?
  messages,  \* [req, role, status, at], at: its place in the chat
  told,      \* of each agent session, the requests it has been told
  call,      \* of each call: pc, req, the session it read, history
  asked, faults,
  past,      \* history variable: the requests of before the last reset
  cut        \* history variable: agent sessions whose history was cut

vars == <<session, messages, told, call, asked, faults, past, cut>>

AgentSession == 1..MaxSessions
Idle == [pc |-> "idle", req |-> None, sid |-> 0, history |-> {}]
Chatting(c) == call[c].pc \in {"user", "assistant", "agent", "record", "answered", "failed"}
Busy == \E c \in Call : Chatting(c)
RequestsOf(M) == {m.req : m \in M}
Requests == RequestsOf(messages)
Fresh == Cardinality({a \in AgentSession : told[a] # {None}}) + 1

GoOn(c, l) == call' = [call EXCEPT ![c].pc = l]
Said(q, role, status) ==
  [req |-> q, role |-> role, status |-> status, at |-> Cardinality(messages) + 1]
SetStatus(q, s) ==
  messages' = {IF m.req = q /\ m.role = "assistant" THEN [m EXCEPT !.status = s] ELSE m :
                 m \in messages}

-----------------------------------------------------------------------------
(* chat                                                                    *)

\* Mutant: only an answer that is complete is taken for one.
MutAnswered(q) ==
  \E m \in messages : m.req = q /\ m.role = "assistant" /\ m.status = "completed"

\* Both messages of the request are there, whatever came of them.
Answered(q) == \A r \in {"user", "assistant"} : \E m \in messages : m.req = q /\ m.role = r

\* The read, the look for an earlier answer and the lock: nothing waits in
\* between. A session that is gone (404), an answered request and a busy
\* session (409) change nothing.
Ask(c, q) ==
  /\ call[c].pc = "idle" /\ asked < MaxAsked
  /\ session.there /\ ~Answered(q) /\ ~Busy
  /\ call' = [call EXCEPT ![c] = [pc |-> "user", req |-> q, sid |-> session.sid,
                                  history |-> messages]]
  /\ asked' = asked + 1
  /\ UNCHANGED <<session, messages, told, faults, past, cut>>

\* append_session_message asks for no session to append to.
AppendUser(c) ==
  /\ call[c].pc = "user"
  /\ messages' = messages \cup {Said(call[c].req, "user", "completed")}
  /\ GoOn(c, "assistant") /\ UNCHANGED <<session, told, asked, faults, past, cut>>

AppendAssistant(c) ==
  /\ call[c].pc = "assistant"
  /\ messages' = messages \cup {Said(call[c].req, "assistant", "running")}
  /\ GoOn(c, "agent") /\ UNCHANGED <<session, told, asked, faults, past, cut>>

\* history[-n:]
Newest(n, H) == {m \in H : \A x \in H : x.at < m.at + n}

\* Mutant: the prompt of a recovery is the message.
MutRecoveryPrompt(c) == {call[c].req}

\* _chat_recovery_prompt
RecoveryPrompt(c) == RequestsOf(Newest(RecoveryLimit, call[c].history)) \cup {call[c].req}
RecoveryCuts(c) ==
  \/ Newest(RecoveryLimit, call[c].history) # call[c].history
  \/ RequestsOf(call[c].history) \cap Long # {}

\* _chat_prompt
Prompt(c) ==
  IF Reuse THEN {call[c].req}
  ELSE RequestsOf(Newest(HistoryLimit, call[c].history)) \cup {call[c].req}
PromptCuts(c) == ~Reuse /\ Newest(HistoryLimit, call[c].history) # call[c].history

CutIf(b, a) == cut' = IF b THEN cut \cup {a} ELSE cut

\* Without reuse of sessions the agent knows the prompt and nothing else.
Say(c) ==
  LET a == call[c].sid IN
  /\ told' = [told EXCEPT ![a] = IF Reuse THEN (@ \ {None}) \cup Prompt(c) ELSE Prompt(c)]
  /\ cut' = IF Reuse THEN cut ELSE IF PromptCuts(c) THEN cut \cup {a} ELSE cut \ {a}
Begin(a, words) == told' = [told EXCEPT ![a] = words]

\* The agent answers in the session it was given, or in a new one after
\* AgentExecutionService.execute recovered its call: a session that is lost is
\* created again for the same prompt, one that is full is handed over.
AgentAnswers(c) ==
  /\ call[c].pc = "agent"
  /\ \/ /\ Say(c)
        /\ GoOn(c, "answered")
     \/ /\ Fresh \in AgentSession
        /\ \/ "create" \in Recovery /\ Begin(Fresh, Prompt(c)) /\ CutIf(PromptCuts(c), Fresh)
           \/ "handoff" \in Recovery /\ Begin(Fresh, RecoveryPrompt(c))
              /\ CutIf(RecoveryCuts(c), Fresh)
        /\ call' = [call EXCEPT ![c].pc = "record", ![c].sid = Fresh]
  /\ UNCHANGED <<session, messages, asked, faults, past>>

\* update_agent_session_id: into whatever the session is by now
RecordSession(c) ==
  /\ call[c].pc = "record"
  /\ session' = IF session.there THEN [session EXCEPT !.sid = call[c].sid] ELSE session
  /\ GoOn(c, "answered") /\ UNCHANGED <<messages, told, asked, faults, past, cut>>

AgentFails(c) ==
  /\ call[c].pc = "agent"
  /\ \/ UNCHANGED <<told, cut>>
     \/ Say(c)
  /\ GoOn(c, "failed") /\ UNCHANGED <<session, messages, asked, faults, past>>

\* update_message, and the lock is released
End(c) ==
  /\ call[c].pc \in {"answered", "failed"}
  /\ SetStatus(call[c].req, IF call[c].pc = "answered" THEN "completed" ELSE "failed")
  /\ call' = [call EXCEPT ![c] = Idle]
  /\ UNCHANGED <<session, told, asked, faults, past, cut>>

-----------------------------------------------------------------------------
(* Sessions.                                                               *)

Fault == faults < MaxFaults /\ faults' = faults + 1

\* A new id for every agent: each makes its session when it is first used.
ResetTo == [session EXCEPT !.sid = Fresh]

\* The store's change of reset_project. Nothing asks whether somebody chats.
Reset ==
  /\ session.there /\ Fault /\ Fresh \in AgentSession /\ (Careful => ~Busy)
  /\ session' = ResetTo
  /\ told' = [told EXCEPT ![Fresh] = {}]
  /\ past' = past \cup Requests \cup {call[c].req : c \in {d \in Call : Chatting(d)}}
  /\ messages' = {}
  /\ UNCHANGED <<call, asked, cut>>

\* delete_project; a new session has an id, and so a history, of its own.
Delete ==
  /\ session.there /\ Fault /\ (Careful => ~Busy)
  /\ session' = [session EXCEPT !.there = FALSE]
  /\ messages' = {}
  /\ UNCHANGED <<told, call, asked, past, cut>>

\* The controller goes down with its chats. Nothing looks after their messages.
Restart ==
  /\ Busy /\ Fault
  /\ call' = [c \in Call |-> Idle]
  /\ UNCHANGED <<session, messages, told, asked, past, cut>>

-----------------------------------------------------------------------------
Init ==
  /\ session = [there |-> TRUE, sid |-> 1]
  /\ messages = {} /\ past = {} /\ cut = {}
  /\ told = [a \in AgentSession |-> IF a = 1 THEN {} ELSE {None}]
  /\ call = [c \in Call |-> Idle] /\ asked = 0 /\ faults = 0

Moves(c) == \/ AppendUser(c) \/ AppendAssistant(c) \/ AgentAnswers(c)
            \/ AgentFails(c) \/ RecordSession(c) \/ End(c)

Next ==
  \/ \E c \in Call : Moves(c) \/ \E q \in Req : Ask(c, q)
  \/ Reset \/ Delete \/ Restart

Spec == Init /\ [][Next]_vars

-----------------------------------------------------------------------------
(* Properties.                                                             *)

ChatMessage == [req : Req, role : {"user", "assistant"},
                status : {"completed", "running", "failed"}, at : Nat]

\* Every variable has its type.
TypeOK ==
  /\ session \in [there : BOOLEAN, sid : AgentSession]
  /\ messages \subseteq ChatMessage
  /\ told \in [AgentSession -> SUBSET (Req \cup {None})]
  /\ call \in [Call -> [pc : {"idle", "user", "assistant", "agent", "record",
                              "answered", "failed"},
                        req : Req \cup {None}, sid : 0..MaxSessions,
                        history : SUBSET ChatMessage]]
  /\ asked \in 0..MaxAsked /\ faults \in 0..MaxFaults
  /\ past \subseteq Req /\ cut \subseteq AgentSession

Answers == {m \in messages : m.role = "assistant"}
Completed(M) == {m \in M : m.role = "assistant" /\ m.status = "completed"}

\* A request has one answer, however often it is sent.
OneAnswerPerRequest == \A m, n \in Answers : m.req = n.req => m = n

\* No message waits for an answer that nobody is working on, except after the
\* controller went down.
NoAnswerIsForgotten ==
  faults = 0 => \A m \in messages : m.status = "running" => \E c \in Call : call[c].req = m.req

\* The two together: a request that is sent again, while its first copy is
\* answered or after it, makes no second answer and leaves none open.
AnsweredOnce == OneAnswerPerRequest /\ NoAnswerIsForgotten

\* What was said before a reset is not in the agent session used after it.
ResetForgets ==
  session.there => told[session.sid] \cap (past \ Requests) \subseteq {None}

\* The agent that answers has been told the answers among the newest messages
\* before the question, as many as a recovery carries, if only the beginning of
\* a long one: by its own session when the prompt is the message, by the prompt
\* when it works in a new session. It has been told all that was answered
\* before, whole, unless a prompt had to cut the history: a longer chat, or a
\* long message in one that was recovered. And nothing of before a reset.
AgentKnowsTheChat ==
  /\ \A c \in Call : call[c].pc \in {"record", "answered"} =>
       LET a == call[c].sid IN
       /\ RequestsOf(Completed(Newest(RecoveryLimit, call[c].history))) \subseteq told[a]
       /\ a \notin cut => RequestsOf(Completed(messages)) \subseteq told[a]
  /\ ResetForgets
=============================================================================
