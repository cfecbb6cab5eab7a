------------------------------ MODULE ChatProofs ------------------------------
(***************************************************************************)
(* Chats, proved for any number of calls, requests, agent sessions, resets *)
(* and restarts, where a session is only reset or deleted when nobody      *)
(* chats in it (Careful).                                                  *)
(*                                                                         *)
(* The lock lets one call chat at a time (Alone). A request is only asked  *)
(* again while it has no answer, and only the call that chats appends one  *)
(* (UnderWay), after its question (Questions). What was answered is in the *)
(* history the call has read (Carries) and, but for what prompts had to    *)
(* cut, in the agent session of the session (Heard); what was said before  *)
(* a reset is in neither (Forgotten). A recovery that creates a session again for a prompt that  *)
(* has only the message loses the chat: Remembers excludes it.             *)
(***************************************************************************)
EXTENDS Chat, FiniteSetTheorems, TLAPS

Alone == \A c, d \in Call : Chatting(c) /\ Chatting(d) => c = d

HasQuestion(q) == \E m \in messages : m.req = q /\ m.role = "user"

Questions ==
  \A m \in messages :
    /\ m.role = "assistant" => HasQuestion(m.req)
    /\ m.role = "user" => m.status = "completed"

UnderWay ==
  \A c \in Call : Chatting(c) =>
    /\ call[c].req \in Req /\ call[c].sid \in AgentSession /\ session.there
    /\ call[c].pc # "user" => HasQuestion(call[c].req)
    /\ call[c].pc \in {"user", "assistant"} => \A m \in Answers : m.req # call[c].req

WorkedOn ==
  faults = 0 =>
    \A m \in messages : m.status = "running" =>
      \E c \in Call : Chatting(c) /\ call[c].req = m.req

Finite == IsFiniteSet(messages)

AnswerInv ==
  /\ TypeOK /\ Finite
  /\ Alone /\ Questions /\ UnderWay /\ OneAnswerPerRequest /\ WorkedOn

-----------------------------------------------------------------------------
(* The calls.                                                              *)

LEMMA IdleIsTyped ==
  /\ Idle \in [pc : {"idle", "user", "assistant", "agent", "record", "answered", "failed"},
               req : Req \cup {None}, sid : 0..MaxSessions, history : SUBSET ChatMessage]
  /\ Idle.pc = "idle"
BY ChatAssumption DEF Idle

\* When the call that chats makes a step, it is the one that chats after it.
LEMMA StaysAlone ==
  ASSUME TypeOK, Alone, NEW c \in Call, Chatting(c), NEW r, call' = [call EXCEPT ![c] = r]
  PROVE  Alone' /\ \A d \in Call : Chatting(d)' => d = c
BY DEF TypeOK, Alone, Chatting

LEMMA OthersAreIdle ==
  ASSUME TypeOK, Alone, NEW c \in Call, Chatting(c), NEW d \in Call, d # c
  PROVE  ~Chatting(d)
BY DEF Alone

-----------------------------------------------------------------------------
(* The answers.                                                            *)

LEMMA AnswerInit == Init => AnswerInv
<1> SUFFICES ASSUME Init PROVE AnswerInv
  OBVIOUS
<1> USE ChatAssumption
<1>1. TypeOK
  BY IdleIsTyped DEF Init, TypeOK, AgentSession
<1>2. \A c \in Call : ~Chatting(c)
  BY IdleIsTyped DEF Init, Chatting
<1>3. messages = {}
  BY DEF Init
<1> QED BY <1>1, <1>2, <1>3, FS_EmptySet
  DEF AnswerInv, Finite, Alone, Questions, UnderWay, OneAnswerPerRequest, Answers, WorkedOn

LEMMA AskInv ==
  ASSUME AnswerInv, NEW c \in Call, NEW q \in Req, Ask(c, q)
  PROVE  AnswerInv'
<1> USE ChatAssumption DEF AnswerInv
<1> DEFINE r == [pc |-> "user", req |-> q, sid |-> session.sid, history |-> messages]
<1>1. call' = [call EXCEPT ![c] = r]
      /\ UNCHANGED <<session, messages, told, faults, past, cut>>
      /\ session.there /\ ~Answered(q) /\ ~Busy /\ asked' = asked + 1 /\ asked < MaxAsked
  BY DEF Ask
<1>2. messages \subseteq ChatMessage
  BY DEF TypeOK
<1>3. session.sid \in AgentSession /\ session.sid \in 0..MaxSessions
  BY DEF TypeOK, AgentSession
<1>4. r \in [pc : {"idle", "user", "assistant", "agent", "record", "answered", "failed"},
             req : Req \cup {None}, sid : 0..MaxSessions, history : SUBSET ChatMessage]
  BY <1>2, <1>3
<1>5. TypeOK'
  BY <1>1, <1>4 DEF TypeOK
<1>6. call'[c] = r /\ \A d \in Call : d # c => call'[d] = call[d]
  BY <1>1 DEF TypeOK
<1>7. \A d \in Call : ~Chatting(d)
  BY <1>1 DEF Busy
<1>8. \A d \in Call : Chatting(d)' => d = c
  BY <1>6, <1>7 DEF Chatting
<1>9. \A m \in Answers : m.req # q
  BY <1>1 DEF Answered, Answers, Questions, HasQuestion
<1>10. UnderWay'
  BY <1>1, <1>3, <1>6, <1>8, <1>9 DEF UnderWay, Answers
<1>11. WorkedOn'
  BY <1>1, <1>7 DEF WorkedOn
<1>12. Alone'
  BY <1>8 DEF Alone
<1>13. Questions' /\ OneAnswerPerRequest' /\ Finite'
  BY <1>1 DEF Finite, Questions, HasQuestion, OneAnswerPerRequest, Answers
<1> QED BY <1>5, <1>10, <1>11, <1>12, <1>13

\* What does not touch the messages: the call goes on with the agent.
LEMMA AgentTypes ==
  ASSUME AnswerInv, NEW c \in Call, AgentAnswers(c) \/ AgentFails(c)
  PROVE  told' \in [AgentSession -> SUBSET (Req \cup {None})] /\ cut' \subseteq AgentSession
<1> USE DEF AnswerInv
<1>1. call[c].req \in Req /\ call[c].history \subseteq ChatMessage /\ call[c].sid \in AgentSession
  BY DEF UnderWay, AgentAnswers, AgentFails, Chatting, TypeOK
<1>2. Prompt(c) \subseteq Req /\ RecoveryPrompt(c) \subseteq Req
  BY <1>1 DEF Prompt, RecoveryPrompt, RequestsOf, Newest, ChatMessage
<1>3. CASE UNCHANGED <<told, cut>>
  BY <1>3 DEF TypeOK
<1>4. CASE Say(c)
  BY <1>1, <1>2, <1>4 DEF Say, TypeOK
<1>5. ASSUME Fresh \in AgentSession, NEW words, NEW b, Begin(Fresh, words), CutIf(b, Fresh),
             words = Prompt(c) \/ words = RecoveryPrompt(c)
      PROVE  told' \in [AgentSession -> SUBSET (Req \cup {None})] /\ cut' \subseteq AgentSession
  BY <1>2, <1>5 DEF Begin, CutIf, TypeOK
<1> QED BY <1>3, <1>4, <1>5 DEF AgentAnswers, AgentFails

LEMMA GoesOn ==
  ASSUME AnswerInv, NEW c \in Call, Chatting(c), call[c].pc # "user", NEW r,
         call' = [call EXCEPT ![c] = r],
         r \in [pc : {"agent", "record", "answered", "failed"}, req : {call[c].req},
                sid : AgentSession, history : {call[c].history}],
         UNCHANGED <<messages, asked, faults, past>>,
         session' \in [there : {session.there}, sid : AgentSession],
         told' \in [AgentSession -> SUBSET (Req \cup {None})], cut' \subseteq AgentSession
  PROVE  AnswerInv'
<1> USE ChatAssumption DEF AnswerInv
<1>1. call[c].req \in Req /\ session.there /\ HasQuestion(call[c].req)
  BY DEF UnderWay
<1>2. call[c].history \subseteq ChatMessage
  BY DEF TypeOK
<1>3. r \in [pc : {"idle", "user", "assistant", "agent", "record", "answered", "failed"},
             req : Req \cup {None}, sid : 0..MaxSessions, history : SUBSET ChatMessage]
  BY <1>1, <1>2 DEF AgentSession
<1>4. session' \in [there : BOOLEAN, sid : AgentSession] /\ session'.there
  BY <1>1 DEF TypeOK
<1>5. TypeOK'
  BY <1>3, <1>4 DEF TypeOK, AgentSession
<1>6. Alone' /\ (\A d \in Call : Chatting(d)' => d = c) /\ call'[c] = r
  BY StaysAlone DEF TypeOK
<1>7. UnderWay'
  BY <1>1, <1>4, <1>6 DEF UnderWay, HasQuestion, AgentSession
<1>8. Chatting(c)'
  BY <1>6 DEF Chatting
<1>9. WorkedOn'
  BY <1>6, <1>8, OthersAreIdle DEF WorkedOn
<1>10. Questions' /\ OneAnswerPerRequest' /\ Finite'
  BY DEF Finite, Questions, HasQuestion, OneAnswerPerRequest, Answers
<1> QED BY <1>5, <1>6, <1>7, <1>9, <1>10

\* A call that goes on, perhaps with another agent session.
LEMMA Moved ==
  ASSUME TypeOK, NEW c \in Call, NEW l, NEW a,
         call' = [call EXCEPT ![c].pc = l, ![c].sid = a]
  PROVE  /\ call' = [call EXCEPT ![c] = call'[c]]
         /\ call'[c] \in [pc : {l}, req : {call[c].req}, sid : {a}, history : {call[c].history}]
<1>1. /\ call'[c].pc = l /\ call'[c].sid = a
      /\ call'[c].req = call[c].req /\ call'[c].history = call[c].history
  BY DEF TypeOK
<1>2. call'[c] = [pc |-> call'[c].pc, sid |-> call'[c].sid, req |-> call'[c].req,
                  history |-> call'[c].history]
  BY DEF TypeOK
<1>3. call' = [call EXCEPT ![c] = call'[c]]
  BY DEF TypeOK
<1> QED BY ONLY <1>1, <1>2, <1>3

LEMMA WentOn ==
  ASSUME TypeOK, NEW c \in Call, NEW l, GoOn(c, l)
  PROVE  /\ call' = [call EXCEPT ![c] = call'[c]]
         /\ call'[c] \in [pc : {l}, req : {call[c].req}, sid : {call[c].sid},
                          history : {call[c].history}]
<1>1. call'[c] \in [pc : {l}, req : {call[c].req}, sid : {call[c].sid},
                    history : {call[c].history}]
  BY DEF TypeOK, ChatMessage, GoOn
<1>2. call' = [call EXCEPT ![c] = call'[c]]
  BY DEF TypeOK, ChatMessage, GoOn
<1> QED BY ONLY <1>1, <1>2

LEMMA AgentInv ==
  ASSUME AnswerInv, NEW c \in Call, AgentAnswers(c) \/ AgentFails(c) \/ RecordSession(c)
  PROVE  AnswerInv'
<1> USE ChatAssumption DEF AnswerInv
<1>1. Chatting(c) /\ call[c].pc # "user"
  BY DEF Chatting, AgentAnswers, AgentFails, RecordSession
<1>2. call[c].sid \in AgentSession /\ session \in [there : BOOLEAN, sid : AgentSession]
  BY <1>1 DEF TypeOK, UnderWay
<1>3. told' \in [AgentSession -> SUBSET (Req \cup {None})] /\ cut' \subseteq AgentSession
  BY AgentTypes DEF RecordSession, TypeOK
<1>4. session' \in [there : {session.there}, sid : AgentSession]
      /\ UNCHANGED <<messages, asked, faults, past>>
  BY <1>2 DEF AgentAnswers, AgentFails, RecordSession
<1> DEFINE Going == [pc : {"agent", "record", "answered", "failed"}, req : {call[c].req},
                     sid : AgentSession, history : {call[c].history}]
<1>5. ASSUME NEW l \in {"answered", "failed"}, GoOn(c, l)
      PROVE  \E r \in Going : call' = [call EXCEPT ![c] = r]
  BY <1>2, <1>5, WentOn
<1>6. ASSUME Fresh \in AgentSession, call' = [call EXCEPT ![c].pc = "record", ![c].sid = Fresh]
      PROVE  \E r \in Going : call' = [call EXCEPT ![c] = r]
  <2>1. PICK a \in AgentSession : call' = [call EXCEPT ![c].pc = "record", ![c].sid = a]
    BY <1>6
  <2>2. call' = [call EXCEPT ![c] = call'[c]]
        /\ call'[c] \in [pc : {"record"}, req : {call[c].req}, sid : {a},
                         history : {call[c].history}]
    BY <2>1, Moved, Zenon
  <2> QED BY ONLY <2>2
<1>7. \E r \in Going : call' = [call EXCEPT ![c] = r]
  BY <1>5, <1>6 DEF AgentAnswers, AgentFails, RecordSession
<1> QED BY <1>1, <1>3, <1>4, <1>7, GoesOn

\* The call appends its question or its answer.
LEMMA AppendInv ==
  ASSUME AnswerInv, NEW c \in Call, AppendUser(c) \/ AppendAssistant(c)
  PROVE  AnswerInv'
<1> USE ChatAssumption DEF AnswerInv
<1> DEFINE q == call[c].req
<1>1. Chatting(c) /\ call[c].pc \in {"user", "assistant"}
  BY DEF Chatting, AppendUser, AppendAssistant
<1>2. q \in Req /\ call[c].sid \in AgentSession /\ session.there
      /\ \A m \in Answers : m.req # q
  BY <1>1 DEF UnderWay
<1>3. UNCHANGED <<session, told, asked, faults, past, cut>>
  BY DEF AppendUser, AppendAssistant
<1>4. call[c] \in [pc : {"idle", "user", "assistant", "agent", "record", "answered", "failed"},
                   req : Req \cup {None}, sid : 0..MaxSessions, history : SUBSET ChatMessage]
  BY DEF TypeOK
<1>5. PICK l \in {"assistant", "agent"} :
        /\ call' = [call EXCEPT ![c] = [@ EXCEPT !.pc = l]]
        /\ l = "agent" <=> call[c].pc = "assistant"
  BY DEF AppendUser, AppendAssistant, GoOn
<1> DEFINE r == [pc |-> l, req |-> q, sid |-> call[c].sid, history |-> call[c].history]
<1>6. [call[c] EXCEPT !.pc = l] = r
  BY <1>4
<1>7. call' = [call EXCEPT ![c] = r]
  BY <1>5, <1>6
<1>8. r \in [pc : {"idle", "user", "assistant", "agent", "record", "answered", "failed"},
             req : Req \cup {None}, sid : 0..MaxSessions, history : SUBSET ChatMessage]
  BY <1>4
<1>9. Alone' /\ (\A d \in Call : Chatting(d)' => d = c) /\ call'[c] = r
  BY <1>1, <1>7, StaysAlone DEF TypeOK
<1>10. Chatting(c)'
  BY <1>9 DEF Chatting
<1> HIDE DEF r
<1> DEFINE n == Cardinality(messages) + 1
<1>13. n \in Nat
  BY FS_CardinalityType DEF Finite
<1> HIDE DEF n
<1>11. CASE AppendUser(c)
  <2> DEFINE question == [req |-> q, role |-> "user", status |-> "completed", at |-> n]
  <2>1. messages' = messages \cup {question} /\ l = "assistant"
    BY <1>5, <1>11 DEF AppendUser, Said, n
  <2>9. question \in ChatMessage
    BY <1>2, <1>13 DEF ChatMessage
  <2>2. TypeOK' /\ Finite'
    BY <1>2, <1>3, <1>7, <1>8, <2>1, <2>9, FS_AddElement
    DEF TypeOK, Finite, AppendUser, AppendAssistant
  <2>3. \E m \in messages' : m.req = q /\ m.role = "user"
    <3>1. question \in messages' /\ question.req = q /\ question.role = "user"
      BY <2>1
    <3> QED BY <3>1
  <2>4. Answers' = Answers
    BY <2>1 DEF Answers
  <2>5. UnderWay'
    BY <1>2, <1>3, <1>9, <2>3, <2>4 DEF UnderWay, HasQuestion, r
  <2>6. Questions'
    BY <2>1, <2>3 DEF Questions, HasQuestion
  <2>7. WorkedOn'
    BY <1>1, <1>3, <1>9, <1>10, <2>1, OthersAreIdle DEF WorkedOn, r
  <2>8. OneAnswerPerRequest'
    BY <2>4 DEF OneAnswerPerRequest
  <2> QED BY <1>9, <2>2, <2>5, <2>6, <2>7, <2>8
<1>12. CASE AppendAssistant(c)
  <2> DEFINE answer == [req |-> q, role |-> "assistant", status |-> "running", at |-> n]
  <2>1. messages' = messages \cup {answer} /\ l = "agent" /\ HasQuestion(q)
    BY <1>1, <1>5, <1>12 DEF AppendAssistant, Said, UnderWay, n
  <2>9. answer \in ChatMessage
    BY <1>2, <1>13 DEF ChatMessage
  <2>2. TypeOK' /\ Finite'
    BY <1>2, <1>3, <1>7, <1>8, <2>1, <2>9, FS_AddElement
    DEF TypeOK, Finite, AppendUser, AppendAssistant
  <2>3. \E m \in messages' : m.req = q /\ m.role = "user"
    BY <2>1 DEF HasQuestion
  <2>4. Answers' = Answers \cup {answer}
    BY <2>1 DEF Answers
  <2>5. UnderWay'
    BY <1>2, <1>3, <1>9, <2>1, <2>3 DEF UnderWay, HasQuestion, r
  <2>6. Questions'
    BY <2>1, <2>3 DEF Questions, HasQuestion
  <2>7. WorkedOn'
    BY <1>1, <1>3, <1>9, <1>10, <2>1, OthersAreIdle DEF WorkedOn, r
  <2>8. OneAnswerPerRequest'
    BY <1>2, <2>4 DEF OneAnswerPerRequest
  <2> QED BY <1>9, <2>2, <2>5, <2>6, <2>7, <2>8
<1> QED BY <1>11, <1>12

\* What an answer that ended leaves of a message.
Ended(m, q, s) == IF m.req = q /\ m.role = "assistant" THEN [m EXCEPT !.status = s] ELSE m

LEMMA EndedMessages ==
  ASSUME TypeOK, NEW q, NEW s \in {"completed", "failed"}, NEW m \in messages
  PROVE  /\ Ended(m, q, s) \in ChatMessage
         /\ Ended(m, q, s).req = m.req /\ Ended(m, q, s).role = m.role
         /\ Ended(m, q, s).at = m.at
         /\ m.req = q /\ m.role = "assistant" => Ended(m, q, s).status = s
         /\ ~(m.req = q /\ m.role = "assistant") => Ended(m, q, s) = m
<1>1. m \in ChatMessage
  BY DEF TypeOK
<1> QED BY <1>1 DEF Ended, ChatMessage

LEMMA EndInv == ASSUME AnswerInv, NEW c \in Call, End(c) PROVE AnswerInv'
<1> USE ChatAssumption DEF AnswerInv
<1> DEFINE q == call[c].req
           s == IF call[c].pc = "answered" THEN "completed" ELSE "failed"
<1>1. messages' = {Ended(m, q, s) : m \in messages} /\ s \in {"completed", "failed"}
  BY DEF End, SetStatus, Ended
<1> HIDE DEF s
<1>2. Chatting(c) /\ call' = [call EXCEPT ![c] = Idle]
      /\ UNCHANGED <<session, told, asked, faults, past, cut>>
  BY DEF End, Chatting
<1>3. \A d \in Call : ~Chatting(d)'
  BY <1>2, IdleIsTyped, OthersAreIdle DEF Chatting, TypeOK
<1>4. messages' \subseteq ChatMessage /\ Finite'
  <2>1. messages' \subseteq ChatMessage
    BY <1>1, EndedMessages
  <2>2. IsFiniteSet({Ended(m, q, s) : m \in messages})
    <3> DEFINE T == {Ended(m, q, s) : m \in messages}
               f == [m \in messages |-> Ended(m, q, s)]
    <3>1. f \in Surjection(messages, T)
      BY DEF Surjection
    <3>2. IsFiniteSet(messages)
      BY DEF Finite
    <3> QED BY <3>1, <3>2, FS_Surjection
  <2> QED BY <1>1, <2>1, <2>2 DEF Finite
<1>5. TypeOK'
  BY <1>2, <1>4, IdleIsTyped DEF TypeOK
<1>6. ASSUME NEW p, HasQuestion(p) PROVE HasQuestion(p)'
  BY <1>1, <1>6, EndedMessages DEF HasQuestion
<1>7. Questions'
  BY <1>1, <1>6, EndedMessages DEF Questions
<1>8. OneAnswerPerRequest'
  BY <1>1, EndedMessages DEF OneAnswerPerRequest, Answers
<1>9. WorkedOn'
  <2> SUFFICES ASSUME faults = 0, NEW m \in messages, Ended(m, q, s).status = "running"
               PROVE  FALSE
    BY <1>1, <1>2 DEF WorkedOn
  <2>1. ~(m.req = q /\ m.role = "assistant") /\ m.status = "running"
    BY <1>1, EndedMessages
  <2>2. m.role = "assistant"
    BY <2>1 DEF Questions, TypeOK, ChatMessage
  <2>3. m.req = q
    BY <1>2, <2>1, OthersAreIdle DEF WorkedOn
  <2> QED BY <2>1, <2>2, <2>3
<1> QED BY <1>3, <1>4, <1>5, <1>7, <1>8, <1>9 DEF Alone, UnderWay

\* Resets and deletions leave a session without messages, restarts leave it
\* without calls.
LEMMA FaultInv == ASSUME Careful, AnswerInv, Reset \/ Delete \/ Restart PROVE AnswerInv'
<1> USE ChatAssumption DEF AnswerInv
<1>1. faults' = faults + 1 /\ faults' \in 0..MaxFaults /\ asked' = asked
  BY DEF Reset, Delete, Restart, Fault, TypeOK
<1>2. CASE Reset
  <2>1. messages' = {} /\ UNCHANGED <<call, cut>> /\ ~Busy /\ Fresh \in AgentSession
        /\ session' = [session EXCEPT !.sid = Fresh]
        /\ told' = [told EXCEPT ![Fresh] = {}]
        /\ past' = past \cup Requests \cup {call[c].req : c \in {d \in Call : Chatting(d)}}
    BY <1>2 DEF Reset, ResetTo
  <2>2. past' \subseteq Req
    BY <2>1 DEF TypeOK, Requests, RequestsOf, ChatMessage, Busy
  <2>3. session' \in [there : BOOLEAN, sid : AgentSession]
        /\ told' \in [AgentSession -> SUBSET (Req \cup {None})]
    BY <2>1 DEF TypeOK
  <2>4. TypeOK'
    BY <1>1, <2>1, <2>2, <2>3 DEF TypeOK, AgentSession
  <2>5. \A c \in Call : ~Chatting(c)'
    BY <2>1 DEF Busy, Chatting
  <2> QED BY <2>1, <2>4, <2>5, FS_EmptySet
    DEF Finite, Alone, Questions, UnderWay, OneAnswerPerRequest, Answers, WorkedOn
<1>3. CASE Delete
  <2>1. messages' = {} /\ UNCHANGED <<told, call, past, cut>> /\ ~Busy
        /\ session' = [session EXCEPT !.there = FALSE]
    BY <1>3 DEF Delete
  <2>2. TypeOK'
    BY <1>1, <2>1 DEF TypeOK, AgentSession
  <2>3. \A c \in Call : ~Chatting(c)'
    BY <2>1 DEF Busy, Chatting
  <2> QED BY <2>1, <2>2, <2>3, FS_EmptySet
    DEF Finite, Alone, Questions, UnderWay, OneAnswerPerRequest, Answers, WorkedOn
<1>4. CASE Restart
  <2>1. call' = [c \in Call |-> Idle] /\ UNCHANGED <<session, messages, told, past, cut>>
    BY <1>4 DEF Restart
  <2>2. TypeOK'
    BY <1>1, <2>1, IdleIsTyped DEF TypeOK
  <2>3. \A c \in Call : ~Chatting(c)'
    BY <2>1, IdleIsTyped DEF Chatting
  <2>4. faults' # 0
    BY <1>1 DEF TypeOK
  <2> QED BY <2>1, <2>2, <2>3, <2>4
    DEF Finite, Alone, Questions, HasQuestion, UnderWay, OneAnswerPerRequest, Answers, WorkedOn
<1> QED BY <1>2, <1>3, <1>4

LEMMA AnswerStep == ASSUME Careful, AnswerInv, [Next]_vars PROVE AnswerInv'
<1>1. CASE UNCHANGED vars
  BY <1>1 DEF vars, AnswerInv, TypeOK, Finite, Alone, Chatting, Questions, HasQuestion, UnderWay,
              OneAnswerPerRequest, Answers, WorkedOn
<1>2. ASSUME NEW c \in Call, Moves(c) PROVE AnswerInv'
  BY <1>2, AppendInv, AgentInv, EndInv DEF Moves
<1>3. ASSUME NEW c \in Call, NEW q \in Req, Ask(c, q) PROVE AnswerInv'
  BY <1>3, AskInv
<1> QED BY <1>1, <1>2, <1>3, FaultInv DEF Next

LEMMA AnswerAlways == ASSUME Careful PROVE Spec => []AnswerInv
<1>1. AnswerInv /\ [Next]_vars => AnswerInv'
  BY AnswerStep
<1> QED BY AnswerInit, <1>1, PTL DEF Spec

\* Every variable has its type, for any calls, requests and sessions.
THEOREM ChatTypeCorrect == ASSUME Careful PROVE Spec => []TypeOK
<1>1. AnswerInv => TypeOK
  BY DEF AnswerInv
<1> QED BY <1>1, AnswerAlways, PTL

\* A request that is sent again has one answer, and somebody works on it.
THEOREM RequestsAreAnsweredOnce == ASSUME Careful PROVE Spec => []AnsweredOnce
<1>1. AnswerInv => AnsweredOnce
  BY DEF AnswerInv, AnsweredOnce, NoAnswerIsForgotten, WorkedOn
<1> QED BY <1>1, AnswerAlways, PTL

-----------------------------------------------------------------------------
(* What the agent knows.                                                   *)

Remembers == Reuse => "create" \notin Recovery

AllAnswers == RequestsOf(Completed(messages))
Recent(H) == RequestsOf(Completed(Newest(RecoveryLimit, H)))

\* The agent session a knows the chat that the messages H are.
Knows(a, H) == Recent(H) \subseteq told[a] /\ (a \notin cut => AllAnswers \subseteq told[a])

Heard == Knows(session.sid, messages)

Carries ==
  \A c \in Call : Chatting(c) =>
    /\ call[c].history \subseteq messages /\ Completed(messages) \subseteq call[c].history
    /\ Knows(call[c].sid, call[c].history)
    /\ call[c].pc # "record" => call[c].sid = session.sid
    /\ call[c].pc \in {"record", "answered"} => call[c].req \in told[call[c].sid]
    /\ call[c].pc = "record" => told[call[c].sid] \subseteq Requests

Forgotten == session.there => told[session.sid] \cap past \subseteq Requests

KnowInv == AnswerInv /\ Heard /\ Carries /\ Forgotten

\* What is answered is asked, and is no mark of an unused session.
LEMMA AnsweredIsAsked ==
  ASSUME AnswerInv
  PROVE  AllAnswers \subseteq Requests /\ Requests \subseteq Req /\ None \notin Req
BY ChatAssumption
DEF AnswerInv, TypeOK, ChatMessage, AllAnswers, Completed, Requests, RequestsOf

\* The newest messages of a longer chat are among those of its beginning, or new.
LEMMA NewestOf ==
  ASSUME NEW n, NEW M, NEW H, H \subseteq M
  PROVE  Newest(n, M) \cap H \subseteq Newest(n, H)
BY DEF Newest

LEMMA NewestGrow ==
  ASSUME NEW n \in Nat, NEW k \in Nat, n <= k, NEW H, \A m \in H : m.at \in Nat
  PROVE  Newest(n, H) \subseteq Newest(k, H)
BY DEF Newest

LEMMA KnowInit == Init => KnowInv
<1> SUFFICES ASSUME Init PROVE KnowInv
  OBVIOUS
<1>1. \A c \in Call : ~Chatting(c)
  BY IdleIsTyped DEF Init, Chatting
<1>2. messages = {} /\ past = {}
  BY DEF Init
<1>3. Recent(messages) = {} /\ AllAnswers = {}
  BY <1>2 DEF Recent, AllAnswers, Completed, Newest, RequestsOf
<1> QED BY <1>1, <1>2, <1>3, AnswerInit DEF KnowInv, Heard, Knows, Carries, Forgotten

LEMMA AskKnows ==
  ASSUME KnowInv, NEW c \in Call, NEW q \in Req, Ask(c, q)
  PROVE  (Heard /\ Carries /\ Forgotten)'
<1> USE DEF KnowInv
<1>1. call' = [call EXCEPT ![c] = [pc |-> "user", req |-> q, sid |-> session.sid,
                                   history |-> messages]]
      /\ UNCHANGED <<session, messages, told, past, cut>> /\ ~Busy
  BY DEF Ask
<1>2. \A d \in Call : ~Chatting(d)
  BY <1>1 DEF Busy
<1>3. call'[c] = [pc |-> "user", req |-> q, sid |-> session.sid, history |-> messages]
      /\ \A d \in Call : d # c => call'[d] = call[d]
  BY <1>1 DEF AnswerInv, TypeOK
<1>4. \A d \in Call : Chatting(d)' => d = c
  BY <1>2, <1>3 DEF Chatting
<1>5. AllAnswers' = AllAnswers /\ Requests' = Requests /\ \A H : Recent(H)' = Recent(H)
  BY <1>1 DEF AllAnswers, Requests, Recent
<1>6. Completed(messages) \subseteq messages
  BY DEF Completed
<1>7. Heard' /\ Forgotten'
  BY <1>1, <1>5 DEF Heard, Knows, Forgotten
<1>8. Knows(session.sid, messages)'
  BY <1>7 DEF Heard
<1>9. Carries'
  BY <1>1, <1>3, <1>4, <1>6, <1>8 DEF Carries
<1> QED BY <1>7, <1>9

LEMMA AppendKnows ==
  ASSUME KnowInv, NEW c \in Call, AppendUser(c) \/ AppendAssistant(c)
  PROVE  (Heard /\ Carries /\ Forgotten)'
<1> USE DEF KnowInv, AnswerInv
<1>1. Chatting(c) /\ call[c].pc \in {"user", "assistant"}
  BY DEF Chatting, AppendUser, AppendAssistant
<1>2. PICK l \in {"assistant", "agent"} : call' = [call EXCEPT ![c] = [@ EXCEPT !.pc = l]]
  BY DEF AppendUser, AppendAssistant, GoOn
<1>3. (\A d \in Call : Chatting(d)' => d = c) /\ call'[c] = [call[c] EXCEPT !.pc = l]
  BY <1>1, <1>2, StaysAlone DEF TypeOK
<1>4. /\ call'[c].pc = l /\ call'[c].req = call[c].req /\ call'[c].sid = call[c].sid
      /\ call'[c].history = call[c].history
  BY <1>3 DEF TypeOK
<1>5. UNCHANGED <<session, told, past, cut>>
  BY DEF AppendUser, AppendAssistant
<1>6. PICK m : /\ messages' = messages \cup {m}
               /\ ~(m.role = "assistant" /\ m.status = "completed")
  <2>1. CASE AppendUser(c)
    <3> DEFINE m == Said(call[c].req, "user", "completed")
    <3>1. messages' = messages \cup {m} /\ m.role = "user"
      BY <2>1 DEF AppendUser, Said
    <3> QED BY <3>1
  <2>2. CASE AppendAssistant(c)
    <3> DEFINE m == Said(call[c].req, "assistant", "running")
    <3>1. messages' = messages \cup {m} /\ m.status = "running"
      BY <2>2 DEF AppendAssistant, Said
    <3> QED BY <3>1
  <2> QED BY <2>1, <2>2
<1>7. Completed(messages') = Completed(messages) /\ messages \subseteq messages'
  BY <1>6 DEF Completed
<1>8. AllAnswers' = AllAnswers /\ Requests \subseteq Requests'
  BY <1>7 DEF AllAnswers, Requests, RequestsOf
<1>9. Recent(messages') \subseteq Recent(messages)
  <2>1. Completed(Newest(RecoveryLimit, messages')) \subseteq Completed(Newest(RecoveryLimit, messages))
    BY <1>7, NewestOf DEF Completed, Newest
  <2> QED BY <2>1 DEF Recent, RequestsOf
<1>10. Heard'
  BY <1>5, <1>8, <1>9 DEF Heard, Knows, Recent
<1>11. Knows(call[c].sid, call[c].history)'
  BY <1>1, <1>4, <1>5, <1>8 DEF Carries, Knows, Recent
<1>12. Carries'
  BY <1>1, <1>3, <1>4, <1>5, <1>7, <1>11 DEF Carries
<1> QED BY <1>5, <1>8, <1>10, <1>12 DEF Forgotten

\* A prompt with the history tells what a recovery carries of it, and all of it
\* that was answered unless it is cut; the message alone tells the message.
LEMMA PromptsTell ==
  ASSUME KnowInv, NEW c \in Call, Chatting(c), call[c].pc = "agent"
  PROVE  /\ call[c].req \in Prompt(c) /\ Prompt(c) \subseteq Requests
         /\ ~Reuse => Recent(call[c].history) \subseteq Prompt(c)
         /\ ~Reuse /\ ~PromptCuts(c) => AllAnswers \subseteq Prompt(c)
         /\ call[c].req \in RecoveryPrompt(c) /\ RecoveryPrompt(c) \subseteq Requests
         /\ Recent(call[c].history) \subseteq RecoveryPrompt(c)
         /\ ~RecoveryCuts(c) => AllAnswers \subseteq RecoveryPrompt(c)
<1> USE DEF KnowInv, AnswerInv
<1> DEFINE H == call[c].history
<1>1. call[c].req \in Requests
  BY DEF UnderWay, HasQuestion, Requests, RequestsOf
<1>2. H \subseteq messages /\ Completed(messages) \subseteq H
  BY DEF Carries
<1>3. \A n : Newest(n, H) \subseteq H /\ RequestsOf(Newest(n, H)) \subseteq Requests
  BY <1>2 DEF Newest, RequestsOf, Requests
<1>4. AllAnswers \subseteq RequestsOf(H)
  BY <1>2 DEF AllAnswers, RequestsOf
<1>5. \A m \in H : m.at \in Nat
  BY <1>2 DEF TypeOK, ChatMessage
<1>6. Newest(RecoveryLimit, H) \subseteq Newest(HistoryLimit, H)
  BY <1>5, ChatAssumption, NewestGrow
<1>7. Recent(H) \subseteq RequestsOf(Newest(RecoveryLimit, H))
      /\ Recent(H) \subseteq RequestsOf(Newest(HistoryLimit, H))
  BY <1>6 DEF Recent, RequestsOf, Completed
<1> HIDE DEF H
<1>8. /\ RecoveryPrompt(c) = RequestsOf(Newest(RecoveryLimit, H)) \cup {call[c].req}
      /\ Prompt(c) = IF Reuse THEN {call[c].req}
                     ELSE RequestsOf(Newest(HistoryLimit, H)) \cup {call[c].req}
      /\ ~RecoveryCuts(c) => Newest(RecoveryLimit, H) = H
      /\ ~Reuse /\ ~PromptCuts(c) => Newest(HistoryLimit, H) = H
  BY DEF RecoveryPrompt, Prompt, RecoveryCuts, PromptCuts, H
<1>9. Recent(H) = Recent(call[c].history)
  BY DEF H
<1> QED BY <1>1, <1>3, <1>4, <1>7, <1>8, <1>9

\* The agent is told the question, and in a new session the history before it.
LEMMA AgentKnows ==
  ASSUME Remembers, KnowInv, NEW c \in Call, AgentAnswers(c) \/ AgentFails(c)
  PROVE  (Heard /\ Carries /\ Forgotten)'
<1> USE DEF KnowInv, AnswerInv
<1>1. Chatting(c) /\ call[c].pc = "agent"
  BY DEF Chatting, AgentAnswers, AgentFails
<1>12. PICK q, a, H : q = call[c].req /\ a = call[c].sid /\ H = call[c].history
  OBVIOUS
<1>2. /\ a = session.sid /\ session.there
      /\ H \subseteq messages /\ Completed(messages) \subseteq H /\ Knows(a, H)
  BY <1>1, <1>12 DEF UnderWay, Carries
<1>5. UNCHANGED <<session, messages, past>>
  BY DEF AgentAnswers, AgentFails
<1>6. AllAnswers' = AllAnswers /\ Requests' = Requests /\ Recent(H)' = Recent(H)
      /\ Recent(messages)' = Recent(messages)
  BY <1>5 DEF AllAnswers, Requests, Recent, RequestsOf, Completed, Newest
<1>7. /\ AllAnswers \subseteq Requests /\ None \notin Requests
      /\ Recent(messages) \subseteq Recent(H)
      /\ told[a] \cap past \subseteq Requests
  <2>1. Completed(Newest(RecoveryLimit, messages)) \subseteq Completed(Newest(RecoveryLimit, H))
    BY <1>2, NewestOf DEF Completed, Newest
  <2> QED BY <1>2, <2>1, AnsweredIsAsked DEF Forgotten, Recent, RequestsOf
<1>3. Recent(H) \subseteq Requests
  BY <1>2 DEF Recent, RequestsOf, Requests, Completed, Newest
<1>8. a \in AgentSession /\ DOMAIN told = AgentSession /\ DOMAIN call = Call
  BY <1>1, <1>12 DEF UnderWay, TypeOK
<1>4. /\ q \in Prompt(c) /\ Prompt(c) \subseteq Requests
      /\ ~Reuse => Recent(H) \subseteq Prompt(c)
      /\ ~Reuse /\ ~PromptCuts(c) => AllAnswers \subseteq Prompt(c)
      /\ q \in RecoveryPrompt(c) /\ RecoveryPrompt(c) \subseteq Requests
      /\ Recent(H) \subseteq RecoveryPrompt(c)
      /\ ~RecoveryCuts(c) => AllAnswers \subseteq RecoveryPrompt(c)
  BY <1>1, <1>12, PromptsTell
<1>9. CASE GoOn(c, "failed") /\ UNCHANGED <<told, cut>>
  <2>1. call' = [call EXCEPT ![c] = [@ EXCEPT !.pc = "failed"]]
    BY <1>9 DEF GoOn
  <2>2. (\A d \in Call : Chatting(d)' => d = c) /\ call'[c] = [call[c] EXCEPT !.pc = "failed"]
    BY <1>1, <2>1, StaysAlone DEF TypeOK
  <2>3. call'[c].pc = "failed" /\ call'[c].sid = a /\ call'[c].history = H
    BY <1>12, <2>2 DEF TypeOK
  <2>4. Knows(a, H)' /\ Heard'
    BY <1>2, <1>5, <1>6, <1>9 DEF Knows, Heard
  <2> QED BY <1>2, <1>5, <1>6, <1>9, <2>2, <2>3, <2>4 DEF Carries, Forgotten
<1>10. CASE Say(c) /\ (GoOn(c, "answered") \/ GoOn(c, "failed"))
  <2>1. PICK l \in {"answered", "failed"} : call' = [call EXCEPT ![c] = [@ EXCEPT !.pc = l]]
    BY <1>10 DEF GoOn
  <2>2. (\A d \in Call : Chatting(d)' => d = c) /\ call'[c] = [call[c] EXCEPT !.pc = l]
    BY <1>1, <2>1, StaysAlone DEF TypeOK
  <2>3. call'[c].pc = l /\ call'[c].sid = a /\ call'[c].req = q /\ call'[c].history = H
    BY <1>12, <2>2 DEF TypeOK
  <2>4. /\ told'[a] = IF Reuse THEN (told[a] \ {None}) \cup Prompt(c) ELSE Prompt(c)
        /\ cut' = IF Reuse THEN cut ELSE IF PromptCuts(c) THEN cut \cup {a} ELSE cut \ {a}
    BY <1>8, <1>10, <1>12 DEF Say
  <2>5. /\ Recent(H) \subseteq told'[a]
        /\ a \notin cut' => AllAnswers \subseteq told'[a]
        /\ q \in told'[a] /\ told'[a] \cap past \subseteq Requests
    <3>1. Recent(H) \subseteq told[a] /\ (a \notin cut => AllAnswers \subseteq told[a])
      BY <1>2 DEF Knows
    <3>2. CASE Reuse
      BY <1>3, <1>4, <1>7, <2>4, <3>1, <3>2
    <3>3. CASE ~Reuse
      BY <1>4, <2>4, <3>3
    <3> QED BY <3>2, <3>3
  <2>6. Knows(a, H)' /\ Heard'
    <3>1. Knows(a, H)'
      BY <1>6, <2>5 DEF Knows
    <3>2. Knows(a, messages)'
      BY <1>6, <1>7, <2>5 DEF Knows
    <3> QED BY <1>2, <1>5, <3>1, <3>2 DEF Heard
  <2> QED BY <1>2, <1>5, <1>6, <2>2, <2>3, <2>5, <2>6 DEF Carries, Forgotten
<1>11. ASSUME Fresh \in AgentSession, NEW words, NEW b,
              \/ words = Prompt(c) /\ "create" \in Recovery /\ b = PromptCuts(c)
              \/ words = RecoveryPrompt(c) /\ b = RecoveryCuts(c),
              Begin(Fresh, words), CutIf(b, Fresh),
              call' = [call EXCEPT ![c].pc = "record", ![c].sid = Fresh]
       PROVE  (Heard /\ Carries /\ Forgotten)'
  <2>1. /\ q \in words /\ words \subseteq Requests /\ Recent(H) \subseteq words
        /\ ~b => AllAnswers \subseteq words
    BY <1>4, <1>11 DEF Remembers
  <2>2. /\ told'[Fresh] = words /\ \A e \in AgentSession : e # Fresh => told'[e] = told[e]
        /\ Fresh \notin cut' => ~b
        /\ \A e \in AgentSession : e # Fresh => (e \in cut' <=> e \in cut)
    BY <1>8, <1>11 DEF Begin, CutIf
  <2>3. call' = [call EXCEPT ![c] = [@ EXCEPT !.pc = "record", !.sid = Fresh]]
    BY <1>11
  <2>6. (\A d \in Call : Chatting(d)' => d = c)
        /\ call'[c] = [call[c] EXCEPT !.pc = "record", !.sid = Fresh]
    BY <1>1, <1>8, <2>3, StaysAlone
  <2>4. /\ call'[c].pc = "record" /\ call'[c].sid = Fresh /\ call'[c].req = q
        /\ call'[c].history = H
    BY <1>12, <2>6 DEF TypeOK
  <2>8. Knows(call[c].sid, H)'
    <3>1. Recent(H) \subseteq told'[Fresh] /\ (Fresh \notin cut' => AllAnswers \subseteq told'[Fresh])
      BY <2>1, <2>2
    <3> QED BY <1>6, <2>4, <3>1 DEF Knows
  <2>5. Heard' /\ Forgotten'
    BY <1>2, <1>5, <1>6, <1>7, <1>8, <2>1, <2>2 DEF Heard, Knows, Forgotten
  <2>9. Completed(messages)' = Completed(messages)
    BY <1>5 DEF Completed
  <2>7. Carries'
    BY <1>2, <1>5, <1>6, <2>1, <2>2, <2>4, <2>6, <2>8, <2>9 DEF Carries
  <2> QED BY <2>5, <2>7
<1> QED BY <1>9, <1>10, <1>11 DEF AgentAnswers, AgentFails

LEMMA RecordKnows ==
  ASSUME KnowInv, NEW c \in Call, RecordSession(c)
  PROVE  (Heard /\ Carries /\ Forgotten)'
<1> USE DEF KnowInv, AnswerInv
<1>1. Chatting(c) /\ call[c].pc = "record"
  BY DEF Chatting, RecordSession
<1>13. PICK H : H = call[c].history
  OBVIOUS
<1>2. session.there /\ call[c].sid \in AgentSession
  BY <1>1 DEF UnderWay
<1>3. session'.sid = call[c].sid /\ UNCHANGED <<messages, told, past, cut>>
  BY <1>2 DEF RecordSession, TypeOK
<1>4. call' = [call EXCEPT ![c] = [@ EXCEPT !.pc = "answered"]]
  BY DEF RecordSession, GoOn
<1>5. (\A d \in Call : Chatting(d)' => d = c) /\ call'[c] = [call[c] EXCEPT !.pc = "answered"]
  BY <1>1, <1>4, StaysAlone DEF TypeOK
<1>6. /\ call'[c].pc = "answered" /\ call'[c].req = call[c].req
      /\ call'[c].sid = call[c].sid /\ call'[c].history = H
  BY <1>5, <1>13 DEF TypeOK
<1>7. AllAnswers' = AllAnswers /\ Requests' = Requests /\ Recent(H)' = Recent(H)
      /\ Recent(messages)' = Recent(messages)
  BY <1>3 DEF AllAnswers, Requests, Recent, RequestsOf, Completed, Newest
<1>8. H \subseteq messages /\ Completed(messages) \subseteq H /\ Knows(call[c].sid, H)
      /\ told[call[c].sid] \subseteq Requests /\ call[c].req \in told[call[c].sid]
  BY <1>1, <1>13 DEF Carries
<1>9. Recent(messages) \subseteq Recent(H)
  <2>1. Completed(Newest(RecoveryLimit, messages)) \subseteq Completed(Newest(RecoveryLimit, H))
    BY <1>8, NewestOf DEF Completed, Newest
  <2> QED BY <2>1 DEF Recent, RequestsOf
<1>10. Heard' /\ Forgotten'
  BY <1>3, <1>7, <1>8, <1>9 DEF Heard, Knows, Forgotten
<1>11. Knows(call[c].sid, H)'
  BY <1>3, <1>6, <1>7, <1>8 DEF Knows
<1>12. Carries'
  BY <1>3, <1>5, <1>6, <1>8, <1>11 DEF Carries
<1> QED BY <1>10, <1>12

LEMMA EndKnows ==
  ASSUME KnowInv, NEW c \in Call, End(c)
  PROVE  (Heard /\ Carries /\ Forgotten)'
<1> USE DEF KnowInv, AnswerInv
<1> DEFINE q == call[c].req
           s == IF call[c].pc = "answered" THEN "completed" ELSE "failed"
           H == call[c].history
<1>1. messages' = {Ended(m, q, s) : m \in messages} /\ s \in {"completed", "failed"}
  BY DEF End, SetStatus, Ended
<1>2. Chatting(c) /\ call' = [call EXCEPT ![c] = Idle] /\ UNCHANGED <<session, told, past, cut>>
  BY DEF End, Chatting
<1>3. \A d \in Call : ~Chatting(d)'
  BY <1>2, IdleIsTyped, OthersAreIdle DEF Chatting, TypeOK
<1>4. s = "completed" => q \in told[session.sid]
  BY <1>2 DEF Carries, End
<1>8. H \subseteq messages /\ Completed(messages) \subseteq H /\ Knows(session.sid, H)
  BY <1>2 DEF Carries, End
<1> HIDE DEF s, q, H
<1>5. Requests' = Requests
  BY <1>1, EndedMessages DEF Requests, RequestsOf
\* An answer that is completed is the one that ended, or was before.
<1>6. ASSUME NEW m \in messages, Ended(m, q, s).role = "assistant",
             Ended(m, q, s).status = "completed", m.req \notin told[session.sid]
      PROVE  m \in Completed(messages) /\ m \in H
  <2>1. ~(m.req = q /\ m.role = "assistant")
    BY <1>1, <1>4, <1>6, EndedMessages
  <2>2. m.role = "assistant" /\ m.status = "completed"
    BY <1>1, <1>6, <2>1, EndedMessages
  <2> QED BY <1>8, <2>2 DEF Completed
<1>7. ASSUME NEW m \in messages, Ended(m, q, s) \in Newest(RecoveryLimit, messages'), m \in H
      PROVE  m \in Newest(RecoveryLimit, H)
  <2>1. \A x \in messages : Ended(x, q, s).at < Ended(m, q, s).at + RecoveryLimit
    BY <1>1, <1>7 DEF Newest
  <2>2. \A x \in messages : x.at < m.at + RecoveryLimit
    BY <1>1, <2>1, EndedMessages
  <2> QED BY <1>7, <1>8, <2>2 DEF Newest
<1>9. Recent(messages') \subseteq told[session.sid]
  <2> SUFFICES ASSUME NEW m \in messages, Ended(m, q, s) \in Newest(RecoveryLimit, messages'),
                      Ended(m, q, s).role = "assistant", Ended(m, q, s).status = "completed",
                      m.req \notin told[session.sid]
               PROVE  FALSE
    <3>1. \A m \in messages : Ended(m, q, s).req = m.req
      BY <1>1, EndedMessages
    <3> QED BY <1>1, <3>1 DEF Recent, RequestsOf, Completed, Newest
  <2>1. m \in Completed(messages) /\ m \in Newest(RecoveryLimit, H)
    BY <1>6, <1>7
  <2>2. m.req \in Recent(H)
    BY <2>1 DEF Recent, RequestsOf, Completed
  <2> QED BY <1>8, <2>2 DEF Knows
<1>10. session.sid \notin cut => AllAnswers' \subseteq told[session.sid]
  <2> SUFFICES ASSUME session.sid \notin cut, NEW m \in messages,
                      Ended(m, q, s).role = "assistant", Ended(m, q, s).status = "completed",
                      m.req \notin told[session.sid]
               PROVE  FALSE
    <3>1. \A m \in messages : Ended(m, q, s).req = m.req
      BY <1>1, EndedMessages
    <3> QED BY <1>1, <3>1 DEF AllAnswers, RequestsOf, Completed
  <2>1. m.req \in AllAnswers
    BY <1>6 DEF AllAnswers, RequestsOf
  <2> QED BY <1>8, <2>1 DEF Knows
<1>11. Heard'
  BY <1>2, <1>9, <1>10 DEF Heard, Knows, Recent
<1> QED BY <1>2, <1>3, <1>5, <1>11 DEF Carries, Forgotten

LEMMA FaultKnows ==
  ASSUME Careful, KnowInv, Reset \/ Delete \/ Restart
  PROVE  (Heard /\ Carries /\ Forgotten)'
<1> USE DEF KnowInv, AnswerInv
<1>4. ASSUME messages' = {} PROVE Recent(messages)' = {} /\ AllAnswers' = {}
  BY <1>4 DEF Recent, AllAnswers, Completed, Newest, RequestsOf
<1>1. CASE Reset
  <2>1. messages' = {} /\ UNCHANGED call /\ ~Busy /\ Fresh \in AgentSession
        /\ session' = [session EXCEPT !.sid = Fresh] /\ told' = [told EXCEPT ![Fresh] = {}]
    BY <1>1 DEF Reset, ResetTo
  <2>2. told'[session'.sid] = {}
    BY <2>1 DEF TypeOK
  <2>3. \A c \in Call : ~Chatting(c)'
    BY <2>1 DEF Busy, Chatting
  <2> QED BY <1>4, <2>1, <2>2, <2>3 DEF Heard, Knows, Carries, Forgotten
<1>2. CASE Delete
  <2>1. messages' = {} /\ UNCHANGED call /\ ~Busy /\ session' = [session EXCEPT !.there = FALSE]
    BY <1>2 DEF Delete
  <2>2. ~session'.there
    BY <2>1 DEF TypeOK
  <2>3. \A c \in Call : ~Chatting(c)'
    BY <2>1 DEF Busy, Chatting
  <2> QED BY <1>4, <2>1, <2>2, <2>3 DEF Heard, Knows, Carries, Forgotten
<1>3. CASE Restart
  <2>1. call' = [c \in Call |-> Idle] /\ UNCHANGED <<session, messages, told, past, cut>>
    BY <1>3 DEF Restart
  <2>2. \A c \in Call : ~Chatting(c)'
    BY <2>1, IdleIsTyped DEF Chatting
  <2> QED BY <2>1, <2>2 DEF Heard, Knows, Carries, Forgotten, AllAnswers, Recent, Requests
<1> QED BY <1>1, <1>2, <1>3

LEMMA KnowStep == ASSUME Careful, Remembers, KnowInv, [Next]_vars PROVE KnowInv'
<1>1. AnswerInv'
  BY AnswerStep DEF KnowInv
<1>2. ASSUME UNCHANGED vars PROVE (Heard /\ Carries /\ Forgotten)'
  <2>1. UNCHANGED <<session, messages, told, call, past, cut>>
    BY <1>2 DEF vars
  <2>2. AllAnswers' = AllAnswers /\ Requests' = Requests
    BY <2>1 DEF AllAnswers, Requests
  <2>3. \A c \in Call : Chatting(c)' <=> Chatting(c)
    BY <2>1 DEF Chatting
  <2>4. Heard' /\ Forgotten'
    BY <2>1, <2>2 DEF KnowInv, Heard, Knows, Recent, Forgotten
  <2>5. Carries'
    BY <2>1, <2>2, <2>3 DEF KnowInv, Carries, Knows, Recent
  <2> QED BY <2>4, <2>5
<1>3. ASSUME NEW c \in Call, Moves(c) PROVE (Heard /\ Carries /\ Forgotten)'
  BY <1>3, AppendKnows, AgentKnows, RecordKnows, EndKnows DEF Moves
<1>4. ASSUME NEW c \in Call, NEW q \in Req, Ask(c, q) PROVE (Heard /\ Carries /\ Forgotten)'
  BY <1>4, AskKnows
<1>5. (Heard /\ Carries /\ Forgotten)'
  BY <1>2, <1>3, <1>4, FaultKnows DEF Next
<1> QED BY <1>1, <1>2, <1>5 DEF KnowInv

\* Whoever answers has been told what the newest messages before the question
\* answer, all that was answered before unless a prompt had to cut the history,
\* and nothing of before a reset: for any number of calls, requests and resets
\* and any limits of the prompts.
THEOREM AgentsKnowTheChat ==
  ASSUME Careful, Reuse => "create" \notin Recovery
  PROVE  Spec => []AgentKnowsTheChat
<1>1. Remembers
  BY DEF Remembers
<1>2. KnowInv /\ [Next]_vars => KnowInv'
  BY <1>1, KnowStep
<1>3. KnowInv => AgentKnowsTheChat
  <2> SUFFICES ASSUME KnowInv PROVE AgentKnowsTheChat
    OBVIOUS
  <2>1. ASSUME NEW c \in Call, call[c].pc \in {"record", "answered"}
        PROVE  /\ RequestsOf(Completed(Newest(RecoveryLimit, call[c].history))) \subseteq told[call[c].sid]
               /\ call[c].sid \notin cut => RequestsOf(Completed(messages)) \subseteq told[call[c].sid]
    BY <2>1 DEF KnowInv, Carries, Chatting, Knows, Recent, AllAnswers
  <2>2. ResetForgets
    BY DEF KnowInv, Forgotten, ResetForgets
  <2> QED BY <2>1, <2>2 DEF AgentKnowsTheChat
<1> QED BY KnowInit, <1>2, <1>3, PTL DEF Spec
=============================================================================
