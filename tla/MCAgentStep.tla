---------------------------- MODULE MCAgentStep ----------------------------
\* An instance of AgentStep: a step that edits the project and one that only
\* reads it.
EXTENDS AgentStep, TLC

OwnRole == "build" :> "build" @@ "review" :> "review"
=============================================================================
