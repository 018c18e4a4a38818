---- MODULE MCAgentLoop ----
EXTENDS AgentLoop
====
