-------------------------- MODULE MCAgentLifecycle --------------------------
(* Two calls for one session id.  No two configured agents share an id:    *)
(* validateConfiguredAgents refuses them.                                  *)
EXTENDS AgentLifecycle

=============================================================================
