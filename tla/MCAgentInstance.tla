--------------------------- MODULE MCAgentInstance ---------------------------
\* Instances of AgentInstance for TLC; the cfg files give the constants.
EXTENDS AgentInstance
=============================================================================
