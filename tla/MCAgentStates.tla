--------------------------- MODULE MCAgentStates ---------------------------
EXTENDS AgentStates, TLC

OneGold == "m" :> "gold"
NoGold == <<>>
=============================================================================
