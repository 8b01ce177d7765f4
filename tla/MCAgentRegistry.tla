--------------------------- MODULE MCAgentRegistry ---------------------------
(* Instances of AgentRegistry for TLC: model values for the agents and the  *)
(* gateways, and the registry lists.                                        *)
EXTENDS AgentRegistry

CONSTANTS a1, g1, g2

OneAgent == {a1}
OneGateway == {g1}
TwoGateways == {g1, g2}
ListOne == <<g1>>
ListTwo == <<g1, g2>>
NoStall == {}
==============================================================================
