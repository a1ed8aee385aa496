--------------------------- MODULE MCAgentDispatch ---------------------------
(* Small instances of AgentDispatch: t1 is urgent and for a1 alone.          *)
EXTENDS AgentDispatch

CONSTANTS t1, a1

MCLevel == [t \in Tasks |-> IF t = t1 THEN 1 ELSE 2]

MCCapable == [t \in Tasks |-> IF t = t1 THEN {a1} ELSE Agents]
=============================================================================
