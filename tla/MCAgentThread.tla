--------------------------- MODULE MCAgentThread ---------------------------
EXTENDS AgentThread

CONSTANTS i1, i2

TwoInstances == {i1, i2}
SomeEdits    == [t \in 1 .. MaxTurns |-> IF t = 1 THEN {i1} ELSE IF t = 2 THEN {} ELSE {i1, i2}]
=============================================================================
