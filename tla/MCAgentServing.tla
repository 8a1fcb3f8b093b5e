-------------------------- MODULE MCAgentServing --------------------------
(* Instance of AgentServing for TLC: a skill with a tool and a DataMap       *)
(* function whose name has a dot, one call.                                 *)
EXTENDS AgentServing, TLC

CONSTANTS n1, n2, k1, i1, i2, c1, q1

MCName      == {n1, n2}
MCSkill     == {k1}
MCSkillTool == [s \in MCSkill |-> n1]
MCSkillMaps == [s \in MCSkill |-> <<n2>>]
MCMulti     == {}
MCCaptures  == {k1}
MCInstance  == {i1, i2}
MCCall      == {c1}
MCDotted    == {n2}
MCCopyTool  == {n1}
MCDataMap   == {n2}
MCRequest   == {q1}
MCSymmetry  == Permutations(MCInstance)
=============================================================================
