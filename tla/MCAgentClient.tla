---------------------------- MODULE MCAgentClient ----------------------------
(* Small instances of AgentClient for TLC.                                 *)
EXTENDS AgentClient

CONSTANTS r1, r2, r3, a1, a2

TwoCalls == {r1, r2}
ThreeRequests == {r1, r2, r3}

OneAction == {a1}
TwoActions == {a1, a2}

\* The longest session id that fits behind "agent:".
Lengths == [a \in Actions |-> 122]

FirstTimed == {a1}
NoneTimed == {}

KeysOfCalls == {Payload(a, r).key : a \in Actions, r \in Requests}
ContentsOfCalls == {Payload(a, r).content : a \in Actions, r \in Requests}
CitingFirst == {c \in ContentsOfCalls : c.action = a1}

OneFaulty == {r1}
NoneFaulty == {}
=============================================================================
