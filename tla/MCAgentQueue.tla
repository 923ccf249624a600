---------------------------- MODULE MCAgentQueue ----------------------------
(* Instances of the agent queue: two new tasks, a requeue and a text for    *)
(* one bundle, or tasks of two.                                             *)
EXTENDS AgentQueue, TLC

CONSTANTS b1, b2, t1, t2, t3, r1, q1

OneBundle  == {b1}
TwoBundles == {b1, b2}
MCBundle   == [t \in Tasks |-> IF t = t3 THEN b2 ELSE b1]
=============================================================================
