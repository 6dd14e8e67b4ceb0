---------------------------- MODULE MCTermination ----------------------------
(* Instances of Termination: two nodes, one of which asks for two tickets.     *)
EXTENDS Termination, TLC

CONSTANTS n1, n2, r1, r2, r3, w1, w2

MCAsker == [r \in Requests |-> IF r = r2 THEN n2 ELSE n1]
=============================================================================
