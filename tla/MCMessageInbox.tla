---------------------------- MODULE MCMessageInbox ----------------------------
(* Model-checking instance of MessageInbox: two agents, and two copies of a    *)
(* message for one of them.                                                    *)
EXTENDS MessageInbox

CONSTANTS a, b, f1, f2, f3, m, n, w1

MCid == [f \in Files |-> IF f = f3 THEN n ELSE m]
MCto == [i \in Ids |-> IF i = m THEN a ELSE Everyone]
=============================================================================
