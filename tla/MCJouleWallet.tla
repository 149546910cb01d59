---------------------------- MODULE MCJouleWallet ----------------------------
(* Model-checking instance of JouleWallet: two settlements of one wallet, a  *)
(* transfer out of it into a second wallet, and a reconciliation.            *)
EXTENDS JouleWallet

CONSTANTS s1, s2, m1, wa, wb

MCLegs == [p \in Procs |->
             IF p \in Settlers THEN <<[wallet |-> wa, delta |-> IF p = s1 THEN 2 ELSE 1]>>
             ELSE <<[wallet |-> wa, delta |-> -1], [wallet |-> wb, delta |-> 1]>>]
=============================================================================
