--------------------------- MODULE MCOperatorLoop ---------------------------
(* Model-checking instance of OperatorLoop: an action the policy lets run by *)
(* itself and can undo, and one it never does.                               *)
EXTENDS OperatorLoop
CONSTANTS fix, wipe

MCCatalog == [p \in Proposals |-> [reversible |-> TRUE, blast |-> IF p = wipe THEN "delete" ELSE "low"]]
MCUndoable == {fix}
=============================================================================
