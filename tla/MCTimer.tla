------------------------------ MODULE MCTimer ------------------------------
(* An instance of Timer for TLC: a near and a far once task and a periodic *)
(* one.                                                                    *)
EXTENDS Timer

MCTasks  == {"near", "far", "often"}
MCDelay  == [t \in MCTasks |-> CASE t = "near" -> 1 [] t = "far" -> 3 [] OTHER -> 1]
MCPeriod == [t \in MCTasks |-> IF t = "often" THEN 2 ELSE 0]
=============================================================================
